----------------------------- MODULE PairingUser -----------------------------
(***************************************************************************)
(* Pairing with a server that answers and a user who types the PIN that the *)
(* launch shows (main.c:164-188): whatever earlier launches have left at    *)
(* the server and on the network, and unless something goes wrong during    *)
(* the pairing itself, gs_pair gets to its end.                             *)
(*                                                                          *)
(* disturbed is a history variable: something has gone wrong since the      *)
(* first phase of this launch.  It changes no step of Pairing.              *)
(***************************************************************************)
EXTENDS Pairing

VARIABLE disturbed

userVars == << vars, disturbed >>

Note(bad) == disturbed' = (at \in Phases /\ (disturbed \/ bad))

\* Something the server takes is not this launch's own, and this launch is in
\* the middle of its pairing.
LateTaken == /\ session.salt = launch
             /\ << launch, at >> \notin requests \ requests'

\* The pairing of this launch is declined or given the PIN of another one.
WrongPin == session.salt = launch /\ session'.pin # launch

UserInit == Init /\ disturbed = FALSE

UserNext ==
    \/ (Launch \/ Send \/ Receive \/ AnswerQuery \/ Over) /\ Note(FALSE)
    \/ (StartSession \/ Challenge \/ CheckSecret) /\ Note(LateTaken)
    \/ AnswerChallenge /\ Note(FALSE)
    \/ TypePin /\ Note(WrongPin)
    \/ (SendFails \/ ReceiveNothing \/ Exit \/ ServerRestart) /\ Note(TRUE)

\* The server takes the request the client waits for ...
Served == << launch, at >> \in requests \ requests'

\* ... and the user answers for it.  What else the server and the user do, and
\* all that goes wrong, may never happen.
UserFairness ==
    /\ WF_vars(Send) /\ WF_vars(Receive)
    /\ WF_vars(StartSession /\ Served) /\ WF_vars(Challenge /\ Served)
    /\ WF_vars(CheckSecret /\ Served) /\ WF_vars(AnswerChallenge /\ Served)
    /\ WF_vars(TypePin /\ session.salt = launch /\ session'.pin = launch)

UserSpec == UserInit /\ [][UserNext]_userVars /\ UserFairness

\* "PAIRING - enter this PIN" (main.c:172): who enters it gets a paired client
\* (gamestream.c:589-591), however many launches have died before in the middle
\* of theirs.
PairingSucceeds ==
    at = "getservercert" /\ KeyMatches ~> at = "ready" \/ disturbed

\* The safety that rests on: until something goes wrong a client with a whole
\* identity never waits for what is not coming (gamestream.c:412-592).  Its
\* request is on its way, or the user has yet to type the PIN, or the answer
\* is on its way and says paired = 1.
NobodyWaitsInVain ==
    at \in Phases /\ KeyMatches /\ ~disturbed /\ waiting =>
        \/ << launch, at >> \in requests
        \/ /\ at = "getservercert"
           /\ session.stage = "pin" /\ session.salt = launch
        \/ replies = { << launch, at, TRUE >> }

\* ... and gs_pair returns -1 only after something has gone wrong.
NeverRefused ==
    [][(at \in Phases /\ KeyMatches /\ at' = "off") => disturbed']_userVars

==============================================================================
