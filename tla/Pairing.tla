------------------------------- MODULE Pairing -------------------------------
(***************************************************************************)
(* gs_load_server_info and gs_pair (gamestream.c:339-592), over several     *)
(* launches of the client, any of which may end or crash while a request is *)
(* on its way: the server may then act on it during a later launch.         *)
(*                                                                          *)
(* A request is one of HttpRequest.tla: it fails without reaching the       *)
(* server, or returns what came back, which may be nothing.  Salts, PINs,   *)
(* challenges and secrets of a launch are stood for by its number: a        *)
(* message decrypts and verifies where the numbers agree.                   *)
(*                                                                          *)
(* External: the GameStream server, its memory of a pairing in progress,    *)
(* and the user who types a PIN into it.                                    *)
(***************************************************************************)
EXTENDS Naturals

CONSTANTS
    MaxLaunches,    \* bound: launches
    KeyMatches      \* the client's key is the key of its certificate

ASSUME PairingAssumption ==
    /\ MaxLaunches \in Nat
    /\ KeyMatches \in BOOLEAN

VARIABLES
    at,         \* the next request of the client, or where it has got
    launch,     \* the number of this launch
    waiting,    \* the client waits for a reply
    paired,     \* server->paired
    recognised, \* ghost: the server's HTTPS answer said "paired" and was read
    knew,       \* ghost: the server knew the client when this launch began
    requests,   \* requests on their way: << launch, what >>
    replies,    \* replies on their way: << launch, what, the paired element >>
    session,    \* the server's pairing in progress
    known       \* the launch whose pairing the server accepted last, or 0

vars == << at, launch, waiting, paired, recognised, knew,
           requests, replies, session, known >>
net == << requests, replies >>
remote == << session, known >>

Phases == { "getservercert", "clientchallenge", "serverchallengeresp",
            "clientpairingsecret", "pairchallenge" }
Queries == { "serverinfo", "serverinfoTls" }
Requests == Queries \union Phases

Launches == 1 .. MaxLaunches
NoSession == [ stage |-> "none", salt |-> 0, pin |-> 0, hash |-> 0 ]

Init ==
    /\ at = "off" /\ launch = 0 /\ waiting = FALSE
    /\ paired = FALSE /\ recognised = FALSE /\ knew = FALSE
    /\ requests = {} /\ replies = {}
    /\ session = NoSession /\ known = 0

(***************************************************************************)
(* The client.                                                              *)
(***************************************************************************)

\* Mutant: the response to the server's challenge is forgotten.
After_NoResponse(phase) ==
    CASE phase = "getservercert"       -> "clientchallenge"
      [] phase = "clientchallenge"     -> "clientpairingsecret"
      [] phase = "clientpairingsecret" -> "pairchallenge"
      [] phase = "pairchallenge"       -> "ready"

\* What follows a phase the server has answered with paired = 1.
After(phase) ==
    CASE phase = "getservercert"       -> "clientchallenge"
      [] phase = "clientchallenge"     -> "serverchallengeresp"
      [] phase = "serverchallengeresp" -> "clientpairingsecret"
      [] phase = "clientpairingsecret" -> "pairchallenge"
      [] phase = "pairchallenge"       -> "ready"

\* A launch picks a new PIN and salt and starts with the server's state.
Launch ==
    /\ at = "off" /\ launch < MaxLaunches
    /\ launch' = launch + 1
    /\ at' = "serverinfo"
    /\ paired' = FALSE /\ recognised' = FALSE
    /\ knew' = (known # 0)
    /\ UNCHANGED << waiting, net, remote >>

\* A request is sent.
Send ==
    /\ at \in Requests /\ ~waiting
    /\ waiting' = TRUE
    /\ requests' = requests \union { << launch, at >> }
    /\ UNCHANGED << at, launch, paired, recognised, knew, replies, remote >>

\* A request cannot be sent: gs_load_server_info and gs_pair return -1, except
\* for the HTTPS query, whose failure means "not paired".
SendFails ==
    /\ at \in Requests /\ ~waiting
    /\ at' = IF at = "serverinfoTls" THEN "getservercert" ELSE "off"
    /\ UNCHANGED << launch, waiting, paired, recognised, knew, net, remote >>

\* Mutant: an answer without paired = 1 does not stop the pairing.
GoOn_Always(what, yes) == After(what)

\* A phase goes on only on paired = 1; anything else, an empty answer
\* included, returns -1.
GoOn(what, yes) == IF yes THEN After(what) ELSE "off"

\* Mutant: only the answer over plain HTTP is looked at.
QueryDone_Http(what, yes) == what = "serverinfo" /\ yes

\* Only the HTTPS answer says whether the client is paired.
QueryDone(what, yes) == what = "serverinfoTls" /\ yes

\* What the client makes of an answer with paired (PairStatus) = 1, or without.
Take(yes) ==
    /\ waiting' = FALSE
    /\ \/ /\ at = "serverinfo"
          /\ at' = IF QueryDone(at, yes) THEN "ready" ELSE "serverinfoTls"
          /\ paired' = QueryDone(at, yes)
       \/ /\ at = "serverinfoTls"
          /\ at' = IF QueryDone(at, yes) THEN "ready" ELSE "getservercert"
          /\ paired' = QueryDone(at, yes)
       \/ /\ at \in Phases
          /\ at' = GoOn(at, yes)
          /\ paired' = (at' = "ready")
    /\ UNCHANGED << launch, knew, remote >>

\* The reply arrives ...
Receive ==
    /\ waiting
    /\ \E yes \in BOOLEAN :
         /\ << launch, at, yes >> \in replies
         /\ replies' = replies \ { << launch, at, yes >> }
         /\ recognised' = (recognised \/ (at = "serverinfoTls" /\ yes))
         /\ Take(yes)
    /\ UNCHANGED requests

\* ... or the connection ends before it does, which reads as an empty answer;
\* a late reply finds no reader.
ReceiveNothing ==
    /\ waiting
    /\ Take(FALSE)
    /\ replies' = {}
    /\ UNCHANGED << requests, recognised >>

\* The client ends or crashes, at any place.
Exit ==
    /\ at # "off"
    /\ at' = "off" /\ waiting' = FALSE
    /\ paired' = FALSE /\ recognised' = FALSE
    /\ replies' = {}
    /\ UNCHANGED << launch, knew, requests, remote >>

(***************************************************************************)
(* The server and the user.                                                 *)
(***************************************************************************)

\* A reply to a client that is no longer there is discarded.
ReplyTo(who, what, yes) ==
    replies' = IF waiting /\ launch = who /\ at = what
               THEN replies \union { << who, what, yes >> } ELSE replies

Taken(who, what) ==
    /\ << who, what >> \in requests
    /\ requests' = requests \ { << who, what >> }

Client == << at, launch, waiting, paired, recognised, knew >>

\* A query: over HTTP the server never says paired, over HTTPS it recognises
\* a certificate it has paired with.
AnswerQuery ==
    /\ \E who \in Launches, what \in Queries :
         /\ Taken(who, what)
         /\ ReplyTo(who, what, what = "serverinfoTls" /\ known # 0 /\ KeyMatches)
    /\ UNCHANGED << Client, remote >>

\* getservercert starts a pairing afresh.  The answer waits for the user.
StartSession ==
    /\ \E who \in Launches :
         /\ Taken(who, "getservercert")
         /\ session' = [ stage |-> "pin", salt |-> who, pin |-> 0, hash |-> 0 ]
    /\ UNCHANGED << Client, replies, known >>

\* The user types a PIN some launch has shown, or declines.
TypePin ==
    /\ session.stage = "pin"
    /\ \/ /\ \E pin \in 1 .. launch :
               session' = [ session EXCEPT !.stage = "challenge", !.pin = pin ]
          /\ ReplyTo(session.salt, "getservercert", TRUE)
       \/ /\ session' = NoSession
          /\ ReplyTo(session.salt, "getservercert", FALSE)
    /\ UNCHANGED << Client, requests, known >>

\* clientchallenge and serverchallengeresp move the pairing on; the hash of
\* the latter is kept for the last step.  Out of order they end it.
Challenge ==
    /\ \E who \in Launches :
         \/ /\ Taken(who, "clientchallenge")
            /\ LET ok == session.stage = "challenge" IN
                 /\ session' = IF ok THEN [ session EXCEPT !.stage = "response" ]
                                     ELSE NoSession
                 /\ ReplyTo(who, "clientchallenge", ok)
         \/ /\ Taken(who, "serverchallengeresp")
            /\ LET ok == session.stage = "response" IN
                 /\ session' = IF ok THEN [ session EXCEPT !.stage = "secret",
                                                           !.hash = who ]
                                     ELSE NoSession
                 /\ ReplyTo(who, "serverchallengeresp", ok)
    /\ UNCHANGED << Client, known >>

\* clientpairingsecret: the secret must match the hash, both made under the
\* key of the session's salt and PIN, and be signed with the certificate's key.
CheckSecret ==
    /\ \E who \in Launches :
         /\ Taken(who, "clientpairingsecret")
         /\ LET ok == /\ session.stage = "secret"
                      /\ session.hash = who /\ session.salt = who
                      /\ session.pin = who
                      /\ KeyMatches
            IN  /\ known' = IF ok THEN who ELSE known
                /\ ReplyTo(who, "clientpairingsecret", ok)
    /\ session' = NoSession
    /\ UNCHANGED Client

\* pairchallenge, over HTTPS.
AnswerChallenge ==
    /\ \E who \in Launches :
         /\ Taken(who, "pairchallenge")
         /\ ReplyTo(who, "pairchallenge", known # 0 /\ KeyMatches)
    /\ UNCHANGED << Client, remote >>

\* A restarted server has forgotten the pairing in progress, and what was on
\* its way to it.
ServerRestart ==
    /\ session # NoSession
    /\ session' = NoSession
    /\ requests' = {}
    /\ UNCHANGED << Client, replies, known >>

\* After the last launch nothing is left to do.
Over ==
    /\ at = "off" /\ launch = MaxLaunches
    /\ UNCHANGED vars

Next == \/ Launch \/ Send \/ SendFails \/ Receive \/ ReceiveNothing \/ Exit
        \/ AnswerQuery \/ StartSession \/ TypePin \/ Challenge
        \/ CheckSecret \/ AnswerChallenge \/ ServerRestart \/ Over

Spec == Init /\ [][Next]_vars

(***************************************************************************)
(* Properties.                                                              *)
(***************************************************************************)

Stages == { "none", "pin", "challenge", "response", "secret" }

TypeOK ==
    /\ at \in Requests \union { "off", "ready" }
    /\ launch \in 0 .. MaxLaunches
    /\ waiting \in BOOLEAN /\ paired \in BOOLEAN
    /\ recognised \in BOOLEAN /\ knew \in BOOLEAN
    /\ requests \subseteq Launches \X Requests
    /\ replies \subseteq Launches \X Requests \X BOOLEAN
    /\ session \in [ stage : Stages, salt : 0 .. MaxLaunches,
                     pin : 0 .. MaxLaunches, hash : 0 .. MaxLaunches ]
    /\ known \in 0 .. MaxLaunches

\* main goes on to launch an app only with a client the server knows
\* (main.c:165-205), whatever was lost, late or left over from a launch before.
ReadyIsKnown == at = "ready" => paired /\ known # 0

\* The last phase is reached only when the server has accepted this launch's
\* own secret, hence when the user typed the PIN this launch has shown
\* (gamestream.c:555-572): an acceptance left over from a launch before, or a
\* lost answer, does not count.
PairedByOwnPin == at = "pairchallenge" => known = launch

\* A client that the server has recognised over HTTPS does not pair again
\* (gamestream.c:362-369, main.c:165).
NoNeedlessPairing == at \in Phases => ~recognised

\* "Populate server with current state (version, paired status)"
\* (gamestream.h:30): gs_load_server_info does not leave "not paired" for a
\* client that the server has known since before the launch.
PairedStatusIsCurrent == at = "getservercert" => ~knew

==============================================================================
