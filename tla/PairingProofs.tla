---------------------------- MODULE PairingProofs ----------------------------
(***************************************************************************)
(* What pairing promises, for any number of launches whose requests may     *)
(* arrive during one another.                                               *)
(*                                                                          *)
(* The argument: the server can only accept the secret of an earlier launch *)
(* while it still holds that launch's session, because the messages that    *)
(* made the session were taken before the secret was sent.  Once it has     *)
(* accepted the secret of this launch that session is gone.                 *)
(*                                                                          *)
(* And what it promises the user (PairingUser.tla): while nothing has gone  *)
(* wrong, client and server go through the phases in step (InStep), so that *)
(* no answer is a refusal and nobody waits for a message that is not coming.*)
(***************************************************************************)
EXTENDS PairingUser, TLAPS

\* The messages whose place matters.
Late == { "serverchallengeresp", "clientpairingsecret" }

\* Where the client may be once it has sent them.
From(phase) ==
    IF phase = "serverchallengeresp"
    THEN { "serverchallengeresp", "clientpairingsecret", "pairchallenge",
           "ready", "off" }
    ELSE { "clientpairingsecret", "pairchallenge", "ready", "off" }

\* Messages and replies belong to launches that have begun.
FromLaunches ==
    /\ at # "off" => launch > 0
    /\ known <= launch
    /\ \A who \in Launches, what \in Requests :
         << who, what >> \in requests => who <= launch
    /\ \A who \in Launches, what \in Requests, yes \in BOOLEAN :
         << who, what, yes >> \in replies => who <= launch

\* A late message is on its way only while the client waits for its answer, or
\* after it has given up.
LateInOrder ==
    \A phase \in Late :
        << launch, phase >> \in requests => at = "off" \/ (at = phase /\ waiting)

\* An answered message has been taken.
AnsweredIsTaken ==
    \A phase \in Late, yes \in BOOLEAN :
        << launch, phase, yes >> \in replies =>
            /\ << launch, phase >> \notin requests
            /\ at \in From(phase)
            /\ at = phase => waiting

\* No launch has both late messages on their way.
OneLate ==
    \A who \in Launches :
        << who, "serverchallengeresp" >> \in requests =>
            << who, "clientpairingsecret" >> \notin requests

\* The server is about to accept this launch's secret.
Acceptable(who) ==
    /\ << who, "clientpairingsecret" >> \in requests
    /\ session.stage = "secret" /\ session.hash = who /\ session.salt = who

\* What the server accepted last it does not replace by an older pairing.
NewestAccepted ==
    launch > 0 /\ known = launch =>
        \A who \in Launches : who # launch => ~Acceptable(who)

\* What an answer that says paired = 1 means.
AnswersMean ==
    /\ \A who \in Launches, what \in { "serverinfoTls", "pairchallenge" } :
         << who, what, TRUE >> \in replies => known # 0
    /\ << launch, "clientpairingsecret", TRUE >> \in replies => known = launch

\* A client that was recognised is ready.
RecognisedReady == recognised => at = "ready"

\* The inductive invariant of pairing.
IInv ==
    /\ TypeOK
    /\ FromLaunches
    /\ LateInOrder
    /\ AnsweredIsTaken
    /\ OneLate
    /\ NewestAccepted
    /\ AnswersMean
    /\ RecognisedReady
    /\ ReadyIsKnown
    /\ PairedByOwnPin

------------------------------------------------------------------------------

\* The parts of the invariant that speak of messages.
Messages ==
    FromLaunches /\ LateInOrder /\ AnsweredIsTaken /\ OneLate /\ NewestAccepted
    /\ AnswersMean

\* Before the first launch.
LEMMA InitIInv == Init => IInv
  <1> SUFFICES ASSUME Init PROVE IInv
    OBVIOUS
  <1> USE PairingAssumption DEF Init
  <1>1. TypeOK
    <2>1. /\ waiting \in BOOLEAN /\ paired \in BOOLEAN
          /\ recognised \in BOOLEAN /\ knew \in BOOLEAN
      BY Zenon
    <2> QED
      BY <2>1 DEF TypeOK, NoSession, Stages
  <1>2. FromLaunches /\ LateInOrder /\ AnsweredIsTaken /\ OneLate
        /\ NewestAccepted /\ AnswersMean
    BY DEF FromLaunches, LateInOrder, AnsweredIsTaken, OneLate,
           NewestAccepted, AnswersMean
  <1> QED
    BY <1>1, <1>2 DEF IInv, RecognisedReady, ReadyIsKnown, PairedByOwnPin

\* A reply keeps the type of the replies.
LEMMA ReplyType ==
  ASSUME TypeOK, NEW who \in Launches, NEW what \in Requests,
         NEW yes \in BOOLEAN, ReplyTo(who, what, yes)
  PROVE  replies' \subseteq Launches \X Requests \X BOOLEAN
  <1>1. << who, what, yes >> \in Launches \X Requests \X BOOLEAN
    OBVIOUS
  <1> QED
    BY <1>1 DEF ReplyTo, TypeOK

\* Every step keeps the types.
LEMMA TypeStep == ASSUME TypeOK, FromLaunches, [Next]_vars PROVE TypeOK'
  <1> USE PairingAssumption DEF Stages, NoSession, net, remote
  <1>n. NoSession \in [ stage : Stages, salt : 0 .. MaxLaunches,
                        pin : 0 .. MaxLaunches, hash : 0 .. MaxLaunches ]
    OBVIOUS
  <1>c. UNCHANGED Client =>
          /\ at' \in Requests \union { "off", "ready" }
          /\ launch' \in 0 .. MaxLaunches
          /\ waiting' \in BOOLEAN /\ paired' \in BOOLEAN
          /\ recognised' \in BOOLEAN /\ knew' \in BOOLEAN
    BY Zenon DEF Client, TypeOK
  <1>r. Queries \subseteq Requests /\ Phases \subseteq Requests
    BY DEF Requests
  <1>1. CASE Launch
    <2>1. /\ waiting' \in BOOLEAN /\ paired' \in BOOLEAN
          /\ recognised' \in BOOLEAN /\ knew' \in BOOLEAN
      BY <1>1, Zenon DEF Launch, TypeOK
    <2> QED
      BY <1>1, <2>1 DEF Launch, TypeOK, Requests, Queries
  <1>2. CASE Send
    <2>1. /\ waiting' \in BOOLEAN /\ paired' \in BOOLEAN
          /\ recognised' \in BOOLEAN /\ knew' \in BOOLEAN
      BY <1>2, Zenon DEF Send, TypeOK
    <2>2. launch \in Launches /\ at \in Requests
      BY <1>2 DEF Send, TypeOK, Launches, FromLaunches, Requests, Queries,
                  Phases
    <2> QED
      BY <1>2, <2>1, <2>2 DEF Send, TypeOK
  <1>3. CASE SendFails
    BY <1>3 DEF SendFails, TypeOK, Requests, Phases
  <1>4. CASE Receive
    BY <1>4 DEF Receive, Take, GoOn, After, QueryDone, TypeOK, Requests,
                Queries, Phases
  <1>5. CASE ReceiveNothing
    BY <1>5 DEF ReceiveNothing, Take, GoOn, After, QueryDone, TypeOK, Requests,
                Queries, Phases
  <1>6. CASE Exit
    <2>1. /\ waiting' \in BOOLEAN /\ paired' \in BOOLEAN
          /\ recognised' \in BOOLEAN /\ knew' \in BOOLEAN
      BY <1>6, Zenon DEF Exit, TypeOK
    <2> QED
      BY <1>6, <2>1 DEF Exit, TypeOK
  <1>7. CASE AnswerQuery
    <2>1. PICK who \in Launches, what \in Queries :
             /\ Taken(who, what)
             /\ ReplyTo(who, what,
                        what = "serverinfoTls" /\ known # 0 /\ KeyMatches)
      BY <1>7 DEF AnswerQuery
    <2>2. (what = "serverinfoTls" /\ known # 0 /\ KeyMatches) \in BOOLEAN
      BY Zenon
    <2>3. replies' \subseteq Launches \X Requests \X BOOLEAN
      BY <1>r, <2>1, <2>2, ReplyType
    <2>4. requests' \subseteq Launches \X Requests
      BY <2>1 DEF Taken, TypeOK
    <2> QED
      BY <1>c, <1>7, <2>3, <2>4 DEF AnswerQuery, TypeOK
  <1>8. CASE StartSession
    <2>1. requests' \subseteq Launches \X Requests
      BY <1>8 DEF StartSession, Taken, TypeOK
    <2>2. session' \in [ stage : Stages, salt : 0 .. MaxLaunches,
                         pin : 0 .. MaxLaunches, hash : 0 .. MaxLaunches ]
      BY <1>8 DEF StartSession, Launches
    <2> QED
      BY <1>c, <1>8, <2>1, <2>2 DEF StartSession, TypeOK
  <1>9. CASE TypePin
    <2>1. replies' \subseteq Launches \X Requests \X BOOLEAN
      <3>1. PICK yes \in BOOLEAN : ReplyTo(session.salt, "getservercert", yes)
        BY <1>9 DEF TypePin
      <3>2. CASE session.salt \in Launches
        BY <1>r, <3>1, <3>2, ReplyType DEF Phases
      <3>3. CASE session.salt \notin Launches
        <4>1. session.salt = 0
          BY <3>3 DEF TypeOK, Launches
        <4> QED
          BY <3>1, <4>1 DEF ReplyTo, TypeOK, FromLaunches
      <3> QED
        BY <3>2, <3>3
    <2>2. session' \in [ stage : Stages, salt : 0 .. MaxLaunches,
                         pin : 0 .. MaxLaunches, hash : 0 .. MaxLaunches ]
      <3>1. CASE session' = NoSession
        BY <1>n, <3>1
      <3>2. ASSUME NEW pin \in 1 .. launch,
                   session' = [ session EXCEPT !.stage = "challenge",
                                               !.pin = pin ]
            PROVE  session' \in [ stage : Stages, salt : 0 .. MaxLaunches,
                            pin : 0 .. MaxLaunches, hash : 0 .. MaxLaunches ]
        <4>1. pin \in 0 .. MaxLaunches
          BY DEF TypeOK
        <4> QED
          BY <3>2, <4>1 DEF TypeOK
      <3> QED
        BY <1>9, <3>1, <3>2 DEF TypePin
    <2> QED
      BY <1>c, <1>9, <2>1, <2>2 DEF TypePin, TypeOK
  <1>10. CASE Challenge
    <2>1. PICK who \in Launches, what \in Phases, yes \in BOOLEAN :
             Taken(who, what) /\ ReplyTo(who, what, yes)
      <3>1. \A who \in Launches : (session.stage = "challenge") \in BOOLEAN
                                  /\ (session.stage = "response") \in BOOLEAN
        BY Zenon
      <3> QED
        BY <1>10, <3>1 DEF Challenge, Phases
    <2>2. replies' \subseteq Launches \X Requests \X BOOLEAN
      BY <1>r, <2>1, ReplyType
    <2>3. requests' \subseteq Launches \X Requests
      BY <2>1 DEF Taken, TypeOK
    <2>4. session' \in [ stage : Stages, salt : 0 .. MaxLaunches,
                         pin : 0 .. MaxLaunches, hash : 0 .. MaxLaunches ]
      <3>1. CASE session' = NoSession
        BY <1>n, <3>1
      <3>2. CASE session' = [ session EXCEPT !.stage = "response" ]
        BY <3>2 DEF TypeOK
      <3>3. ASSUME NEW sender \in Launches,
                   session' = [ session EXCEPT !.stage = "secret",
                                               !.hash = sender ]
            PROVE  session' \in [ stage : Stages, salt : 0 .. MaxLaunches,
                            pin : 0 .. MaxLaunches, hash : 0 .. MaxLaunches ]
        <4>1. sender \in 0 .. MaxLaunches
          BY DEF Launches
        <4> QED
          BY <3>3, <4>1 DEF TypeOK
      <3> QED
        BY <1>10, <3>1, <3>2, <3>3 DEF Challenge
    <2> QED
      BY <1>c, <1>10, <2>2, <2>3, <2>4 DEF Challenge, TypeOK
  <1>11. CASE CheckSecret
    <2>1. PICK who \in Launches, yes \in BOOLEAN :
             /\ Taken(who, "clientpairingsecret")
             /\ known' = IF yes THEN who ELSE known
             /\ ReplyTo(who, "clientpairingsecret", yes)
      <3>1. \A who \in Launches :
              (/\ session.stage = "secret"
               /\ session.hash = who /\ session.salt = who
               /\ session.pin = who
               /\ KeyMatches) \in BOOLEAN
        BY Zenon
      <3> QED
        BY <1>11, <3>1 DEF CheckSecret
    <2>2. replies' \subseteq Launches \X Requests \X BOOLEAN
      BY <1>r, <2>1, ReplyType DEF Phases
    <2>3. requests' \subseteq Launches \X Requests /\ known' \in 0 .. MaxLaunches
      BY <2>1 DEF Taken, TypeOK, Launches
    <2> QED
      BY <1>c, <1>n, <1>11, <2>2, <2>3 DEF CheckSecret, TypeOK
  <1>12. CASE AnswerChallenge
    <2>1. PICK who \in Launches :
             /\ Taken(who, "pairchallenge")
             /\ ReplyTo(who, "pairchallenge", known # 0 /\ KeyMatches)
      BY <1>12 DEF AnswerChallenge
    <2>2. (known # 0 /\ KeyMatches) \in BOOLEAN
      BY Zenon
    <2>3. replies' \subseteq Launches \X Requests \X BOOLEAN
      BY <1>r, <2>1, <2>2, ReplyType DEF Phases
    <2>4. requests' \subseteq Launches \X Requests
      BY <2>1 DEF Taken, TypeOK
    <2> QED
      BY <1>c, <1>12, <2>3, <2>4 DEF AnswerChallenge, TypeOK
  <1>13. CASE ServerRestart
    BY <1>c, <1>n, <1>13 DEF ServerRestart, TypeOK
  <1>14. CASE Over \/ UNCHANGED vars
    <2>1. UNCHANGED vars
      BY <1>14 DEF Over
    <2> QED
      BY <2>1, Zenon DEF vars, TypeOK
  <1> QED
    BY <1>1, <1>2, <1>3, <1>4, <1>5, <1>6, <1>7, <1>8, <1>9, <1>10, <1>11,
       <1>12, <1>13, <1>14 DEF Next

\* Where the client may be when it is not off, and what launch it is then.
LEMMA Begun == ASSUME IInv, at # "off" PROVE launch \in Launches
  BY PairingAssumption DEF IInv, TypeOK, FromLaunches, Launches

\* The client's own steps that neither send nor read.
LEMMA QuietStep ==
  ASSUME IInv, SendFails \/ Exit
  PROVE  Messages' /\ RecognisedReady' /\ ReadyIsKnown' /\ PairedByOwnPin'
  <1> USE DEF IInv, net, remote
  <1>1. /\ UNCHANGED << launch, requests, session, known >>
        /\ replies' \subseteq replies
        /\ at' \in { "off", "getservercert" } /\ at # "off"
        /\ at' = "getservercert" => at = "serverinfoTls"
        /\ recognised' => at' # "off" /\ recognised
    BY DEF SendFails, Exit, RecognisedReady, Requests, Queries, Phases
  <1>2. FromLaunches'
    BY <1>1 DEF FromLaunches
  <1>3. LateInOrder'
    BY <1>1 DEF LateInOrder, Late
  <1>4. AnsweredIsTaken'
    BY <1>1 DEF AnsweredIsTaken, Late, From
  <1>5. OneLate' /\ NewestAccepted' /\ AnswersMean'
    BY <1>1 DEF OneLate, NewestAccepted, Acceptable, AnswersMean
  <1>6. RecognisedReady' /\ ReadyIsKnown' /\ PairedByOwnPin'
    BY <1>1 DEF RecognisedReady, ReadyIsKnown, PairedByOwnPin
  <1> QED
    BY <1>2, <1>3, <1>4, <1>5, <1>6 DEF Messages

\* A new launch.
LEMMA LaunchStep ==
  ASSUME IInv, Launch
  PROVE  Messages' /\ RecognisedReady' /\ ReadyIsKnown' /\ PairedByOwnPin'
  <1> USE PairingAssumption DEF IInv, net, remote
  <1>1. /\ UNCHANGED << requests, replies, session, known >>
        /\ launch' = launch + 1 /\ at' = "serverinfo" /\ recognised' = FALSE
    BY DEF Launch
  <1>2. /\ launch \in Nat /\ launch + 1 \in Launches
        /\ known \in Nat /\ known <= launch
    BY DEF Launch, TypeOK, Launches, FromLaunches
  <1>3. /\ \A what \in Requests : << launch + 1, what >> \notin requests
        /\ \A what \in Requests, yes \in BOOLEAN :
             << launch + 1, what, yes >> \notin replies
    BY <1>2 DEF FromLaunches
  <1>4. Late \subseteq Requests /\ "clientpairingsecret" \in Requests
        /\ TRUE \in BOOLEAN
    BY DEF Late, Requests, Phases
  <1>5. FromLaunches'
    <2>1. \A who \in Launches : who <= launch => who <= launch + 1
      BY <1>2 DEF Launches
    <2> QED
      BY <1>1, <1>2, <2>1 DEF FromLaunches
  <1>6. LateInOrder' /\ AnsweredIsTaken'
    BY <1>1, <1>3, <1>4 DEF LateInOrder, AnsweredIsTaken
  <1>7. OneLate'
    BY <1>1 DEF OneLate
  <1>8. NewestAccepted'
    <2>1. known' # launch'
      BY <1>1, <1>2
    <2> QED
      BY <2>1 DEF NewestAccepted
  <1>9. AnswersMean'
    BY <1>1, <1>3, <1>4 DEF AnswersMean
  <1>10. RecognisedReady' /\ ReadyIsKnown' /\ PairedByOwnPin'
    BY <1>1 DEF RecognisedReady, ReadyIsKnown, PairedByOwnPin
  <1> QED
    BY <1>5, <1>6, <1>7, <1>8, <1>9, <1>10 DEF Messages

\* A request is sent.
LEMMA SendStep ==
  ASSUME IInv, Send
  PROVE  Messages' /\ RecognisedReady' /\ ReadyIsKnown' /\ PairedByOwnPin'
  <1> USE DEF IInv, remote
  <1>1. /\ at \in Requests /\ ~waiting /\ waiting' = TRUE
        /\ requests' = requests \union { << launch, at >> }
        /\ UNCHANGED << at, launch, paired, recognised, replies, session,
                        known >>
    BY DEF Send
  <1>2. at # "off" /\ at # "ready"
    BY <1>1 DEF Requests, Queries, Phases
  <1>3. launch \in Launches
    BY <1>2, Begun
  <1>4. FromLaunches'
    <2>1. launch <= launch
      BY <1>3 DEF Launches
    <2> QED
      BY <1>1, <2>1 DEF FromLaunches
  <1>5. LateInOrder'
    BY <1>1 DEF LateInOrder, Late
  <1>6. AnsweredIsTaken'
    BY <1>1 DEF AnsweredIsTaken, Late, From
  <1>7. OneLate'
    <2>1. at = "clientpairingsecret" =>
              << launch, "serverchallengeresp" >> \notin requests
      BY <1>1 DEF LateInOrder, Late
    <2>2. at = "serverchallengeresp" =>
              << launch, "clientpairingsecret" >> \notin requests
      BY <1>1 DEF LateInOrder, Late
    <2> QED
      BY <1>1, <2>1, <2>2 DEF OneLate
  <1>8. NewestAccepted'
    BY <1>1 DEF NewestAccepted, Acceptable
  <1>9. AnswersMean'
    BY <1>1 DEF AnswersMean
  <1>10. RecognisedReady' /\ ReadyIsKnown' /\ PairedByOwnPin'
    BY <1>1 DEF RecognisedReady, ReadyIsKnown, PairedByOwnPin
  <1> QED
    BY <1>4, <1>5, <1>6, <1>7, <1>8, <1>9, <1>10 DEF Messages

\* An answer is read, or nothing is.
LEMMA ReadStep ==
  ASSUME IInv, Receive \/ ReceiveNothing
  PROVE  Messages' /\ RecognisedReady' /\ ReadyIsKnown' /\ PairedByOwnPin'
  <1> USE DEF IInv, remote
  <1>1. PICK yes \in BOOLEAN :
          /\ waiting /\ Take(yes)
          /\ yes => << launch, at, TRUE >> \in replies
          /\ recognised' => recognised \/ (at = "serverinfoTls" /\ yes)
    <2>1. CASE Receive
      <3>1. PICK yes \in BOOLEAN :
              /\ << launch, at, yes >> \in replies
              /\ recognised' = (recognised \/ (at = "serverinfoTls" /\ yes))
              /\ Take(yes)
        BY <2>1 DEF Receive
      <3>2. waiting /\ (recognised' => recognised \/ (at = "serverinfoTls" /\ yes))
        BY <2>1, <3>1, Zenon DEF Receive
      <3>3. yes => yes = TRUE
        BY Zenon
      <3> QED
        BY <3>1, <3>2, <3>3
    <2>2. CASE ReceiveNothing
      BY <2>2 DEF ReceiveNothing
    <2> QED
      BY <2>1, <2>2
  <1>2. /\ replies' \subseteq replies /\ UNCHANGED requests
        /\ UNCHANGED << launch, session, known >> /\ waiting' = FALSE
    BY <1>1 DEF Receive, ReceiveNothing, Take
  <1>3. /\ at = "serverinfo" => at' = "serverinfoTls"
        /\ at = "serverinfoTls" =>
             at' = IF yes THEN "ready" ELSE "getservercert"
        /\ at \in Phases => at' = IF yes THEN After(at) ELSE "off"
        /\ at \in { "serverinfo", "serverinfoTls" } \union Phases
        /\ at' = "ready" => paired'
    BY <1>1 DEF Take, QueryDone, GoOn, Phases
  <1>4. at' = "ready" => known # 0
    <2>1. at' = "ready" => at \in { "serverinfoTls", "pairchallenge" } /\ yes
      BY <1>3 DEF After, Phases
    <2> QED
      BY <1>1, <2>1, Begun DEF AnswersMean
  <1>5. at' = "pairchallenge" => known = launch
    <2>1. at' = "pairchallenge" => at = "clientpairingsecret" /\ yes
      BY <1>3 DEF After, Phases
    <2> QED
      BY <1>1, <2>1 DEF AnswersMean
  <1>6. FromLaunches'
    BY <1>2, <1>3 DEF FromLaunches, Phases
  <1>7. LateInOrder'
    <2> SUFFICES ASSUME NEW phase \in Late, << launch, phase >> \in requests
                 PROVE  at' = "off"
      BY <1>2 DEF LateInOrder
    <2>1. at = phase
      BY <1>3 DEF LateInOrder, Phases
    <2>2. ~yes
      BY <1>1, <2>1 DEF AnsweredIsTaken
    <2> QED
      BY <1>3, <2>1, <2>2 DEF Late, Phases
  <1>8. AnsweredIsTaken'
    <2> SUFFICES ASSUME NEW phase \in Late, NEW b \in BOOLEAN,
                        << launch, phase, b >> \in replies
                 PROVE  /\ << launch, phase >> \notin requests
                        /\ at' \in From(phase)
                        /\ at' # phase
      BY <1>2 DEF AnsweredIsTaken
    <2>1. << launch, phase >> \notin requests /\ at \in From(phase)
      BY DEF AnsweredIsTaken
    <2>2. CASE phase = "serverchallengeresp"
      BY <1>3, <2>1, <2>2 DEF From, After, Phases
    <2>3. CASE phase = "clientpairingsecret"
      BY <1>3, <2>1, <2>3 DEF From, After, Phases
    <2> QED
      BY <2>1, <2>2, <2>3 DEF Late
  <1>9. OneLate' /\ NewestAccepted' /\ AnswersMean'
    BY <1>2 DEF OneLate, NewestAccepted, Acceptable, AnswersMean
  <1>10. RecognisedReady'
    BY <1>1, <1>3 DEF RecognisedReady, Phases
  <1>11. ReadyIsKnown' /\ PairedByOwnPin'
    BY <1>2, <1>3, <1>4, <1>5 DEF ReadyIsKnown, PairedByOwnPin
  <1> QED
    BY <1>6, <1>7, <1>8, <1>9, <1>10, <1>11 DEF Messages

\* What the server does leaves the client where it is.
LEMMA ClientWaits ==
  ASSUME IInv, UNCHANGED Client,
         known' = known
  PROVE  RecognisedReady' /\ ReadyIsKnown' /\ PairedByOwnPin'
  <1>1. UNCHANGED << at, launch, waiting, paired, recognised >>
    BY DEF Client
  <1>2. at = "pairchallenge" => known = launch
    BY DEF IInv, PairedByOwnPin
  <1> QED
    BY <1>1, <1>2 DEF IInv, RecognisedReady, ReadyIsKnown, PairedByOwnPin

\* A message is taken and answered: the order of the late ones is kept.
LEMMA AnswerInOrder ==
  ASSUME IInv, UNCHANGED Client,
         NEW who \in Launches, NEW what \in Requests, NEW yes \in BOOLEAN,
         Taken(who, what), ReplyTo(who, what, yes)
  PROVE  /\ \A w \in Launches, x \in Requests, b \in BOOLEAN :
              << w, x, b >> \in replies' =>
                \/ << w, x, b >> \in replies
                \/ w = who /\ x = what /\ b = yes /\ launch = who
         /\ known' <= launch => FromLaunches'
         /\ LateInOrder' /\ AnsweredIsTaken' /\ OneLate'
  <1> USE DEF IInv
  <1>1. UNCHANGED << at, launch, waiting >>
    BY DEF Client
  <1>2. requests' = requests \ { << who, what >> } /\ << who, what >> \in requests
    BY DEF Taken
  <1>3. \A m : m \in replies' =>
           m \in replies \/ (/\ m = << who, what, yes >>
                             /\ waiting /\ launch = who /\ at = what)
    BY DEF ReplyTo
  <1>4. known' <= launch => FromLaunches'
    <2>1. who <= launch
      BY <1>2 DEF FromLaunches
    <2> QED
      BY <1>1, <1>2, <1>3, <2>1 DEF FromLaunches
  <1>5. LateInOrder'
    BY <1>1, <1>2 DEF LateInOrder
  <1>6. AnsweredIsTaken'
    <2> SUFFICES ASSUME NEW phase \in Late, NEW b \in BOOLEAN,
                        << launch, phase, b >> \in replies'
                 PROVE  /\ << launch, phase >> \notin requests'
                        /\ at \in From(phase)
                        /\ at = phase => waiting
      BY <1>1 DEF AnsweredIsTaken
    <2>1. CASE << launch, phase, b >> \in replies
      BY <1>2, <2>1 DEF AnsweredIsTaken
    <2>2. CASE << launch, phase, b >> \notin replies
      <3>1. launch = who /\ phase = what /\ waiting /\ at = what
        BY <1>3, <2>2
      <3> QED
        BY <1>2, <3>1 DEF From, Late
    <2> QED
      BY <2>1, <2>2
  <1>7. OneLate'
    BY <1>2 DEF OneLate
  <1>8. \A w \in Launches, x \in Requests, b \in BOOLEAN :
           << w, x, b >> \in replies' =>
             \/ << w, x, b >> \in replies
             \/ w = who /\ x = what /\ b = yes /\ launch = who
    <2> SUFFICES ASSUME NEW w \in Launches, NEW x \in Requests,
                        NEW b \in BOOLEAN, << w, x, b >> \in replies',
                        << w, x, b >> \notin replies
                 PROVE  w = who /\ x = what /\ b = yes /\ launch = who
      OBVIOUS
    <2>1. << w, x, b >> = << who, what, yes >> /\ launch = who
      BY <1>3
    <2> QED
      BY <2>1
  <1> QED
    BY <1>4, <1>5, <1>6, <1>7, <1>8

\* ... and what answers mean, when the server accepts nothing new.
LEMMA AnswerStep ==
  ASSUME IInv, UNCHANGED Client, known' = known,
         NEW who \in Launches, NEW what \in Requests, NEW yes \in BOOLEAN,
         Taken(who, what), ReplyTo(who, what, yes),
         yes => /\ what \in { "serverinfoTls", "pairchallenge" } => known # 0
                /\ what = "clientpairingsecret" => known = who,
         \A l \in Launches : Acceptable(l)' => Acceptable(l)
  PROVE  Messages'
  <1>1. UNCHANGED << at, launch, waiting, known >>
    BY DEF Client
  <1>2. known' <= launch
    BY <1>1 DEF IInv, FromLaunches
  <1>3. NewestAccepted'
    BY <1>1 DEF IInv, NewestAccepted
  <1>4. TRUE \in BOOLEAN /\ "clientpairingsecret" \in Requests
        /\ { "serverinfoTls", "pairchallenge" } \subseteq Requests
    BY DEF Requests, Queries, Phases
  <1>5. \A w \in Launches, x \in Requests :
           << w, x, TRUE >> \in replies' =>
             \/ << w, x, TRUE >> \in replies
             \/ w = who /\ x = what /\ yes /\ launch = who
    BY <1>4, AnswerInOrder, Zenon
  <1>6. ASSUME NEW w \in Launches,
               NEW x \in { "serverinfoTls", "pairchallenge" },
               << w, x, TRUE >> \in replies'
        PROVE  known # 0
    BY <1>4, <1>5, <1>6 DEF IInv, AnswersMean
  <1>7. ASSUME << launch, "clientpairingsecret", TRUE >> \in replies'
        PROVE  known = launch
    <2>1. CASE launch \in Launches
      BY <1>4, <1>5, <1>7, <2>1 DEF IInv, AnswersMean
    <2>2. CASE launch \notin Launches
      <3>1. replies' \subseteq Launches \X Requests \X BOOLEAN
        BY ReplyType DEF IInv
      <3> QED
        BY <1>7, <2>2, <3>1
    <2> QED
      BY <2>1, <2>2
  <1>8. AnswersMean'
    BY <1>1, <1>6, <1>7 DEF AnswersMean
  <1> QED
    BY <1>2, <1>3, <1>8, AnswerInOrder DEF Messages

\* A query or the last challenge is answered.
LEMMA QueryStep == ASSUME IInv, AnswerQuery \/ AnswerChallenge PROVE Messages'
  <1>1. /\ UNCHANGED Client /\ known' = known /\ session' = session
        /\ requests' \subseteq requests
    BY DEF AnswerQuery, AnswerChallenge, remote, Taken
  <1>2. \A l \in Launches : Acceptable(l)' => Acceptable(l)
    BY <1>1 DEF Acceptable
  <1>3. CASE AnswerQuery
    <2>1. PICK who \in Launches, what \in Queries :
             /\ Taken(who, what)
             /\ ReplyTo(who, what,
                        what = "serverinfoTls" /\ known # 0 /\ KeyMatches)
      BY <1>3 DEF AnswerQuery
    <2> DEFINE yes == what = "serverinfoTls" /\ known # 0 /\ KeyMatches
    <2>2. yes \in BOOLEAN /\ (yes => known # 0)
      BY Zenon
    <2>3. what \in Requests /\ what # "clientpairingsecret"
      BY DEF Requests, Queries
    <2>4. ReplyTo(who, what, yes)
      BY <2>1
    <2> HIDE DEF yes
    <2> QED
      BY <1>1, <1>2, <2>1, <2>2, <2>3, <2>4, AnswerStep
  <1>4. CASE AnswerChallenge
    <2>1. PICK who \in Launches :
             /\ Taken(who, "pairchallenge")
             /\ ReplyTo(who, "pairchallenge", known # 0 /\ KeyMatches)
      BY <1>4 DEF AnswerChallenge
    <2> DEFINE yes == known # 0 /\ KeyMatches
    <2>2. yes \in BOOLEAN /\ (yes => known # 0)
      BY Zenon
    <2>3. "pairchallenge" \in Requests
      BY DEF Requests, Phases
    <2>4. ReplyTo(who, "pairchallenge", yes)
      BY <2>1
    <2> HIDE DEF yes
    <2> QED
      BY <1>1, <1>2, <2>1, <2>2, <2>3, <2>4, AnswerStep
  <1> QED
    BY <1>3, <1>4

\* clientchallenge or serverchallengeresp is answered: a session becomes
\* acceptable only to a launch whose secret is not on its way yet.
LEMMA ChallengeStep == ASSUME IInv, Challenge PROVE Messages'
  <1>1. UNCHANGED Client /\ known' = known
    BY DEF Challenge
  <1>2. "clientchallenge" \in Requests /\ "serverchallengeresp" \in Requests
    BY DEF Requests, Phases
  <1>3. PICK who \in Launches :
          \/ /\ Taken(who, "clientchallenge")
             /\ LET ok == session.stage = "challenge" IN
                  /\ session' = IF ok THEN [ session EXCEPT !.stage = "response" ]
                                      ELSE NoSession
                  /\ ReplyTo(who, "clientchallenge", ok)
          \/ /\ Taken(who, "serverchallengeresp")
             /\ LET ok == session.stage = "response" IN
                  /\ session' = IF ok THEN [ session EXCEPT !.stage = "secret",
                                                            !.hash = who ]
                                      ELSE NoSession
                  /\ ReplyTo(who, "serverchallengeresp", ok)
    BY DEF Challenge
  <1>4. CASE Taken(who, "clientchallenge")
             /\ ReplyTo(who, "clientchallenge", session.stage = "challenge")
             /\ session' \in { [ session EXCEPT !.stage = "response" ], NoSession }
    <2>1. (session.stage = "challenge") \in BOOLEAN
      BY Zenon
    <2>2. session'.stage # "secret"
      BY <1>4 DEF NoSession, IInv, TypeOK
    <2>3. \A l \in Launches : Acceptable(l)' => Acceptable(l)
      BY <2>2 DEF Acceptable
    <2> DEFINE yes == session.stage = "challenge"
    <2>4. yes \in BOOLEAN /\ ReplyTo(who, "clientchallenge", yes)
      BY <1>4, <2>1
    <2> HIDE DEF yes
    <2> QED
      BY <1>1, <1>2, <1>4, <2>3, <2>4, AnswerStep
  <1>5. CASE Taken(who, "serverchallengeresp")
             /\ ReplyTo(who, "serverchallengeresp", session.stage = "response")
             /\ session' \in { [ session EXCEPT !.stage = "secret",
                                                !.hash = who ], NoSession }
    <2>1. (session.stage = "response") \in BOOLEAN
      BY Zenon
    <2>2. << who, "clientpairingsecret" >> \notin requests
      BY <1>5 DEF Taken, IInv, OneLate
    <2>3. session'.stage = "secret" => session'.hash = who
      <3>1. CASE session' = NoSession
        BY <3>1 DEF NoSession
      <3>2. CASE session' = [ session EXCEPT !.stage = "secret", !.hash = who ]
        <4>1. session \in [ stage : Stages, salt : 0 .. MaxLaunches,
                            pin : 0 .. MaxLaunches, hash : 0 .. MaxLaunches ]
          BY DEF IInv, TypeOK
        <4> QED
          BY <3>2, <4>1
      <3> QED
        BY <1>5, <3>1, <3>2
    <2>4. requests' \subseteq requests
      BY <1>5 DEF Taken
    <2>5. \A l \in Launches : Acceptable(l)' => Acceptable(l)
      BY <2>2, <2>3, <2>4 DEF Acceptable
    <2> DEFINE yes == session.stage = "response"
    <2>6. yes \in BOOLEAN /\ ReplyTo(who, "serverchallengeresp", yes)
      BY <1>5, <2>1
    <2> HIDE DEF yes
    <2> QED
      BY <1>1, <1>2, <1>5, <2>5, <2>6, AnswerStep
  <1> QED
    BY <1>3, <1>4, <1>5

\* The secret is checked: accepted only from the launch whose session it is.
LEMMA SecretStep ==
  ASSUME IInv, CheckSecret
  PROVE  Messages' /\ RecognisedReady' /\ ReadyIsKnown' /\ PairedByOwnPin'
  <1> USE PairingAssumption
  <1>1. UNCHANGED Client /\ session' = NoSession
    BY DEF CheckSecret
  <1>2. PICK who \in Launches :
          /\ Taken(who, "clientpairingsecret")
          /\ LET ok == /\ session.stage = "secret"
                       /\ session.hash = who /\ session.salt = who
                       /\ session.pin = who
                       /\ KeyMatches
             IN  /\ known' = IF ok THEN who ELSE known
                 /\ ReplyTo(who, "clientpairingsecret", ok)
    BY DEF CheckSecret
  <1> DEFINE yes == /\ session.stage = "secret"
                    /\ session.hash = who /\ session.salt = who
                    /\ session.pin = who
                    /\ KeyMatches
  <1>3. yes \in BOOLEAN /\ ReplyTo(who, "clientpairingsecret", yes)
        /\ known' = (IF yes THEN who ELSE known)
        /\ (yes => session.stage = "secret" /\ session.hash = who
                   /\ session.salt = who)
    BY <1>2, Zenon
  <1> HIDE DEF yes
  <1>4. "clientpairingsecret" \in Requests
    BY DEF Requests, Phases
  <1>5. << who, "clientpairingsecret" >> \in requests /\ who <= launch
    BY <1>2, <1>4 DEF Taken, IInv, FromLaunches
  <1>6. \A l \in Launches : ~Acceptable(l)'
    BY <1>1 DEF Acceptable, NoSession
  <1>7. CASE known' = known
    <2>1. RecognisedReady' /\ ReadyIsKnown' /\ PairedByOwnPin'
      BY <1>1, <1>7, ClientWaits
    <2>2. CASE yes => known = who
      BY <1>1, <1>2, <1>3, <1>4, <1>6, <1>7, <2>1, <2>2, AnswerStep
    <2>3. CASE yes /\ known # who
      BY <1>3, <1>7, <2>3
    <2> QED
      BY <2>1, <2>2, <2>3
  <1>8. CASE known' # known
    <2>1. yes /\ known' = who
      BY <1>3, <1>8
    <2>2. Acceptable(who)
      BY <1>3, <1>5, <2>1 DEF Acceptable
    <2>3. known = launch => who = launch
      BY <2>2, <1>5, <1>8, <2>1
         DEF IInv, NewestAccepted, TypeOK, Launches, FromLaunches
    <2>4. known # launch
      BY <1>8, <2>1, <2>3
    <2>5. UNCHANGED << at, launch, waiting, paired, recognised >>
      BY <1>1 DEF Client
    <2>6. known' <= launch /\ known' # 0
      BY <1>5, <2>1 DEF Launches
    <2>7. NewestAccepted'
      BY <1>6 DEF NewestAccepted
    <2>8. << launch, "clientpairingsecret", TRUE >> \in replies' =>
             known' = launch
      <3>1. << launch, "clientpairingsecret", TRUE >> \notin replies
        BY <2>4 DEF IInv, AnswersMean
      <3>2. launch \in Launches
        BY <1>5 DEF Launches, IInv, TypeOK
      <3> QED
        BY <1>1, <1>2, <1>3, <1>4, <2>1, <3>1, <3>2, AnswerInOrder
    <2>9. AnswersMean'
      BY <2>5, <2>6, <2>8 DEF AnswersMean
    <2>10. RecognisedReady' /\ ReadyIsKnown'
      BY <2>5, <2>6 DEF IInv, RecognisedReady, ReadyIsKnown
    <2>11. PairedByOwnPin'
      BY <2>4, <2>5 DEF IInv, PairedByOwnPin
    <2> QED
      BY <1>1, <1>2, <1>3, <1>4, <2>6, <2>7, <2>9, <2>10, <2>11, AnswerInOrder
         DEF Messages
  <1> QED
    BY <1>7, <1>8

\* The user and the server's sessions: what the server could accept it still
\* can, or can no longer.
LEMMA SessionStep ==
  ASSUME IInv, StartSession \/ TypePin \/ ServerRestart
  PROVE  Messages'
  <1> USE DEF IInv, NoSession
  <1>1. /\ UNCHANGED << at, launch, waiting, known >>
        /\ requests' \subseteq requests
        /\ session'.stage # "secret"
    <2>1. CASE StartSession
      BY <2>1 DEF StartSession, Taken, Client
    <2>2. CASE TypePin
      <3>1. session' = NoSession => session'.stage # "secret"
        OBVIOUS
      <3>2. ASSUME NEW pin \in 1 .. launch,
                   session' = [ session EXCEPT !.stage = "challenge",
                                               !.pin = pin ]
            PROVE  session'.stage # "secret"
        BY <3>2 DEF TypeOK
      <3>3. UNCHANGED Client /\ UNCHANGED << requests, known >>
        BY <2>2 DEF TypePin
      <3>4. session'.stage # "secret"
        BY <2>2, <3>1, <3>2, Zenon DEF TypePin
      <3> QED
        BY <3>3, <3>4 DEF Client
    <2>3. CASE ServerRestart
      BY <2>3 DEF ServerRestart, Client
    <2> QED
      BY <2>1, <2>2, <2>3
  <1>2. \A m : m \in replies' =>
          \/ m \in replies
          \/ \E b \in BOOLEAN :
               m = << session.salt, "getservercert", b >>
               /\ launch = session.salt
    BY DEF StartSession, TypePin, ServerRestart, ReplyTo
  <1>3. FromLaunches'
    <2>1. \A w \in Launches, x \in Requests, b \in BOOLEAN :
             << w, x, b >> \in replies' => w <= launch
      BY <1>2 DEF FromLaunches, TypeOK, Launches
    <2> QED
      BY <1>1, <2>1 DEF FromLaunches
  <1>4. LateInOrder'
    BY <1>1 DEF LateInOrder
  <1>5. AnsweredIsTaken'
    BY <1>1, <1>2 DEF AnsweredIsTaken, Late
  <1>6. OneLate' /\ NewestAccepted'
    BY <1>1 DEF OneLate, NewestAccepted, Acceptable
  <1>7. AnswersMean'
    <2>1. \A w, x : x # "getservercert" /\ << w, x, TRUE >> \in replies' =>
                      << w, x, TRUE >> \in replies
      BY <1>2
    <2> QED
      BY <1>1, <2>1 DEF AnswersMean
  <1> QED
    BY <1>3, <1>4, <1>5, <1>6, <1>7 DEF Messages

\* Every step keeps the invariant.
LEMMA IInvStep == ASSUME IInv, [Next]_vars PROVE IInv'
  <1>1. TypeOK'
    BY TypeStep DEF IInv
  <1>2. Messages' /\ RecognisedReady' /\ ReadyIsKnown' /\ PairedByOwnPin'
    <2>1. CASE Launch
      BY <2>1, LaunchStep
    <2>2. CASE Send
      BY <2>2, SendStep
    <2>3. CASE SendFails \/ Exit
      BY <2>3, QuietStep
    <2>4. CASE Receive \/ ReceiveNothing
      BY <2>4, ReadStep
    <2>5. CASE CheckSecret
      BY <2>5, SecretStep
    <2>6. CASE AnswerQuery \/ AnswerChallenge \/ Challenge \/ StartSession
               \/ TypePin \/ ServerRestart
      <3>1. Messages'
        BY <2>6, QueryStep, ChallengeStep, SessionStep
      <3>2. UNCHANGED Client /\ known' = known
        BY <2>6 DEF AnswerQuery, AnswerChallenge, Challenge, StartSession,
                    TypePin, ServerRestart, remote
      <3> QED
        BY <3>1, <3>2, ClientWaits
    <2>7. CASE Over \/ UNCHANGED vars
      <3>1. UNCHANGED vars
        BY <2>7 DEF Over
      <3> QED
        BY <3>1
           DEF vars, IInv, Messages, FromLaunches, LateInOrder,
               AnsweredIsTaken, OneLate, NewestAccepted, Acceptable,
               AnswersMean, RecognisedReady, ReadyIsKnown, PairedByOwnPin
    <2> QED
      BY <2>1, <2>2, <2>3, <2>4, <2>5, <2>6, <2>7 DEF Next
  <1> QED
    BY <1>1, <1>2 DEF IInv, Messages

\* The invariant holds of any number of launches.
THEOREM Inductive == Spec => []IInv
  <1>1. IInv /\ [Next]_vars => IInv'
    BY IInvStep
  <1> QED
    BY <1>1, InitIInv, PTL DEF Spec

\* A client that calls itself paired is one the server knows
\* (main.c:165-205), for any number of launches.
THEOREM OnlyKnownIsReady == Spec => []ReadyIsKnown
  <1>1. IInv => ReadyIsKnown
    BY DEF IInv
  <1> QED
    BY <1>1, Inductive, PTL

\* The last phase follows the server's acceptance of this launch's own secret
\* (gamestream.c:555-572), which nothing left over from another replaces.
THEOREM LastPhaseIsOwn == Spec => []PairedByOwnPin
  <1>1. IInv => PairedByOwnPin
    BY DEF IInv
  <1> QED
    BY <1>1, Inductive, PTL

\* A client the server has recognised does not pair again
\* (gamestream.c:362-369).
THEOREM RecognisedDoesNotPair == Spec => []NoNeedlessPairing
  <1>1. IInv => NoNeedlessPairing
    BY DEF IInv, RecognisedReady, NoNeedlessPairing, Phases
  <1> QED
    BY <1>1, Inductive, PTL

------------------------------------------------------------------------------

\* The client reads one answer at a time, to a request the server has taken.
OneReply ==
    /\ waiting => at \in Requests
    /\ replies # {} =>
         /\ waiting /\ << launch, at >> \notin requests
         /\ \E yes \in BOOLEAN : replies = { << launch, at, yes >> }

\* Of this launch's phases the server takes them in order: none is on its way
\* but the one the client waits for.
PhasesInOrder ==
    /\ at \in Phases =>
         \A phase \in Phases :
             << launch, phase >> \in requests => phase = at /\ waiting
    /\ at \in Queries =>
         \A phase \in Phases : << launch, phase >> \notin requests

\* A session is of a launch that has sent its getservercert.
SessionBegun ==
    /\ session.salt <= launch
    /\ at \in Queries => session.salt # launch
    /\ at = "getservercert" /\ session.salt = launch =>
         /\ waiting /\ << launch, at >> \notin requests
         /\ session.stage = "pin" => replies = {}

\* The session as a phase of this launch finds it.
Finds(phase) ==
    /\ phase \in { "clientchallenge", "serverchallengeresp",
                   "clientpairingsecret" } =>
         session.salt = launch /\ session.pin = launch
    /\ phase = "clientchallenge" => session.stage = "challenge"
    /\ phase = "serverchallengeresp" => session.stage = "response"
    /\ phase = "clientpairingsecret" =>
         session.stage = "secret" /\ session.hash = launch

\* Where client and server are with each other while nothing has gone wrong.
InStep ==
    at \in Phases /\ KeyMatches /\ ~disturbed =>
        \/ ~waiting /\ Finds(at)
        \/ waiting /\ << launch, at >> \in requests /\ Finds(at)
        \/ /\ waiting /\ at = "getservercert"
           /\ session.stage = "pin" /\ session.salt = launch
        \/ /\ waiting /\ replies = { << launch, at, TRUE >> }
           /\ Finds(After(at))

\* The server knows no client whose key is not that of its certificate.
KnownMatches == known # 0 => KeyMatches

\* How requests, replies and the session lie, disturbed or not.
Orderly == OneReply /\ PhasesInOrder /\ SessionBegun

\* The inductive invariant of pairing with disturbed.
UserIInv ==
    /\ IInv
    /\ disturbed \in BOOLEAN
    /\ Orderly
    /\ InStep
    /\ KnownMatches

------------------------------------------------------------------------------

\* A step here is one of Pairing.
LEMMA StepOfPairing == [UserNext]_userVars => [Next]_vars
  BY DEF UserNext, userVars, Next

\* Before the first launch.
LEMMA UserInitIInv == UserInit => UserIInv
  <1> SUFFICES ASSUME UserInit PROVE UserIInv
    OBVIOUS
  <1>1. IInv
    BY InitIInv DEF UserInit
  <1>2. disturbed \in BOOLEAN
    BY Zenon DEF UserInit
  <1>3. Orderly
    BY DEF UserInit, Init, Orderly, OneReply, PhasesInOrder, SessionBegun,
           NoSession, Phases, Queries, Requests
  <1>4. InStep /\ KnownMatches
    BY DEF UserInit, Init, InStep, KnownMatches, Phases
  <1> QED
    BY <1>1, <1>2, <1>3, <1>4 DEF UserIInv

\* A client whose key is not that of its certificate stays unknown.
LEMMA KnownStep == ASSUME IInv, KnownMatches, [Next]_vars PROVE KnownMatches'
  <1>1. known' = known \/ KeyMatches
    BY DEF Next, Launch, Send, SendFails, Receive, ReceiveNothing, Take, Exit,
           AnswerQuery, StartSession, TypePin, Challenge, CheckSecret,
           AnswerChallenge, ServerRestart, Over, remote, vars
  <1> QED
    BY <1>1 DEF KnownMatches

\* A launch begins, gives up a request or ends.
LEMMA QuietOrder ==
  ASSUME UserIInv, Launch \/ SendFails \/ Exit
  PROVE  Orderly' /\ InStep'
  <1> USE PairingAssumption DEF UserIInv, Orderly, net, remote
  <1>1. CASE Launch
    <2>1. /\ at = "off" /\ at' = "serverinfo" /\ launch' = launch + 1
          /\ UNCHANGED << waiting, requests, replies, session >>
      BY <1>1 DEF Launch
    <2>2. /\ launch \in Nat /\ launch + 1 \in Launches
          /\ session.salt \in Nat /\ session.salt <= launch
      BY <1>1 DEF Launch, IInv, TypeOK, Launches, SessionBegun
    <2>3. ~waiting /\ replies = {}
      BY <2>1 DEF OneReply, Requests, Queries, Phases
    <2>4. \A phase \in Phases : << launch + 1, phase >> \notin requests
      BY <2>2 DEF IInv, FromLaunches, Requests
    <2> QED
      BY <2>1, <2>2, <2>3, <2>4
         DEF OneReply, PhasesInOrder, SessionBegun, InStep, Phases, Queries
  <1>2. CASE SendFails
    <2>1. /\ at \in Requests /\ ~waiting /\ replies = {}
          /\ \/ at = "serverinfoTls" /\ at' = "getservercert"
             \/ at' = "off"
          /\ UNCHANGED << launch, waiting, requests, replies, session >>
      BY <1>2 DEF SendFails, OneReply
    <2> QED
      BY <2>1
         DEF OneReply, PhasesInOrder, SessionBegun, InStep, Finds, Phases,
             Queries
  <1>3. CASE Exit
    BY <1>3
       DEF Exit, OneReply, PhasesInOrder, SessionBegun, InStep, Phases, Queries
  <1> QED
    BY <1>1, <1>2, <1>3

\* A request is sent.
LEMMA SendOrder ==
  ASSUME UserIInv, Send, disturbed' = (at \in Phases /\ disturbed)
  PROVE  Orderly' /\ InStep'
  <1> USE DEF UserIInv, Orderly, remote
  <1>1. /\ at \in Requests /\ ~waiting /\ waiting' = TRUE /\ replies = {}
        /\ requests' = requests \union { << launch, at >> }
        /\ UNCHANGED << at, launch, replies, session >>
    BY DEF Send, OneReply
  <1>2. OneReply' /\ PhasesInOrder'
    BY <1>1 DEF OneReply, PhasesInOrder, Phases, Queries
  <1>3. SessionBegun'
    BY <1>1 DEF SessionBegun
  <1>4. InStep'
    BY <1>1 DEF InStep, Finds
  <1> QED
    BY <1>2, <1>3, <1>4

\* What the client reads while nothing has gone wrong says paired = 1.
LEMMA ReadsYes ==
  ASSUME UserIInv, at \in Phases, KeyMatches, ~disturbed,
         NEW yes \in BOOLEAN, waiting, << launch, at, yes >> \in replies
  PROVE  yes /\ Finds(After(at))
  <1>1. << launch, at >> \notin requests
    BY DEF UserIInv, Orderly, OneReply
  <1>2. ~(at = "getservercert" /\ session.stage = "pin"
          /\ session.salt = launch)
    BY DEF UserIInv, Orderly, SessionBegun
  <1>3. replies = { << launch, at, TRUE >> } /\ Finds(After(at))
    BY <1>1, <1>2, Zenon DEF UserIInv, InStep
  <1> QED
    BY <1>3

\* An answer is read, or the connection ends before it.
LEMMA ReadOrder ==
  ASSUME UserIInv,
         \/ Receive /\ disturbed' = (at \in Phases /\ disturbed)
         \/ ReceiveNothing /\ disturbed' = (at \in Phases)
  PROVE  Orderly' /\ InStep'
  <1> USE DEF UserIInv, Orderly, remote
  <1>1. /\ waiting /\ waiting' = FALSE /\ replies' = {} /\ at \in Requests
        /\ UNCHANGED << launch, requests, session >>
    BY DEF Receive, ReceiveNothing, Take, OneReply
  <1>2. at \in Queries => at' \in { "serverinfoTls", "getservercert", "ready" }
    BY DEF Receive, ReceiveNothing, Take, QueryDone, Queries, Phases
  <1>3. ASSUME at \in Phases
        PROVE  /\ at' = "off" \/ at' = After(at)
               /\ at' = "off" \/ << launch, at >> \notin requests
               /\ at' # "off" /\ KeyMatches /\ ~disturbed' => Finds(After(at))
    <2>1. CASE Receive
      <3>1. PICK yes \in BOOLEAN :
               << launch, at, yes >> \in replies /\ Take(yes)
        BY <2>1 DEF Receive
      <3>2. at' = "off" \/ at' = After(at)
        BY <1>3, <3>1 DEF Take, GoOn, Phases
      <3>3. << launch, at >> \notin requests
        BY <3>1 DEF OneReply
      <3>4. KeyMatches /\ ~disturbed' => Finds(After(at))
        BY <1>1, <1>3, <2>1, <3>1, ReadsYes DEF Receive, ReceiveNothing
      <3> QED
        BY <3>2, <3>3, <3>4
    <2>2. CASE ReceiveNothing
      BY <1>3, <2>2 DEF ReceiveNothing, Take, GoOn, Phases
    <2> QED
      BY <2>1, <2>2
  <1>4. OneReply'
    BY <1>1 DEF OneReply
  <1>5. at \in Phases => at' \in { "off", "ready" } \union
                                 (Phases \ { "getservercert" })
    BY <1>3 DEF After, Phases
  <1>6. PhasesInOrder'
    <2>1. CASE at \in Queries
      BY <1>1, <1>2, <2>1 DEF PhasesInOrder, Phases, Queries
    <2>2. CASE at \in Phases
      BY <1>1, <1>3, <1>5, <2>2 DEF PhasesInOrder, Phases, Queries
    <2> QED
      BY <1>1, <2>1, <2>2 DEF Requests
  <1>7. SessionBegun'
    BY <1>1, <1>2, <1>5 DEF SessionBegun, Requests, Phases, Queries
  <1>8. InStep'
    <2>1. CASE at \in Queries
      BY <1>1, <1>2, <2>1 DEF InStep, Finds, Phases, Queries
    <2>2. CASE at \in Phases
      BY <1>1, <1>3, <1>5, <2>2 DEF InStep, Finds, Phases
    <2> QED
      BY <1>1, <2>1, <2>2 DEF Requests
  <1> QED
    BY <1>4, <1>6, <1>7, <1>8

\* The server answers a message: the answer to the one the client waits for is
\* the only one it will read, and the others change nothing for it.
LEMMA AnswerOrder ==
  ASSUME UserIInv, UNCHANGED Client,
         NEW who \in Launches, NEW what \in Requests, NEW yes \in BOOLEAN,
         Taken(who, what), ReplyTo(who, what, yes)
  PROVE  /\ OneReply' /\ PhasesInOrder'
         /\ \/ /\ who = launch /\ what = at /\ waiting
               /\ replies = {} /\ replies' = { << launch, at, yes >> }
            \/ /\ ~(who = launch /\ what = at /\ waiting)
               /\ replies' = replies
               /\ at \in Phases => who # launch \/ what \notin Phases
         /\ \A w, x : << w, x >> \in requests' <=>
                        << w, x >> \in requests /\ ~(w = who /\ x = what)
  <1> USE DEF UserIInv, Orderly
  <1>1. /\ << who, what >> \in requests
        /\ \A w, x : << w, x >> \in requests' <=>
                       << w, x >> \in requests /\ ~(w = who /\ x = what)
    BY DEF Taken
  <1>2. UNCHANGED << at, launch, waiting >>
    BY DEF Client
  <1>3. CASE who = launch /\ what = at /\ waiting
    <2>1. replies = {}
      BY <1>1, <1>3 DEF OneReply
    <2>2. replies' = { << launch, at, yes >> }
      BY <1>3, <2>1 DEF ReplyTo
    <2>3. OneReply'
      BY <1>1, <1>2, <1>3, <2>2 DEF OneReply
    <2>4. PhasesInOrder'
      BY <1>1, <1>2 DEF PhasesInOrder
    <2> QED
      BY <1>1, <1>3, <2>1, <2>2, <2>3, <2>4
  <1>4. CASE ~(who = launch /\ what = at /\ waiting)
    <2>1. replies' = replies
      BY <1>4 DEF ReplyTo
    <2>2. OneReply' /\ PhasesInOrder'
      BY <1>1, <1>2, <2>1 DEF OneReply, PhasesInOrder
    <2>3. at \in Phases => who # launch \/ what \notin Phases
      BY <1>1, <1>4 DEF PhasesInOrder
    <2> QED
      BY <1>1, <1>4, <2>1, <2>2, <2>3
  <1> QED
    BY <1>3, <1>4
\* The server answers a query or the last challenge.
LEMMA QueryOrder ==
  ASSUME UserIInv, AnswerQuery \/ AnswerChallenge,
         disturbed' = (at \in Phases /\ disturbed)
  PROVE  Orderly' /\ InStep'
  <1>1. UNCHANGED << at, launch, waiting, session, known >> /\ UNCHANGED Client
    BY DEF AnswerQuery, AnswerChallenge, Client, remote
  <1>2. PICK who \in Launches, what \in Queries \union { "pairchallenge" },
             yes \in BOOLEAN :
          /\ Taken(who, what) /\ ReplyTo(who, what, yes)
          /\ what = "pairchallenge" => yes = (known # 0 /\ KeyMatches)
    <2>1. (known # 0 /\ KeyMatches) \in BOOLEAN
      BY Zenon
    <2>2. \A what : (what = "serverinfoTls" /\ known # 0 /\ KeyMatches)
                      \in BOOLEAN
      BY Zenon
    <2>3. \A what \in Queries : what # "pairchallenge"
      BY DEF Queries
    <2>4. CASE AnswerQuery
      BY <2>2, <2>3, <2>4, Zenon DEF AnswerQuery
    <2>5. CASE AnswerChallenge
      BY <2>1, <2>5, Zenon DEF AnswerChallenge
    <2> QED
      BY <2>4, <2>5
  <1>3. what \in Requests /\ what # "getservercert"
    BY DEF Requests, Queries, Phases
  <1>4. OneReply' /\ PhasesInOrder'
    BY <1>1, <1>2, <1>3, AnswerOrder
  <1>5. CASE who = launch /\ what = at /\ waiting
    <2>1. /\ replies = {} /\ replies' = { << launch, at, yes >> }
          /\ << launch, at >> \notin requests'
      BY <1>1, <1>2, <1>3, <1>5, AnswerOrder
    <2>2. SessionBegun'
      BY <1>1, <1>3, <1>5 DEF SessionBegun, UserIInv, Orderly
    <2>3. at \in Phases /\ KeyMatches => yes
      <3>1. at \in Phases => at = "pairchallenge"
        BY <1>5 DEF Phases, Queries
      <3>2. at = "pairchallenge" => known # 0
        BY DEF UserIInv, IInv, PairedByOwnPin, FromLaunches, TypeOK
      <3> QED
        BY <1>2, <1>5, <3>1, <3>2
    <2>4. at \in Phases => Finds(After(at))'
      BY <1>1, <1>5 DEF Phases, Queries, Finds, After
    <2>5. InStep'
      BY <1>1, <1>5, <2>1, <2>3, <2>4 DEF InStep, Finds, After, Phases
    <2> QED
      BY <1>4, <2>2, <2>5 DEF Orderly
  <1>6. CASE ~(who = launch /\ what = at /\ waiting)
    <2>1. /\ replies' = replies
          /\ at \in Phases => (<< launch, at >> \in requests' <=>
                                 << launch, at >> \in requests)
          /\ << launch, at >> \notin requests => << launch, at >> \notin requests'
      <3>1. /\ replies' = replies
            /\ at \in Phases => who # launch \/ what \notin Phases
        BY <1>1, <1>2, <1>3, <1>6, AnswerOrder
      <3>2. \A w, x : << w, x >> \in requests' <=>
                        << w, x >> \in requests /\ ~(w = who /\ x = what)
        BY <1>2 DEF Taken
      <3> QED
        BY <3>1, <3>2
    <2>2. SessionBegun'
      BY <1>1, <2>1 DEF SessionBegun, UserIInv, Orderly
    <2>3. InStep'
      BY <1>1, <2>1 DEF InStep, Finds, UserIInv
    <2> QED
      BY <1>4, <2>2, <2>3 DEF Orderly
  <1> QED
    BY <1>5, <1>6

\* What the server does with the session of another launch leaves this launch's
\* phases where they are.
LEMMA OthersSession ==
  ASSUME UserIInv, UNCHANGED << at, launch, waiting, replies >>,
         ~disturbed' => ~disturbed,
         at \in Phases => (<< launch, at >> \in requests' <=>
                             << launch, at >> \in requests),
         session.salt # launch
  PROVE  InStep'
  <1> SUFFICES ASSUME at \in Phases, KeyMatches, ~disturbed
               PROVE  InStep'
    BY DEF InStep
  <1>1. Finds(at) => Finds(at)'
    BY DEF Finds
  <1>2. Finds(After(at)) => Finds(After(at))'
    BY DEF Finds, After, Phases
  <1>3. \/ ~waiting /\ Finds(at)
        \/ waiting /\ << launch, at >> \in requests /\ Finds(at)
        \/ waiting /\ replies = { << launch, at, TRUE >> } /\ Finds(After(at))
    BY DEF UserIInv, InStep
  <1> QED
    BY <1>1, <1>2, <1>3 DEF InStep

\* What changes the session, the server's requests and replies aside.
LEMMA SessionOrder ==
  ASSUME UserIInv, StartSession \/ Challenge \/ CheckSecret,
         disturbed' = (at \in Phases /\ (disturbed \/ LateTaken))
  PROVE  Orderly' /\ InStep'
  <1> USE DEF UserIInv
  <1>1. UNCHANGED << at, launch, waiting >> /\ UNCHANGED Client
    BY DEF StartSession, Challenge, CheckSecret, Client
  <1>2. CASE StartSession
    <2>1. PICK who \in Launches :
            /\ Taken(who, "getservercert")
            /\ session' = [ stage |-> "pin", salt |-> who, pin |-> 0, hash |-> 0 ]
            /\ replies' = replies
      BY <1>2 DEF StartSession
    <2>2. /\ << who, "getservercert" >> \in requests
          /\ requests' = requests \ { << who, "getservercert" >> }
          /\ who <= launch
      BY <2>1 DEF Taken, IInv, FromLaunches, Requests, Phases
    <2>3. OneReply' /\ PhasesInOrder'
      BY <1>1, <2>1, <2>2 DEF Orderly, OneReply, PhasesInOrder
    <2>4. CASE who = launch /\ at \in Phases
      <3>1. at = "getservercert" /\ waiting
        BY <2>2, <2>4 DEF Orderly, PhasesInOrder, Phases
      <3>2. replies = {}
        BY <2>2, <2>4, <3>1 DEF Orderly, OneReply
      <3>3. SessionBegun'
        BY <1>1, <2>1, <2>2, <2>4, <3>1, <3>2 DEF SessionBegun, Queries
      <3>4. InStep'
        BY <1>1, <2>1, <2>4, <3>1 DEF InStep
      <3> QED
        BY <2>3, <3>3, <3>4 DEF Orderly
    <2>5. CASE ~(who = launch /\ at \in Phases)
      <3>1. at \in Queries \union Phases => who # launch
        BY <2>2, <2>5 DEF Orderly, PhasesInOrder, Phases
      <3>2. SessionBegun'
        BY <1>1, <2>1, <2>2, <3>1 DEF SessionBegun, Queries, Phases
      <3>3. ASSUME at \in Phases /\ session.salt # launch PROVE InStep'
        BY <1>1, <2>1, <2>2, <3>1, <3>3, OthersSession
      <3>4. ASSUME at \in Phases /\ session.salt = launch PROVE InStep'
        BY <2>2, <3>1, <3>4, <1>1 DEF LateTaken, InStep
      <3>5. ASSUME at \notin Phases PROVE InStep'
        BY <1>1, <3>5 DEF InStep
      <3> QED
        BY <2>3, <3>2, <3>3, <3>4, <3>5 DEF Orderly
    <2> QED
      BY <2>4, <2>5
  <1>3. CASE Challenge \/ CheckSecret
    <2> DEFINE Obliges(who, phase, yes) ==
            /\ Taken(who, phase) /\ ReplyTo(who, phase, yes)
            /\ who = launch /\ KeyMatches /\ Finds(phase) => yes
            /\ who = launch /\ yes /\ Finds(phase) => Finds(After(phase))'
            /\ session'.stage # "pin"
            /\ session'.salt \in { session.salt, 0 }
    <2>0. \E who \in Launches,
             phase \in { "clientchallenge", "serverchallengeresp",
                         "clientpairingsecret" },
             yes \in BOOLEAN : Obliges(who, phase, yes)
      <3>1. session \in [ stage : Stages, salt : 0 .. MaxLaunches,
                          pin : 0 .. MaxLaunches, hash : 0 .. MaxLaunches ]
        BY DEF IInv, TypeOK
      <3>2. \A s : (session.stage = s) \in BOOLEAN
        BY Zenon
      <3>3. ASSUME NEW who \in Launches, Taken(who, "clientchallenge"),
                   session' = IF session.stage = "challenge"
                              THEN [ session EXCEPT !.stage = "response" ]
                              ELSE NoSession,
                   ReplyTo(who, "clientchallenge", session.stage = "challenge")
            PROVE  \E yes \in BOOLEAN : Obliges(who, "clientchallenge", yes)
        <4>1. PICK yes \in BOOLEAN :
                yes = (session.stage = "challenge")
                /\ ReplyTo(who, "clientchallenge", yes)
          BY <3>2, <3>3
        <4>2. Obliges(who, "clientchallenge", yes)
          BY <1>1, <3>1, <3>3, <4>1 DEF NoSession, Finds, After
        <4> QED
          BY <4>2
      <3>4. ASSUME NEW who \in Launches, Taken(who, "serverchallengeresp"),
                   session' = IF session.stage = "response"
                              THEN [ session EXCEPT !.stage = "secret",
                                                    !.hash = who ]
                              ELSE NoSession,
                   ReplyTo(who, "serverchallengeresp",
                           session.stage = "response")
            PROVE  \E yes \in BOOLEAN : Obliges(who, "serverchallengeresp", yes)
        <4>1. PICK yes \in BOOLEAN :
                yes = (session.stage = "response")
                /\ ReplyTo(who, "serverchallengeresp", yes)
          BY <3>2, <3>4
        <4>2. Obliges(who, "serverchallengeresp", yes)
          BY <1>1, <3>1, <3>4, <4>1 DEF NoSession, Finds, After
        <4> QED
          BY <4>2
      <3>5. ASSUME NEW who \in Launches, Taken(who, "clientpairingsecret"),
                   session' = NoSession,
                   ReplyTo(who, "clientpairingsecret",
                           /\ session.stage = "secret"
                           /\ session.hash = who /\ session.salt = who
                           /\ session.pin = who
                           /\ KeyMatches)
            PROVE  \E yes \in BOOLEAN : Obliges(who, "clientpairingsecret", yes)
        <4>1. PICK yes \in BOOLEAN :
                /\ yes = (/\ session.stage = "secret"
                          /\ session.hash = who /\ session.salt = who
                          /\ session.pin = who
                          /\ KeyMatches)
                /\ ReplyTo(who, "clientpairingsecret", yes)
          BY <3>5, Zenon
        <4>2. Obliges(who, "clientpairingsecret", yes)
          BY <3>1, <3>5, <4>1 DEF NoSession, Finds, After
        <4> QED
          BY <4>2
      <3>6. CASE Challenge
        BY <3>3, <3>4, <3>6, Zenon DEF Challenge
      <3>7. CASE CheckSecret
        BY <3>5, <3>7, Zenon DEF CheckSecret
      <3> QED
        BY <1>3, <3>6, <3>7
    <2>1. PICK who \in Launches, phase \in Phases, yes \in BOOLEAN :
            /\ phase # "getservercert"
            /\ Obliges(who, phase, yes)
      BY <2>0, Zenon DEF Phases
    <2>2. phase \in Requests /\ phase # "getservercert"
      BY <2>1, Zenon DEF Requests
    <2>3. OneReply' /\ PhasesInOrder'
      BY <1>1, <2>1, <2>2, AnswerOrder
    <2>4. at \in Queries \union Phases => launch \in Nat /\ launch # 0
      BY DEF IInv, FromLaunches, TypeOK, Queries, Phases
    <2>5. 0 <= launch
      BY DEF IInv, TypeOK
    <2>6. CASE who = launch /\ phase = at /\ waiting
      <3>1. /\ replies = {} /\ replies' = { << launch, at, yes >> }
            /\ << launch, at >> \in requests
        BY <1>1, <2>1, <2>2, <2>6, AnswerOrder DEF Taken
      <3>2. SessionBegun'
        BY <1>1, <2>1, <2>2, <2>4, <2>5, <2>6
           DEF Orderly, SessionBegun, Queries, Phases
      <3>3. at \in Phases /\ KeyMatches /\ ~disturbed => Finds(at)
        BY <2>2, <2>6, <3>1 DEF InStep
      <3>4. InStep'
        BY <1>1, <2>1, <2>6, <3>1, <3>3 DEF InStep
      <3> QED
        BY <2>3, <3>2, <3>4 DEF Orderly
    <2>7. CASE ~(who = launch /\ phase = at /\ waiting)
      <3>1. /\ replies' = replies
            /\ at \in Phases => who # launch
            /\ \A w, x : << w, x >> \in requests' <=>
                           << w, x >> \in requests /\ ~(w = who /\ x = phase)
        BY <1>1, <2>1, <2>2, <2>7, AnswerOrder
      <3>2. SessionBegun'
        BY <1>1, <2>1, <2>4, <2>5, <3>1 DEF Orderly, SessionBegun, Queries, Phases
      <3>3. ASSUME at \in Phases /\ session.salt # launch PROVE InStep'
        BY <1>1, <3>1, <3>3, OthersSession
      <3>4. ASSUME at \in Phases /\ session.salt = launch PROVE InStep'
        BY <3>1, <3>4, <1>1 DEF LateTaken, InStep
      <3>5. ASSUME at \notin Phases PROVE InStep'
        BY <1>1, <3>5 DEF InStep
      <3> QED
        BY <2>3, <3>2, <3>3, <3>4, <3>5 DEF Orderly
    <2> QED
      BY <2>6, <2>7
  <1> QED
    BY <1>2, <1>3
\* The user types a PIN or declines; the server restarts.
LEMMA UserOrder ==
  ASSUME UserIInv,
         \/ TypePin /\ disturbed' = (at \in Phases /\ (disturbed \/ WrongPin))
         \/ ServerRestart /\ disturbed' = (at \in Phases)
  PROVE  Orderly' /\ InStep'
  <1> USE DEF UserIInv
  <1>1. UNCHANGED << at, launch, waiting >> /\ UNCHANGED Client
    BY DEF TypePin, ServerRestart, Client
  <1>2. at \in Queries => launch # 0
    BY DEF IInv, FromLaunches, TypeOK, Queries
  <1>3. CASE ServerRestart /\ disturbed' = (at \in Phases)
    <2>1. requests' = {} /\ replies' = replies /\ session' = NoSession
      BY <1>3 DEF ServerRestart
    <2>2. 0 <= launch /\ (at = "getservercert" => launch # 0)
      BY DEF IInv, FromLaunches, TypeOK
    <2>3. Orderly'
      BY <1>1, <1>2, <2>1, <2>2
         DEF NoSession, Orderly, OneReply, PhasesInOrder, SessionBegun
    <2>4. InStep'
      BY <1>1, <1>3 DEF InStep
    <2> QED
      BY <2>3, <2>4
  <1>4. CASE TypePin
             /\ disturbed' = (at \in Phases /\ (disturbed \/ WrongPin))
    <2>1. session \in [ stage : Stages, salt : 0 .. MaxLaunches,
                        pin : 0 .. MaxLaunches, hash : 0 .. MaxLaunches ]
      BY DEF IInv, TypeOK
    <2>2. PICK yes \in BOOLEAN :
            /\ ReplyTo(session.salt, "getservercert", yes)
            /\ session'.stage # "pin"
            /\ session'.salt \in { session.salt, 0 }
            /\ session'.pin = launch /\ launch # 0 =>
                 yes /\ session'.salt = session.salt
                     /\ session'.stage = "challenge"
      <3>1. CASE \E pin \in 1 .. launch :
                   /\ session' = [ session EXCEPT !.stage = "challenge",
                                                  !.pin = pin ]
                   /\ ReplyTo(session.salt, "getservercert", TRUE)
        BY <2>1, <3>1
      <3>2. CASE session' = NoSession
                 /\ ReplyTo(session.salt, "getservercert", FALSE)
        BY <3>2 DEF NoSession
      <3> QED
        BY <1>4, <3>1, <3>2, Zenon DEF TypePin
    <2>3. requests' = requests /\ session.stage = "pin"
      BY <1>4 DEF TypePin
    <2>4. CASE waiting /\ launch = session.salt /\ at = "getservercert"
      <3>1. replies = {} /\ << launch, at >> \notin requests
        BY <2>3, <2>4 DEF Orderly, SessionBegun
      <3>2. replies' = { << launch, at, yes >> }
        BY <2>2, <2>4, <3>1 DEF ReplyTo
      <3>3. Orderly'
        BY <1>1, <2>2, <2>3, <2>4, <3>1, <3>2
           DEF Orderly, OneReply, PhasesInOrder, SessionBegun, Phases, Queries,
               Requests, IInv, TypeOK
      <3>4. ~disturbed' => session'.pin = launch /\ launch # 0
        <4>1. at \in Phases /\ launch # 0
          BY <2>4 DEF Phases, IInv, FromLaunches, TypeOK
        <4>2. WrongPin <=> session'.pin # launch
          BY <2>4 DEF WrongPin
        <4> QED
          BY <1>4, <4>1, <4>2
      <3>5. InStep'
        BY <1>1, <2>2, <2>4, <3>2, <3>4 DEF InStep, Finds, After
      <3> QED
        BY <3>3, <3>5
    <2>5. CASE ~(waiting /\ launch = session.salt /\ at = "getservercert")
      <3>1. replies' = replies
        BY <2>2, <2>5 DEF ReplyTo
      <3>2. Orderly'
        BY <1>1, <1>2, <2>2, <2>3, <2>5, <3>1
           DEF Orderly, OneReply, PhasesInOrder, SessionBegun, IInv, TypeOK,
               FromLaunches
      <3>3. CASE session.salt # launch
        <4>1. ASSUME at \in Phases PROVE InStep'
          BY <1>1, <1>4, <2>3, <3>1, <3>3, <4>1, OthersSession
        <4>2. at \notin Phases => InStep'
          BY <1>1 DEF InStep
        <4> QED
          BY <3>2, <4>1, <4>2
      <3>4. CASE session.salt = launch
        <4>1. ASSUME at \in Phases, KeyMatches, ~disturbed
              PROVE  \/ ~waiting /\ at = "pairchallenge"
                     \/ /\ waiting /\ << launch, at >> \in requests
                        /\ at = "pairchallenge"
                     \/ /\ waiting /\ replies = { << launch, at, TRUE >> }
                        /\ at \in { "clientpairingsecret", "pairchallenge" }
          BY <2>3, <2>5, <3>4, <4>1
             DEF InStep, Orderly, SessionBegun, Finds, After, Phases
        <4>2. InStep'
          BY <1>1, <1>4, <2>3, <3>1, <4>1 DEF InStep, Finds, After
        <4> QED
          BY <3>2, <4>2
      <3> QED
        BY <3>3, <3>4
    <2> QED
      BY <2>4, <2>5
  <1> QED
    BY <1>3, <1>4

\* Every step keeps the invariant.
LEMMA UserIInvStep == ASSUME UserIInv, [UserNext]_userVars PROVE UserIInv'
  <1>1. [Next]_vars
    BY StepOfPairing
  <1>2. IInv' /\ KnownMatches'
    BY <1>1, IInvStep, KnownStep DEF UserIInv
  <1>3. CASE UserNext
    <2>1. \E bad : Note(bad)
      BY <1>3, Zenon DEF UserNext
    <2>2. disturbed' \in BOOLEAN
      BY <2>1, Zenon DEF Note
    <2>3. Orderly' /\ InStep'
      <3>1. CASE (Launch \/ AnswerQuery \/ Send \/ Receive \/ AnswerChallenge)
                 /\ Note(FALSE)
        <4>1. disturbed' = (at \in Phases /\ disturbed)
          BY <3>1 DEF Note, UserIInv
        <4> QED
          BY <3>1, <4>1, QuietOrder, QueryOrder, SendOrder, ReadOrder
      <3>2. CASE (StartSession \/ Challenge \/ CheckSecret) /\ Note(LateTaken)
        BY <3>2, SessionOrder DEF Note
      <3>3. CASE TypePin /\ Note(WrongPin)
        BY <3>3, UserOrder DEF Note
      <3>4. CASE (SendFails \/ ReceiveNothing \/ Exit \/ ServerRestart)
                 /\ Note(TRUE)
        <4>1. disturbed' = (at \in Phases)
          BY <3>4 DEF Note, UserIInv
        <4> QED
          BY <3>4, <4>1, QuietOrder, ReadOrder, UserOrder
      <3>5. CASE Over /\ Note(FALSE)
        <4>1. at \notin Phases /\ UNCHANGED vars
          BY <3>5 DEF Over, Phases
        <4> QED
          BY <4>1 DEF vars, UserIInv, Orderly, OneReply, PhasesInOrder,
                      SessionBegun, InStep
      <3> QED
        BY <1>3, <3>1, <3>2, <3>3, <3>4, <3>5 DEF UserNext
    <2> QED
      BY <1>2, <2>2, <2>3 DEF UserIInv
  <1>4. CASE UNCHANGED userVars
    <2>1. disturbed' \in BOOLEAN
      BY <1>4, Zenon DEF userVars, UserIInv
    <2>2. Orderly'
      BY <1>4 DEF userVars, vars, UserIInv, Orderly, OneReply, PhasesInOrder,
                  SessionBegun
    <2>3. InStep'
      BY <1>4 DEF userVars, vars, UserIInv, InStep, Finds
    <2> QED
      BY <1>2, <2>1, <2>2, <2>3 DEF UserIInv
  <1> QED
    BY <1>3, <1>4

\* What is proved of pairing holds with the user (main.c:164-188).
THEOREM UserPairs == UserSpec => Spec
  <1>1. UserInit => Init
    BY DEF UserInit
  <1> QED
    BY <1>1, StepOfPairing, PTL DEF UserSpec, Spec

\* The invariant of pairing with the user (gamestream.c:339-592) holds of any
\* number of launches, whatever goes wrong in them.
THEOREM UserInductive == UserSpec => []UserIInv
  <1>1. UserIInv /\ [UserNext]_userVars => UserIInv'
    BY UserIInvStep
  <1> QED
    BY <1>1, UserInitIInv, PTL DEF UserSpec

\* While nothing has gone wrong gs_pair never waits for a message that is not
\* coming (gamestream.c:412-592), whatever earlier launches have left.
THEOREM NotInVain == UserSpec => []NobodyWaitsInVain
  <1>1. UserIInv => NobodyWaitsInVain
    BY DEF UserIInv, InStep, NobodyWaitsInVain
  <1> QED
    BY <1>1, UserInductive, PTL

\* gs_pair never returns -1 (gamestream.c:412-592) while nothing has gone
\* wrong: no answer to a phase of this launch is a refusal.
THEOREM NotRefused == UserSpec => NeverRefused
  <1>1. UserIInv /\ [UserNext]_userVars =>
          [(at \in Phases /\ KeyMatches /\ at' = "off") => disturbed']_userVars
    <2> SUFFICES ASSUME UserIInv, UserNext, at \in Phases, KeyMatches,
                        at' = "off"
                 PROVE  disturbed'
      OBVIOUS
    <2>1. CASE (SendFails \/ ReceiveNothing \/ Exit \/ ServerRestart)
               /\ Note(TRUE)
      BY <2>1 DEF Note
    <2>2. CASE Receive /\ Note(FALSE)
      <3>1. PICK yes \in BOOLEAN :
              waiting /\ << launch, at, yes >> \in replies /\ Take(yes)
        BY <2>2 DEF Receive
      <3>2. ~yes
        BY <3>1 DEF Take, GoOn, After, Phases, Queries
      <3>3. disturbed
        BY <3>1, <3>2, ReadsYes DEF UserIInv
      <3> QED
        BY <2>2, <3>3 DEF Note
    <2>3. CASE Launch \/ Send \/ AnswerQuery \/ Over \/ StartSession
               \/ Challenge \/ CheckSecret \/ AnswerChallenge \/ TypePin
      BY <2>3 DEF Launch, Send, AnswerQuery, Over, StartSession, Challenge,
                  CheckSecret, AnswerChallenge, TypePin, Client, Phases
    <2> QED
      BY <2>1, <2>2, <2>3 DEF UserNext
  <1> QED
    BY <1>1, UserInductive, PTL DEF UserSpec, NeverRefused

\* A client whose key is not that of its certificate never calls itself paired
\* (gamestream.c:555-591): the server rejects its signature and does not
\* recognise it over HTTPS.
THEOREM MismatchNeverPairs == Spec => [](~KeyMatches => at # "ready")
  <1>1. Init => KnownMatches
    BY DEF Init, KnownMatches
  <1>2. IInv /\ KnownMatches /\ [Next]_vars => KnownMatches'
    BY KnownStep
  <1>3. IInv /\ KnownMatches => (~KeyMatches => at # "ready")
    BY DEF IInv, KnownMatches, ReadyIsKnown
  <1> QED
    BY <1>1, <1>2, <1>3, Inductive, PTL DEF Spec

==============================================================================
