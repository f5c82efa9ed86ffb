---------------------------- MODULE SessionProofs ----------------------------
(***************************************************************************)
(* Safety of Session, for every value of its switches.                      *)
(*                                                                          *)
(* None of the four safety invariants is inductive: PadLifetime says        *)
(* nothing of where main is when the input thread reads, LateEvents nothing *)
(* of s_running, NoOrphanApp and ReleasedAtExit nothing of the way to the   *)
(* exit.  IInv adds that.                                                   *)
(***************************************************************************)
EXTENDS Session, TLAPS

BeforeLaunched  == { "pad", "init", "query", "pair", "launch" }
BeforeStreaming == BeforeLaunched \union { "connect", "connecting", "spawn" }
WithInput       == { "loop", "sample", "stop", "stopping", "join" }
AfterJoin       == { "quit", "detach", "close", "done" }

\* Nothing is open or launched yet, and nothing runs beside main.
NothingYet ==
    /\ main = "pad" => pad = "unset"
    /\ main \in BeforeLaunched => launch = "none"
    /\ main \in BeforeStreaming => input = "none"

\* How far the connection is at each place of main.
ConnAt ==
    /\ main \in BeforeLaunched \union { "connect" } => conn = "idle"
    /\ main = "connecting" => conn = "starting"
    /\ main \in { "spawn", "loop", "sample", "stop" } => conn = "up"
    /\ main = "stopping" => conn = "stopping"
    /\ main = "join" => conn = "stopped"
    /\ main \in { "quit", "detach", "close" } => conn \in { "failed", "stopped" }

\* gs_quit_app is called once, between the join and input_cleanup.
CancelAt ==
    /\ main \in BeforeStreaming \union WithInput \union { "quit" } => cancel = "none"
    /\ main \in { "detach", "close" } => cancel # "none"

\* The input thread lives between pthread_create and pthread_join.
InputScope == InputAlive => main \in WithInput

\* The two copies of the handle agree until input_cleanup.
HandlesAgree ==
    main \in (BeforeStreaming \ { "pad" }) \union WithInput
        => (attached <=> pad = "open")

\* main stops the connection only after s_running has fallen, which happens
\* only once there is one.
StoppedAfterFlag ==
    /\ ~running => conn # "idle"
    /\ main \in { "stop", "stopping", "join" } => ~running
    /\ conn \in { "stopping", "stopped" } => ~running

\* After a late event the input thread finds s_running false.
LateIsLast ==
    late > 0 => late = 1 /\ ~running /\ input \in { "test", "ended" }

\* gs_quit_app, input_cleanup and scePadClose have done their part.
Released ==
    /\ main \in { "detach", "close" } /\ app = "running" => cancel = "failed"
    /\ NoOrphanApp
    /\ main = "close" => ~attached
    /\ main = "done" /\ conn # "idle" => pad # "open" /\ ~attached

\* The inductive invariant: who exists and who holds what at each place of the
\* main thread (main.c:137-263).
IInv ==
    /\ TypeOK
    /\ NothingYet
    /\ ConnAt
    /\ CancelAt
    /\ InputScope
    /\ HandlesAgree
    /\ StoppedAfterFlag
    /\ LateIsLast
    /\ Released
    /\ PadLifetime

------------------------------------------------------------------------------

\* The starting state of main.c's variables satisfies the invariant.
LEMMA InitIInv == Init => IInv
  <1> SUFFICES ASSUME Init PROVE IInv
    OBVIOUS
  <1> USE DEF Init
  <1>1. TypeOK
    <2>1. running \in BOOLEAN /\ attached \in BOOLEAN /\ held \in BOOLEAN
      BY Zenon
    <2> QED
      BY <2>1 DEF TypeOK, MainStates, InputStates, ConnStates, LateCap
  <1>2. NothingYet /\ ConnAt /\ CancelAt /\ InputScope /\ PadLifetime
    BY DEF NothingYet, ConnAt, CancelAt, BeforeStreaming, BeforeLaunched,
           InputScope, InputAlive, PadLifetime
  <1>3. HandlesAgree
    BY DEF HandlesAgree, BeforeStreaming, BeforeLaunched, WithInput
  <1>4. StoppedAfterFlag /\ LateIsLast /\ Released
    BY DEF StoppedAfterFlag, LateIsLast, Released, NoOrphanApp
  <1> QED
    BY <1>1, <1>2, <1>3, <1>4 DEF IInv

\* Every step of main.c's threads and of their environment preserves the types.
LEMMA TypeStep == SwitchesAssumption /\ TypeOK /\ [Next]_vars => TypeOK'
  <1> SUFFICES ASSUME SwitchesAssumption, TypeOK, [Next]_vars
               PROVE  TypeOK'
    OBVIOUS
  <1> USE DEF TypeOK, MainStates, InputStates, ConnStates, LateCap
  <1>1. CASE OpenPad
    BY <1>1 DEF OpenPad, Valid
  <1>2. CASE GsInit
    BY <1>2 DEF GsInit
  <1>3. CASE LoadServerInfo
    BY <1>3 DEF LoadServerInfo
  <1>4. CASE Pair
    BY <1>4 DEF Pair
  <1>5. CASE StartApp
    BY <1>5 DEF StartApp
  <1>6. CASE BeginConnect
    BY <1>6 DEF BeginConnect
  <1>7. CASE ConnectOk
    BY <1>7 DEF ConnectOk
  <1>8. CASE ConnectFail
    BY <1>8 DEF ConnectFail, AfterConnectFailure
  <1>9. CASE Spawn
    BY <1>9 DEF Spawn
  <1>10. CASE LoopTest
    BY <1>10 DEF LoopTest
  <1>11. CASE Sample
    BY <1>11 DEF Sample
  <1>12. CASE Stop
    BY <1>12 DEF Stop
  <1>13. CASE Stopped
    BY <1>13 DEF Stopped
  <1>14. CASE Join
    BY <1>14 DEF Join
  <1>15. CASE QuitApp
    BY <1>15 DEF QuitApp
  <1>16. CASE Detach
    <2>1. attached' \in BOOLEAN
      BY <1>16, Zenon DEF Detach
    <2> QED
      BY <1>16, <2>1 DEF Detach
  <1>17. CASE Close
    BY <1>17 DEF Close, ClosedPad
  <1>18. CASE Hang
    BY <1>18 DEF Hang
  <1>19. CASE InputTest
    BY <1>19 DEF InputTest
  <1>20. CASE InputGuard
    BY <1>20 DEF InputGuard
  <1>21. CASE InputRead
    BY <1>21 DEF InputRead
  <1>22. CASE InputSend
    BY <1>22 DEF InputSend
  <1>23. CASE Terminated
    <2>1. running' \in BOOLEAN
      BY <1>23, Zenon DEF Terminated
    <2> QED
      BY <1>23, <2>1 DEF Terminated
  <1>24. CASE Toggle
    BY <1>24 DEF Toggle
  <1>25. CASE UNCHANGED vars
    BY <1>25 DEF vars
  <1>26. CASE Ended
    BY <1>26 DEF Ended, vars
  <1> QED
    BY <1>1, <1>2, <1>3, <1>4, <1>5, <1>6, <1>7, <1>8, <1>9, <1>10, <1>11,
       <1>12, <1>13, <1>14, <1>15, <1>16, <1>17, <1>18, <1>19, <1>20, <1>21,
       <1>22, <1>23, <1>24, <1>25, <1>26 DEF Next, Main, Input

\* The rest of the invariant is inductive as well.
LEMMA IInvStep == SwitchesAssumption /\ IInv /\ [Next]_vars => IInv'
  <1> SUFFICES ASSUME SwitchesAssumption, IInv, [Next]_vars
               PROVE  IInv'
    OBVIOUS
  <1>0. TypeOK /\ TypeOK'
    BY TypeStep DEF IInv
  <1> USE DEF NothingYet, ConnAt, CancelAt, NoOrphanApp, InputScope, HandlesAgree, StoppedAfterFlag,
              LateIsLast, Released, PadLifetime, InputAlive, BeforeLaunched,
              BeforeStreaming, WithInput
  <1> DEFINE Rest == /\ NothingYet /\ ConnAt /\ CancelAt /\ InputScope /\ HandlesAgree
                     /\ StoppedAfterFlag /\ LateIsLast /\ Released
                     /\ PadLifetime
  <1>r. Rest
    BY DEF IInv
  <1> SUFFICES Rest'
    BY <1>0 DEF IInv
  <1>1. CASE OpenPad
    BY <1>1, <1>0, <1>r DEF OpenPad, Valid, TypeOK
  <1>2. CASE GsInit
    BY <1>2, <1>0, <1>r DEF GsInit, TypeOK
  <1>3. CASE LoadServerInfo
    BY <1>3, <1>0, <1>r DEF LoadServerInfo, TypeOK
  <1>4. CASE Pair
    BY <1>4, <1>0, <1>r DEF Pair, TypeOK
  <1>5. CASE StartApp
    BY <1>5, <1>0, <1>r DEF StartApp, TypeOK
  <1>6. CASE BeginConnect
    BY <1>6, <1>0, <1>r DEF BeginConnect, TypeOK
  <1>7. CASE ConnectOk
    BY <1>7, <1>0, <1>r DEF ConnectOk, TypeOK
  <1>8. CASE ConnectFail
    BY <1>8, <1>0, <1>r DEF ConnectFail, AfterConnectFailure, TypeOK
  <1>9. CASE Spawn
    BY <1>9, <1>0, <1>r DEF Spawn, TypeOK
  <1>10. CASE LoopTest
    BY <1>10, <1>0, <1>r DEF LoopTest, TypeOK
  <1>11. CASE Sample
    BY <1>11, <1>0, <1>r DEF Sample, QuitPressed, TypeOK
  <1>12. CASE Stop
    BY <1>12, <1>0, <1>r DEF Stop, TypeOK
  <1>13. CASE Stopped
    BY <1>13, <1>0, <1>r DEF Stopped, TypeOK
  <1>14. CASE Join
    BY <1>14, <1>0, <1>r DEF Join, Joinable, TypeOK
  <1>15. CASE QuitApp
    BY <1>15, <1>0, <1>r DEF QuitApp, TypeOK
  <1>16. CASE Detach
    BY <1>16, <1>0, <1>r DEF Detach, TypeOK
  <1>17. CASE Close
    BY <1>17, <1>0, <1>r DEF Close, ClosedPad, TypeOK
  <1>18. CASE Hang
    BY <1>18, <1>0, <1>r DEF Hang, TypeOK
  <1>19. CASE InputTest
    BY <1>19, <1>0, <1>r DEF InputTest, KeepPolling, TypeOK
  <1>20. CASE InputGuard
    BY <1>20, <1>0, <1>r DEF InputGuard, TypeOK
  <1>21. CASE InputRead
    BY <1>21, <1>0, <1>r DEF InputRead, TypeOK
  <1>22. CASE InputSend
    BY <1>22, <1>0, <1>r DEF InputSend, TypeOK
  <1>23. CASE Terminated
    BY <1>23, <1>0, <1>r DEF Terminated, TypeOK
  <1>24. CASE Toggle
    BY <1>24, <1>0, <1>r DEF Toggle, TypeOK
  <1>25. CASE UNCHANGED vars
    BY <1>25, <1>r DEF vars
  <1>26. CASE Ended
    BY <1>26, <1>r DEF Ended, vars
  <1> QED
    BY <1>1, <1>2, <1>3, <1>4, <1>5, <1>6, <1>7, <1>8, <1>9, <1>10, <1>11, <1>12, <1>13, <1>14, <1>15, <1>16, <1>17, <1>18, <1>19, <1>20, <1>21, <1>22, <1>23, <1>24, <1>25, <1>26 DEF Next, Main, Input

\* The invariant holds of every behaviour of main.c's threads.
THEOREM Inductive == Spec => []IInv
  <1>1. Init => IInv
    BY InitIInv
  <1>2. IInv /\ [Next]_vars => IInv'
    BY IInvStep, SwitchesAssumption
  <1> QED
    BY <1>1, <1>2, PTL DEF Spec

\* Type correctness of the session's state.
THEOREM TypeCorrect == Spec => []TypeOK
  <1>1. IInv => TypeOK
    BY DEF IInv
  <1> QED
    BY <1>1, Inductive, PTL

\* The input thread never reads a pad that main has closed (main.c:79-86, 260).
THEOREM PadStaysOpen == Spec => []PadLifetime
  <1>1. IInv => PadLifetime
    BY DEF IInv
  <1> QED
    BY <1>1, Inductive, PTL

\* LiStopConnection before pthread_join costs one late event and no more
\* (main.c:255-256).
THEOREM AtMostOneLateEvent == Spec => []LateEvents
  <1>1. IInv => LateEvents
    BY DEF IInv, LateIsLast, LateEvents, TypeOK, LateCap
  <1> QED
    BY <1>1, Inductive, PTL

\* No way to the exit forgets a launched app (main.c:205-208, 228-234, 258).
THEOREM AppIsCancelled == Spec => []NoOrphanApp
  <1>1. IInv => NoOrphanApp
    BY DEF IInv, Released, NoOrphanApp
  <1> QED
    BY <1>1, Inductive, PTL

\* Every way out of a tried connection releases pad, handle and thread
\* (main.c:228-234, 255-263).
THEOREM EverythingReleased == Spec => []ReleasedAtExit
  <1>1. IInv => ReleasedAtExit
    BY DEF IInv, Released, InputScope, WithInput, ReleasedAtExit
  <1> QED
    BY <1>1, Inductive, PTL

------------------------------------------------------------------------------
(***************************************************************************)
(* The teardown is bounded.                                                 *)
(***************************************************************************)

\* What the main thread has still to do once s_running has fallen.
MainLeft ==
    CASE main = "connecting" -> 11
      [] main = "spawn"      -> 10
      [] main = "sample"     -> 9
      [] main = "loop"       -> 8
      [] main = "stop"       -> 6
      [] main = "stopping"   -> 5
      [] main = "join"       -> 4
      [] main = "quit"       -> 3
      [] main = "detach"     -> 2
      [] main = "close"      -> 1
      [] OTHER               -> 0

\* What the input thread has still to do before it ends.
InputLeft ==
    CASE input = "guard" -> 4
      [] input = "read"  -> 3
      [] input = "send"  -> 2
      [] input = "test"  -> 1
      [] OTHER           -> 0

Left == MainLeft + InputLeft

\* Once s_running has fallen (main.c:62, 244) it stays so, and each step of
\* either thread is one of the at most 15 that are left: there is no loop in
\* the teardown (main.c:241-263), and neither thread sets the other back.
TearDownAdvances ==
    [][~running => /\ ~running'
                   /\ Left' <= Left
                   /\ Main \/ Input => Left' < Left]_vars

\* TearDownAdvances holds whatever the server, the user and pthread_create do
\* (main.c:241-263): with threads that are scheduled it is what brings the
\* connection and the input thread down.
THEOREM TearDownIsBounded == Spec => TearDownAdvances
  <1>1. ASSUME IInv, Next, ~running
        PROVE  /\ ~running'
               /\ Left' <= Left
               /\ Main \/ Input => Left' < Left
    <2> USE <1>1 DEF Left, MainLeft, InputLeft
    <2>1. CASE Main
      <3>1. InputLeft' = InputLeft \/ Spawn
        BY <2>1 DEF Main, OpenPad, GsInit, LoadServerInfo, StartApp,
                    BeginConnect, ConnectOk, ConnectFail, LoopTest, Sample,
                    Stop, Stopped, Join, QuitApp, Detach, Close
      <3>2. CASE Spawn
        BY <3>2 DEF Spawn, IInv, NothingYet, BeforeStreaming
      <3>3. CASE ~Spawn
        <4>1. main \notin BeforeLaunched \union { "connect" }
          BY DEF IInv, StoppedAfterFlag, ConnAt
        <4>2. \/ ConnectOk \/ ConnectFail \/ LoopTest \/ Sample \/ Stop
              \/ Stopped \/ Join \/ QuitApp \/ Detach \/ Close
          BY <2>1, <3>3, <4>1
             DEF Main, OpenPad, GsInit, LoadServerInfo, StartApp, BeginConnect,
                 BeforeLaunched
        <4>3. ~running'
          BY <4>2 DEF ConnectOk, ConnectFail, LoopTest, Sample, Stop, Stopped,
                      Join, QuitApp, Detach, Close
        <4>4. ASSUME ConnectOk \/ ConnectFail \/ LoopTest \/ Sample \/ Stop
              PROVE  MainLeft' < MainLeft
          BY <4>4 DEF ConnectOk, ConnectFail, AfterConnectFailure, LoopTest,
                      Sample, Stop
        <4>5. ASSUME Stopped \/ Join \/ QuitApp \/ Detach \/ Close
              PROVE  MainLeft' < MainLeft
          BY <4>5 DEF Stopped, Join, QuitApp, Detach, Close
        <4> QED
          BY <3>1, <3>3, <4>2, <4>3, <4>4, <4>5
      <3> QED
        BY <3>2, <3>3
    <2>2. CASE Input
      <3>1. MainLeft' = MainLeft
        BY <2>2 DEF Input, InputTest, InputGuard, InputRead, InputSend
      <3>2. InputLeft' < InputLeft /\ ~running'
        BY <2>2 DEF Input, InputTest, InputGuard, InputRead, InputSend,
                    KeepPolling
      <3> QED
        BY <3>1, <3>2
    <2>3. CASE (Terminated \/ Toggle \/ Ended) /\ ~Main /\ ~Input
      <3>1. UNCHANGED << main, input >> /\ ~running'
        BY <2>3 DEF Terminated, Toggle, Ended, vars
      <3> QED
        BY <2>3, <3>1
    <2>4. CASE Pair \/ Hang
      <3>1. main \notin BeforeLaunched
        BY DEF IInv, StoppedAfterFlag, ConnAt
      <3>2. main = "quit" /\ main' = "hung" /\ UNCHANGED << input, running >>
        BY <2>4, <3>1 DEF Pair, Hang, BeforeLaunched
      <3>3. MainLeft' < MainLeft /\ InputLeft' = InputLeft
        BY <3>2
      <3> QED
        BY <3>2, <3>3
    <2> QED
      BY <2>1, <2>2, <2>3, <2>4 DEF Next
  <1> QED
    BY <1>1, Inductive, PTL DEF Spec, TearDownAdvances

------------------------------------------------------------------------------
(***************************************************************************)
(* Session implements Lifecycle.                                            *)
(***************************************************************************)

\* A launch starts as Lifecycle says.
LEMMA PromiseInit == Init => Promise!Init
  BY DEF Init, Promise!Init, Stage, Linked, InputAlive

\* Each step of main.c's threads is a step of Lifecycle or changes nothing that
\* Lifecycle speaks of.
LEMMA PromiseStep ==
    SwitchesAssumption /\ IInv /\ [Next]_vars => [Promise!Next]_(Promise!vars)
  <1> SUFFICES ASSUME SwitchesAssumption, IInv, [Next]_vars
               PROVE  [Promise!Next]_(Promise!vars)
    OBVIOUS
  <1> USE DEF Promise!Next, Promise!vars, Stage, Linked, InputAlive, IInv, TypeOK, NothingYet,
              ConnAt, CancelAt, InputScope, BeforeLaunched, BeforeStreaming,
              WithInput
  <1>1. CASE OpenPad
    BY <1>1 DEF OpenPad, Valid, Promise!TakePad
  <1>2. CASE GsInit
    BY <1>2 DEF GsInit, Promise!GiveUp
  <1>3. CASE LoadServerInfo
    BY <1>3 DEF LoadServerInfo, Promise!GiveUp
  <1>4. CASE Pair
    BY <1>4 DEF Pair, Promise!GiveUp
  <1>5. CASE StartApp
    BY <1>5 DEF StartApp, Promise!GiveUp, Promise!LaunchApp
  <1>6. CASE BeginConnect
    BY <1>6 DEF BeginConnect
  <1>7. CASE ConnectOk
    BY <1>7 DEF ConnectOk, Promise!StartStream
  <1>8. CASE ConnectFail
    BY <1>8 DEF ConnectFail, AfterConnectFailure, Promise!Leave
  <1>9. CASE Spawn
    BY <1>9 DEF Spawn, Promise!StartFeeding
  <1>10. CASE LoopTest
    BY <1>10 DEF LoopTest
  <1>11. CASE Sample
    BY <1>11 DEF Sample
  <1>12. CASE Stop
    BY <1>12 DEF Stop
  <1>13. CASE Stopped
    BY <1>13 DEF Stopped, Promise!StopStream
  <1>14. CASE Join
    BY <1>14 DEF Join, Joinable, Promise!Leave, Promise!Die
  <1>15. CASE QuitApp
    BY <1>15 DEF QuitApp, Promise!Cancel
  <1>16. CASE Detach
    BY <1>16 DEF Detach
  <1>17. CASE Close
    BY <1>17 DEF Close, ClosedPad, Promise!Finish
  <1>18. CASE Hang
    BY <1>18 DEF Hang, Promise!Die
  <1>19. CASE InputTest
    BY <1>19 DEF InputTest, KeepPolling, Promise!StopFeeding
  <1>20. CASE InputGuard
    BY <1>20 DEF InputGuard
  <1>21. CASE InputRead
    BY <1>21 DEF InputRead
  <1>22. CASE InputSend
    BY <1>22 DEF InputSend
  <1>23. CASE Terminated
    BY <1>23 DEF Terminated
  <1>24. CASE Toggle
    BY <1>24 DEF Toggle
  <1>25. CASE UNCHANGED vars \/ Ended
    BY <1>25 DEF vars, Ended
  <1> QED
    BY <1>1, <1>2, <1>3, <1>4, <1>5, <1>6, <1>7, <1>8, <1>9, <1>10, <1>11, <1>12, <1>13, <1>14, <1>15, <1>16, <1>17, <1>18, <1>19, <1>20, <1>21, <1>22, <1>23, <1>24, <1>25 DEF Next, Main, Input

\* Every launch keeps the promise of Lifecycle (main.c:137-263): streaming only
\* what runs, cancelling once and only when nothing streams or reads the pad.
THEOREM Implementation == Spec => ImplementsLifecycle
  <1>1. Init => Promise!Init
    BY PromiseInit
  <1>2. IInv /\ [Next]_vars => [Promise!Next]_(Promise!vars)
    BY PromiseStep, SwitchesAssumption
  <1> QED
    BY <1>1, <1>2, Inductive, PTL DEF Spec, ImplementsLifecycle, Promise!Spec

\* Whatever keeps the promise is quiet when it leaves (main.c:255-260).
LEMMA PromiseQuiet == Promise!Spec => []Promise!Quiet
  <1>1. Promise!Init => Promise!Quiet
    BY DEF Promise!Init, Promise!Quiet
  <1>2. Promise!Quiet /\ [Promise!Next]_(Promise!vars) => Promise!Quiet'
    <2> SUFFICES ASSUME Promise!Quiet, [Promise!Next]_(Promise!vars)
                 PROVE  Promise!Quiet'
      OBVIOUS
    <2> USE DEF Promise!Quiet
    <2>1. CASE Promise!TakePad
      BY <2>1 DEF Promise!TakePad
    <2>2. CASE Promise!GiveUp
      BY <2>2 DEF Promise!GiveUp
    <2>3. CASE Promise!LaunchApp
      BY <2>3 DEF Promise!LaunchApp
    <2>4. CASE Promise!StartStream
      BY <2>4 DEF Promise!StartStream
    <2>5. CASE Promise!StartFeeding
      BY <2>5 DEF Promise!StartFeeding
    <2>6. CASE Promise!StopFeeding
      BY <2>6 DEF Promise!StopFeeding
    <2>7. CASE Promise!StopStream
      BY <2>7 DEF Promise!StopStream
    <2>8. CASE Promise!Leave
      BY <2>8 DEF Promise!Leave
    <2>9. CASE Promise!Cancel
      BY <2>9 DEF Promise!Cancel
    <2>10. CASE Promise!Finish
      BY <2>10 DEF Promise!Finish
    <2>11. CASE Promise!Die
      BY <2>11 DEF Promise!Die
    <2>12. CASE UNCHANGED Promise!vars
      BY <2>12 DEF Promise!vars
    <2> QED
      BY <2>1, <2>2, <2>3, <2>4, <2>5, <2>6, <2>7, <2>8, <2>9, <2>10, <2>11, <2>12 DEF Promise!Next
  <1> QED
    BY <1>1, <1>2, PTL DEF Promise!Spec

\* The server's app never ends while the stream is up or the input thread feeds
\* it, unless the server ends it itself (main.c:255-258): proved of Lifecycle
\* and, with it, of every launch.
THEOREM AppEndsQuietly == Spec => Promise!EndsQuietly
  <1>1. Promise!Quiet /\ [Promise!Next]_(Promise!vars)
        => [ (app = "running") /\ ~(app = "running")' =>
               ~Linked /\ ~InputAlive ]_(Promise!vars)
    BY DEF Promise!Quiet, Promise!Next, Promise!vars, Promise!TakePad,
           Promise!GiveUp, Promise!LaunchApp, Promise!StartStream,
           Promise!StartFeeding, Promise!StopFeeding, Promise!StopStream,
           Promise!Leave, Promise!Cancel, Promise!Finish, Promise!Die
  <1>2. ImplementsLifecycle => []Promise!Quiet
    BY PromiseQuiet DEF ImplementsLifecycle
  <1>3. ImplementsLifecycle => Promise!EndsQuietly
    BY <1>1, <1>2, PTL DEF ImplementsLifecycle, Promise!Spec, Promise!EndsQuietly
  <1> QED
    BY <1>3, Implementation, PTL

====
