------------------------------- MODULE Session -------------------------------
(***************************************************************************)
(* One launch of moonlight-ps5, as src/main.c runs it: the main thread      *)
(* that opens the pad, prepares the session with the server, streams until  *)
(* s_running falls, and tears everything down; the input thread that        *)
(* forwards the pad while s_running is set; the terminated callback of the  *)
(* streaming library; the user's OPTIONS+CREATE; and the server's app.      *)
(*                                                                          *)
(* External: moonlight-common-c (LiStartConnection, LiStopConnection, its   *)
(* callback thread), the pad driver and the GameStream server.              *)
(***************************************************************************)
EXTENDS Naturals

CONSTANTS
    MayHang,        \* may the server stop answering without closing the
                    \* socket?  (https_get and http_get set no timeout)
    SpawnMayFail    \* may pthread_create fail?  (its result is ignored)

ASSUME SwitchesAssumption ==
    /\ MayHang \in BOOLEAN
    /\ SpawnMayFail \in BOOLEAN

VARIABLES
    main,       \* where the main thread is; each value names the next call
    input,      \* where the input thread is
    running,    \* s_running
    pad,        \* the pad handle main opened
    attached,   \* input.c's own handle is >= 0
    held,       \* the user holds OPTIONS+CREATE
    app,        \* an app of this client on the server
    launch,     \* what became of the /launch request
    cancel,     \* what became of the /cancel request
    conn,       \* the streaming connection of moonlight-common-c
    late        \* pad events sent since LiStopConnection was called

vars == << main, input, running, pad, attached, held, app, launch, cancel,
           conn, late >>

LateCap == 2    \* late saturates here

MainStates  == { "pad", "init", "query", "pair", "launch", "connect",
                 "connecting", "spawn", "loop", "sample", "stop", "stopping",
                 "join", "quit", "detach", "close",
                 "done", "hung", "crashed" }
Over        == { "done", "hung", "crashed" }
InputStates == { "none", "test", "guard", "read", "send", "ended" }
InputAlive  == input \in { "test", "guard", "read", "send" }
ConnStates  == { "idle", "starting", "up", "failed", "stopping", "stopped" }
ConnDown    == conn \in { "failed", "stopped" }

TypeOK ==
    /\ main \in MainStates
    /\ input \in InputStates
    /\ running \in BOOLEAN
    /\ pad \in { "unset", "bad", "open", "closed" }
    /\ attached \in BOOLEAN
    /\ held \in BOOLEAN
    /\ app \in { "none", "running" }
    /\ launch \in { "none", "accepted", "refused", "lost" }
    /\ cancel \in { "none", "sent", "failed" }
    /\ conn \in ConnStates
    /\ late \in 0 .. LateCap

Init ==
    /\ main = "pad"
    /\ input = "none"
    /\ running = TRUE
    /\ pad = "unset"
    /\ attached = FALSE
    /\ held = FALSE
    /\ app \in { "none", "running" }   \* one may be left over
    /\ launch = "none"
    /\ cancel = "none"
    /\ conn = "idle"
    /\ late = 0

(***************************************************************************)
(* The main thread, up to the connection.                                   *)
(***************************************************************************)

\* s_pad_handle >= 0
Valid(handle) == handle = "open"

\* scePadOpen, then input_init; a failed open only loses the pad.
OpenPad ==
    /\ main = "pad"
    /\ pad' \in { "open", "bad" }
    /\ attached' = Valid(pad')
    /\ main' = "init"
    /\ UNCHANGED << input, running, held, app, launch, cancel, conn, late >>

\* gs_init and its early return.
GsInit ==
    /\ main = "init"
    /\ main' \in { "query", "done" }
    /\ UNCHANGED << input, running, pad, attached, held, app, launch, cancel,
                    conn, late >>

\* gs_load_server_info: unreachable server, unpaired client, or paired.
LoadServerInfo ==
    /\ main = "query"
    /\ main' \in { "done", "pair", "launch" }
    /\ UNCHANGED << input, running, pad, attached, held, app, launch, cancel,
                    conn, late >>

\* gs_pair waits for the user to accept the PIN on the server.
Pair ==
    /\ main = "pair"
    /\ main' \in { "launch", "done" }
    /\ UNCHANGED << input, running, pad, attached, held, app, launch, cancel,
                    conn, late >>

\* gs_start_app.  Only a request that could not be sent fails; a refusal, or a
\* reply cut short, still returns 0.  A server that still runs the app of an
\* earlier launch may do either.
StartApp ==
    /\ main = "launch"
    /\ \/ /\ main' = "done"
          /\ UNCHANGED << app, launch >>
       \/ /\ main' = "connect"
          /\ \/ launch' = "accepted" /\ app' = "running"
             \/ launch' = "refused"  /\ app' = app
             \/ launch' = "lost"     /\ app' \in { app, "running" }
    /\ UNCHANGED << input, running, pad, attached, held, cancel, conn, late >>

\* LiStartConnection is called...
BeginConnect ==
    /\ main = "connect"
    /\ main' = "connecting"
    /\ conn' = "starting"
    /\ UNCHANGED << input, running, pad, attached, held, app, launch, cancel,
                    late >>

\* ... and returns 0, which needs an app to stream from ...
ConnectOk ==
    /\ main = "connecting"
    /\ app = "running"
    /\ main' = "spawn"
    /\ conn' = "up"
    /\ UNCHANGED << input, running, pad, attached, held, app, launch, cancel,
                    late >>

\* Mutant: the error path of LiStartConnection forgets gs_quit_app.
AfterConnectFailure_NoQuit == "detach"

\* The first call of the error path of LiStartConnection.
AfterConnectFailure == "quit"

\* ... or fails, the library having stopped what it had started.
ConnectFail ==
    /\ main = "connecting"
    /\ main' = AfterConnectFailure
    /\ conn' = "failed"
    /\ UNCHANGED << input, running, pad, attached, held, app, launch, cancel,
                    late >>

(***************************************************************************)
(* The main thread, streaming.                                              *)
(***************************************************************************)

\* pthread_create; the result is not looked at.
Spawn ==
    /\ main = "spawn"
    /\ main' = "loop"
    /\ input' \in IF SpawnMayFail THEN { "test", "none" } ELSE { "test" }
    /\ UNCHANGED << running, pad, attached, held, app, launch, cancel, conn,
                    late >>

\* The condition of the while loop.
LoopTest ==
    /\ main = "loop"
    /\ main' = IF running THEN "sample" ELSE "stop"
    /\ UNCHANGED << input, running, pad, attached, held, app, launch, cancel,
                    conn, late >>

\* Mutant: the combination is looked at only when the pad failed to open.
QuitPressed_Inverted == pad # "open" /\ held

\* What the loop reads of the pad: nothing when the handle is negative.
QuitPressed == pad = "open" /\ held

Sample ==
    /\ main = "sample"
    /\ main' = "loop"
    /\ running' = (running /\ ~QuitPressed)
    /\ UNCHANGED << input, pad, attached, held, app, launch, cancel, conn,
                    late >>

(***************************************************************************)
(* The main thread, tearing down: LiStopConnection, pthread_join,           *)
(* gs_quit_app, input_cleanup, scePadClose.                                 *)
(***************************************************************************)

Stop ==
    /\ main = "stop"
    /\ main' = "stopping"
    /\ conn' = "stopping"
    /\ UNCHANGED << input, running, pad, attached, held, app, launch, cancel,
                    late >>

Stopped ==
    /\ main = "stopping"
    /\ main' = "join"
    /\ conn' = "stopped"
    /\ UNCHANGED << input, running, pad, attached, held, app, launch, cancel,
                    late >>

\* Mutant: main does not wait for the input thread.
Joinable_NoWait == input # "none"

\* pthread_join returns once the thread has.
Joinable == input = "ended"

\* Joining a thread that was never created is undefined: the call returns, or
\* the process dies.
Join ==
    /\ main = "join"
    /\ \/ Joinable /\ main' = "quit"
       \/ input = "none" /\ main' \in { "quit", "crashed" }
    /\ UNCHANGED << input, running, pad, attached, held, app, launch, cancel,
                    conn, late >>

\* gs_quit_app ignores the result of its request.
QuitApp ==
    /\ main = "quit"
    /\ main' = "detach"
    /\ \/ cancel' = "sent" /\ app' = "none"
       \/ cancel' = "failed" /\ UNCHANGED app
    /\ UNCHANGED << input, running, pad, attached, held, launch, conn, late >>

\* input_cleanup
Detach ==
    /\ main = "detach"
    /\ main' = "close"
    /\ attached' = FALSE
    /\ UNCHANGED << input, running, pad, held, app, launch, cancel, conn,
                    late >>

\* Mutant: the handle is closed only when it is not valid.
ClosedPad_Inverted == IF pad = "open" THEN pad ELSE "closed"

\* scePadClose, for a handle that scePadOpen gave.
ClosedPad == IF pad = "open" THEN "closed" ELSE pad

Close ==
    /\ main = "close"
    /\ main' = "done"
    /\ pad' = ClosedPad
    /\ UNCHANGED << input, running, attached, held, app, launch, cancel,
                    conn, late >>

\* The server accepts the connection of a request and never answers it: no
\* socket has a timeout, so the main thread stays in the read.  The server may
\* have acted on /launch or /cancel.
Hang ==
    /\ MayHang
    /\ main' = "hung"
    /\ \/ main \in { "query", "pair" } /\ UNCHANGED app
       \/ main = "launch" /\ app' \in { app, "running" }
       \/ main = "quit" /\ app' \in { "none", app }
    /\ UNCHANGED << input, running, pad, attached, held, launch, cancel, conn,
                    late >>

(***************************************************************************)
(* The input thread.                                                        *)
(***************************************************************************)

\* Mutant: the thread looks at its own handle only, never at s_running.
KeepPolling_Forever == attached

\* The condition of the thread's loop.
KeepPolling == running

InputTest ==
    /\ input = "test"
    /\ input' = IF KeepPolling THEN "guard" ELSE "ended"
    /\ UNCHANGED << main, running, pad, attached, held, app, launch, cancel,
                    conn, late >>

\* input_poll_and_send: return at once without a handle ...
InputGuard ==
    /\ input = "guard"
    /\ input' = IF attached THEN "read" ELSE "test"
    /\ UNCHANGED << main, running, pad, attached, held, app, launch, cancel,
                    conn, late >>

\* ... read the pad, returning when that fails (it does on a closed handle) ...
InputRead ==
    /\ input = "read"
    /\ \/ pad = "open" /\ input' = "send"
       \/ input' = "test"
    /\ UNCHANGED << main, running, pad, attached, held, app, launch, cancel,
                    conn, late >>

\* ... and hand the event to the library, whatever the connection has become.
InputSend ==
    /\ input = "send"
    /\ input' = "test"
    /\ late' = IF conn \in { "stopping", "stopped" } /\ late < LateCap
               THEN late + 1 ELSE late
    /\ UNCHANGED << main, running, pad, attached, held, app, launch, cancel,
                    conn >>

(***************************************************************************)
(* The library's callback thread and the user.                              *)
(***************************************************************************)

\* cb_terminated: from the moment the control stream exists until
\* LiStopConnection has returned.
Terminated ==
    /\ conn \in { "starting", "up", "stopping" }
    /\ running
    /\ running' = FALSE
    /\ UNCHANGED << main, input, pad, attached, held, app, launch, cancel,
                    conn, late >>

\* The user presses or releases OPTIONS+CREATE.
Toggle ==
    /\ pad = "open"
    /\ main \notin Over
    /\ held' = ~held
    /\ UNCHANGED << main, input, running, pad, attached, app, launch, cancel,
                    conn, late >>

\* Nothing more happens once the process is over or stuck.
Ended ==
    /\ main \in Over
    /\ UNCHANGED vars

Main  == \/ OpenPad \/ GsInit \/ LoadServerInfo \/ StartApp \/ BeginConnect
         \/ ConnectOk \/ ConnectFail \/ Spawn \/ LoopTest \/ Sample \/ Stop
         \/ Stopped \/ Join \/ QuitApp \/ Detach \/ Close
Input == InputTest \/ InputGuard \/ InputRead \/ InputSend

Next == Main \/ Pair \/ Hang \/ Input \/ Terminated \/ Toggle \/ Ended

\* Both threads are scheduled, and every call main makes returns, except
\* gs_pair, which waits for a person, and requests that Hang.
Fairness == WF_vars(Main) /\ WF_vars(Input)

Spec == Init /\ [][Next]_vars /\ Fairness

(***************************************************************************)
(* Properties.                                                              *)
(***************************************************************************)

\* The input thread reads the pad through its own copy of the handle: whenever
\* it has passed its guard, the handle main closes (main.c:260) is still open.
PadLifetime == input = "read" => pad = "open"

\* How far a launch has come, and whether the stream is up, seen from outside.
Stage ==
    CASE main \in { "pad", "init", "query", "pair", "launch" } -> "preparing"
      [] main \in { "connect", "connecting" } -> "launched"
      [] main \in { "spawn", "loop", "sample", "stop", "stopping",
                   "join" } -> "streaming"
      [] main \in { "quit", "detach", "close" } -> "leaving"
      [] main = "done" -> "over"
      [] main \in { "hung", "crashed" } -> "dead"
Linked == conn \in { "up", "stopping" }

\* What main does, seen from outside: its order of calls (main.c:137-263) is
\* that of Lifecycle.tla, in every interleaving of its threads and callbacks.
Promise == INSTANCE Lifecycle WITH
    stage   <- Stage,
    link    <- Linked,
    feeding <- InputAlive,
    pad     <- pad = "open",
    app     <- app = "running",
    asked   <- cancel # "none"

ImplementsLifecycle == Promise!Spec

\* LiStopConnection is called before pthread_join (main.c:255-256), so the
\* input thread may hand an event to a library that is stopping: but at most
\* the one it was about to send when s_running fell.
LateEvents == late <= 1

\* An app is never forgotten, be it this launch's or one that a crashed launch
\* has left over: a launch that gets past gs_start_app and to its end has asked
\* the server to cancel it; the app is only left when that request failed.
NoOrphanApp ==
    main = "done" /\ launch # "none" /\ app = "running" => cancel = "failed"

\* Once the connection has been tried, every way out releases the pad, clears
\* input.c's handle and leaves no thread behind (main.c:228-234, 255-263).
ReleasedAtExit ==
    main = "done" /\ conn # "idle" => pad # "open" /\ ~attached /\ ~InputAlive

\* Whatever made s_running fall (the user, or the server in the middle of
\* LiStartConnection), the connection comes down and the input thread ends.
StopsStreaming == ~running ~> ConnDown /\ ~InputAlive

\* OPTIONS+CREATE, held for as long as it takes while streaming, takes main out
\* of the loop and through the teardown (main.c:241-263), unless a call there
\* never returns or kills the process.
HoldEnds == ([]held /\ main \in { "loop", "sample" }) ~> main \in Over

\* "hold OPTIONS+CREATE to quit" (main.c:240): held for as long as it takes
\* while streaming, the combination ends the process.
HoldQuits == ([]held /\ main \in { "loop", "sample" }) ~> main = "done"

\* gs_start_app "Launch appId and fill out LiStartConnection parameters"
\* (gamestream.h:36): the stream is only started on a launch that succeeded.
LaunchAccepted == main = "connect" => launch = "accepted"

==============================================================================
