------------------------------- MODULE Stream --------------------------------
(***************************************************************************)
(* What lies under the connection of Session.tla: between LiStartConnection *)
(* and LiStopConnection (main.c:225-255) the streaming library sets up      *)
(* video.c and audio.c, has its threads decode into them, and tears both    *)
(* down, while the display scans out and the audio port plays.              *)
(*                                                                          *)
(* Session.tla takes from here that both calls return.                      *)
(*                                                                          *)
(* External: the library.  It calls the callbacks of main.c:59-77, those of *)
(* video on one thread and those of audio on another, cleans up what it has *)
(* started, and after a setup that failed cleans up or does not.            *)
(***************************************************************************)
EXTENDS RendererProofs

VARIABLES
    conn        \* the connection, as in Session.tla; "aborting" and "stopping"
                \* when it comes down

streamVars == << conn, vars, audioVars >>

StreamInit == conn = "idle" /\ Init /\ AudioInit

\* LiStartConnection is called.
BeginConnection ==
    /\ conn = "idle"
    /\ conn' = "starting"
    /\ UNCHANGED << vars, audioVars >>

\* While it runs, the callbacks set up.
SetUp ==
    /\ conn = "starting"
    /\ \/ Setup /\ UNCHANGED << conn, audioVars >>
       \/ OpenAudio /\ UNCHANGED << conn, vars >>

\* It returns 0 when both are up.
Connected ==
    /\ conn = "starting"
    /\ lib = "live" /\ audio = "live"
    /\ conn' = "up"
    /\ UNCHANGED << vars, audioVars >>

\* It fails at any stage, be it a callback or the network that has failed.
Abort ==
    /\ conn = "starting"
    /\ conn' = "aborting"
    /\ UNCHANGED << vars, audioVars >>

\* LiStopConnection is called.
StopConnection ==
    /\ conn = "up"
    /\ conn' = "stopping"
    /\ UNCHANGED << vars, audioVars >>

\* Units and packets are submitted from the moment their side is set up until
\* the connection comes down; a call that has begun goes on.
DecodeVideo ==
    /\ \/ conn \in { "starting", "up" } /\ Submit
       \/ Receive \/ Blit \/ SubmitFlip \/ Return
    /\ UNCHANGED << conn, audioVars >>

DecodeAudio ==
    /\ \/ conn \in { "starting", "up" } /\ Decode
       \/ Output
    /\ UNCHANGED << conn, vars >>

\* The port may refuse a buffer instead of blocking.
RefuseAudio == OutputFails /\ UNCHANGED << conn, vars >>

\* The display and the audio port work on their own.
Devices == \/ Vblank /\ UNCHANGED << conn, audioVars >>
           \/ PortPlays /\ UNCHANGED << conn, vars >>

ComingDown == conn \in { "aborting", "stopping" }

TearDownVideo ==
    /\ ComingDown
    /\ StopVideo \/ BeginCleanup \/ CloseDisplay \/ FreeBuffers
    /\ UNCHANGED << conn, audioVars >>

TearDownAudio ==
    /\ ComingDown
    /\ StopAudio \/ CloseDecoder \/ FreeRing \/ ClosePort
    /\ UNCHANGED << conn, vars >>

\* The call returns when both sides are down; one whose setup has failed may
\* be left as it is.
Down ==
    /\ ComingDown
    /\ lib \in { "idle", "failed", "cleaned" }
    /\ audio \in { "idle", "failed", "closed" }
    /\ conn' = IF conn = "stopping" THEN "stopped" ELSE "failed"
    /\ UNCHANGED << vars, audioVars >>

StreamNext == \/ BeginConnection \/ SetUp \/ Connected \/ Abort
              \/ StopConnection \/ DecodeVideo \/ DecodeAudio \/ RefuseAudio
              \/ Devices \/ TearDownVideo \/ TearDownAudio \/ Down

\* The library's threads are scheduled, calls of the decoder return, and the
\* port plays on.  Nothing is assumed of the display or of the server, nor that
\* the port ever refuses a buffer: an output that blocks ends with room alone.
StreamFairness ==
    /\ WF_streamVars(DecodeVideo)
    /\ WF_streamVars(DecodeAudio)
    /\ WF_streamVars(PortPlays /\ UNCHANGED << conn, vars >>)
    /\ WF_streamVars(TearDownVideo)
    /\ WF_streamVars(TearDownAudio)
    /\ WF_streamVars(Down)

StreamSpec == StreamInit /\ [][StreamNext]_streamVars /\ StreamFairness

(***************************************************************************)
(* Properties.                                                              *)
(***************************************************************************)

\* LiStopConnection, and a LiStartConnection that fails, return, although the
\* audio thread may be blocked in sceAudioOutOutput (audio.c:104) and the video
\* thread in the middle of its loop: Session's Stopped and ConnectFail rest on
\* it.
ComesDown == ComingDown ~> conn \in { "stopped", "failed" }

\* When they have returned, nothing of what the callbacks acquired is left,
\* but for a side whose own setup has failed (video.c:171-184, audio.c:70-81).
NothingLeft ==
    conn \in { "stopped", "failed" } =>
        /\ lib # "failed" => ~handle /\ fbs = 0 /\ ~codec /\ ~packet
        /\ audio # "failed" => ~port /\ rings = 0 /\ ~opus /\ ~pcm

==============================================================================
