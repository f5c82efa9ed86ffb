---------------------------- MODULE StreamProofs -----------------------------
(***************************************************************************)
(* A stream is video.c and audio.c, each as its own module describes it, so *)
(* what is proved of them there holds beneath every connection; and a       *)
(* connection that has come down leaves nothing.                            *)
(***************************************************************************)
EXTENDS Stream

\* A side that is down is not touched any more.
ConnDown ==
    conn \in { "stopped", "failed" } =>
        /\ lib \in { "idle", "failed", "cleaned" }
        /\ audio \in { "idle", "failed", "closed" }

\* The inductive invariant of a stream.
StreamIInv == IInv /\ AudioIInv /\ ConnDown

------------------------------------------------------------------------------

\* Every step of a stream is a step of each side, or none.
LEMMA StepOfParts ==
  ASSUME [StreamNext]_streamVars
  PROVE  [Next]_vars /\ [AudioNext]_audioVars
  <1>1. CASE BeginConnection \/ Connected \/ Abort \/ StopConnection \/ Down
             \/ UNCHANGED streamVars
    BY <1>1 DEF BeginConnection, Connected, Abort, StopConnection, Down,
                streamVars
  <1>2. CASE SetUp
    BY <1>2 DEF SetUp, Next, AudioNext
  <1>3. CASE DecodeVideo \/ TearDownVideo
    BY <1>3 DEF DecodeVideo, TearDownVideo, Next
  <1>4. CASE DecodeAudio \/ RefuseAudio \/ TearDownAudio
    BY <1>4 DEF DecodeAudio, RefuseAudio, TearDownAudio, AudioNext
  <1>5. CASE Devices
    BY <1>5 DEF Devices, Next, AudioNext
  <1> QED
    BY <1>1, <1>2, <1>3, <1>4, <1>5 DEF StreamNext

\* A connection that is down stays as it is.
LEMMA DownStays ==
  ASSUME ConnDown, IInv, AudioIInv, [StreamNext]_streamVars
  PROVE  ConnDown'
  <1> USE DEF ConnDown
  <1>1. CASE Down
    BY <1>1 DEF Down, vars, audioVars
  <1>2. CASE BeginConnection \/ Connected \/ Abort \/ StopConnection
             \/ SetUp \/ TearDownVideo \/ TearDownAudio
    BY <1>2 DEF BeginConnection, Connected, Abort, StopConnection, SetUp,
                TearDownVideo, TearDownAudio, ComingDown
  <1>3. CASE DecodeVideo
    <2>1. UNCHANGED << conn, audio, lib >>
      BY <1>3 DEF DecodeVideo, audioVars, Submit, Receive, Blit, SubmitFlip,
                  Return
    <2> QED
      BY <2>1
  <1>4. CASE DecodeAudio \/ RefuseAudio
    <2>1. UNCHANGED << conn, audio, lib >>
      BY <1>4 DEF DecodeAudio, RefuseAudio, vars, Decode, Output, OutputFails
    <2> QED
      BY <2>1
  <1>5. CASE Devices \/ UNCHANGED streamVars
    <2>1. UNCHANGED << conn, audio, lib >>
      BY <1>5 DEF Devices, vars, audioVars, streamVars, Vblank, PortPlays
    <2> QED
      BY <2>1
  <1> QED
    BY <1>1, <1>2, <1>3, <1>4, <1>5 DEF StreamNext

------------------------------------------------------------------------------

\* Beneath a connection, video.c and audio.c behave as Video and Audio say
\* (main.c:59-77).
THEOREM PartsBehave == StreamSpec => Spec /\ AudioSpec
  <1>1. StreamInit => Init /\ AudioInit
    BY DEF StreamInit
  <1>2. [StreamNext]_streamVars => [Next]_vars /\ [AudioNext]_audioVars
    BY StepOfParts
  <1> QED
    BY <1>1, <1>2, PTL DEF StreamSpec, Spec, AudioSpec

\* ... and so a stream keeps what each renderer alone promises
\* (video.c:171-222, audio.c:70-105), whatever the connection is at.
THEOREM StreamKeepsPromises ==
    StreamSpec => /\ [](FramesIntact /\ ScanoutSafe /\ DecodeReady)
                  /\ [](RingIntact /\ FreedOnlyWhileClosing)
                  /\ PictureGoesForward
  <1>1. Spec => [](FramesIntact /\ ScanoutSafe /\ DecodeReady)
    BY FramesStayIntact, ScanoutIsSafe, DecodingIsReady, PTL
  <1>2. AudioSpec => [](RingIntact /\ FreedOnlyWhileClosing)
    BY RingStaysIntact, FreedIsNotPlayed, PTL
  <1> QED
    BY <1>1, <1>2, PartsBehave, PictureNeverGoesBack

\* The invariants of both renderers, and what a connection that is down leaves
\* of them (main.c:225-255), hold of every stream.
THEOREM StreamInductive == StreamSpec => []StreamIInv
  <1>1. StreamInit => ConnDown
    BY DEF StreamInit, ConnDown
  <1>2. IInv /\ AudioIInv /\ ConnDown /\ [StreamNext]_streamVars => ConnDown'
    BY DownStays
  <1>3. StreamSpec => []IInv /\ []AudioIInv
    BY PartsBehave, Inductive, AudioInductive, PTL
  <1>4. StreamSpec => []ConnDown
    BY <1>1, <1>2, <1>3, PTL DEF StreamSpec
  <1> QED
    BY <1>3, <1>4, PTL DEF StreamIInv

\* A connection that has come down leaves nothing acquired, but for a side
\* whose setup has failed (video.c:171-184, audio.c:70-81).
THEOREM NothingIsLeft == StreamSpec => []NothingLeft
  <1>1. StreamIInv => NothingLeft
    <2> SUFFICES ASSUME StreamIInv, conn \in { "stopped", "failed" }
                 PROVE  /\ lib # "failed" =>
                             ~handle /\ fbs = 0 /\ ~codec /\ ~packet
                        /\ audio # "failed" =>
                             ~port /\ rings = 0 /\ ~opus /\ ~pcm
      BY DEF NothingLeft
    <2>1. lib # "failed" => ~handle /\ fbs = 0 /\ ~codec /\ ~packet
      BY DEF StreamIInv, ConnDown, IInv, SessionHas
    <2>2. audio # "failed" => ~port /\ rings = 0 /\ ~opus /\ ~pcm
      BY DEF StreamIInv, ConnDown, AudioIInv, AudioHas
    <2> QED
      BY <2>1, <2>2
  <1> QED
    BY <1>1, StreamInductive, PTL

------------------------------------------------------------------------------
(***************************************************************************)
(* Coming down is bounded.                                                  *)
(***************************************************************************)

\* What the video thread has still to do with the unit it decodes: to give out
\* a frame takes three steps.
UnitLeft ==
    4 * pending + CASE dec = "blit"    -> 3
                    [] dec = "flip"    -> 2
                    [] dec = "receive" -> 1
                    [] dec = "idle"    -> 0

\* What the library has still to do with video: the display is closed before
\* the buffers go.
LibLeft ==
    CASE lib = "live"     -> 4
      [] lib = "stopped"  -> 3
      [] lib = "failed"   -> 3
      [] lib = "cleaning" -> IF handle THEN 2 ELSE 1
      [] lib = "cleaned"  -> 0
      [] lib = "idle"     -> 0

\* What the audio thread and the port have still to do.
PlayLeft == Len(held) + IF play = "output" THEN 2 ELSE 0

\* What the library has still to do with audio.
AudioLeft ==
    CASE audio = "live"    -> 4
      [] audio = "stopped" -> 3
      [] audio = "failed"  -> 3
      [] audio = "closing" -> 2
      [] audio = "freed"   -> 1
      [] audio = "closed"  -> 0
      [] audio = "idle"    -> 0

Left == UnitLeft + LibLeft + PlayLeft + AudioLeft

\* Once the connection comes down (main.c:228, 255) no step of the library, of
\* the decoder or of the port is taken twice: each is one of those that are
\* left, until the call returns.  The display, which goes on, adds none.
ComingDownAdvances ==
    [][ComingDown =>
         \/ /\ conn' \in { "stopped", "failed" }
            /\ UNCHANGED << vars, audioVars >>
         \/ /\ ComingDown'
            /\ Left' < Left
         \/ Vblank /\ UNCHANGED << conn, Left >>]_streamVars

\* What is left is a number.
LEMMA LeftType ==
  ASSUME TypeOK, AudioTypeOK
  PROVE  UnitLeft \in Nat /\ LibLeft \in Nat /\ PlayLeft \in Nat
         /\ AudioLeft \in Nat
  <1>1. UnitLeft \in Nat
    <2>1. dec \in DecStates /\ pending \in Nat
      BY DEF TypeOK
    <2> QED
      BY <2>1 DEF UnitLeft, DecStates
  <1>2. LibLeft \in Nat
    <2>1. lib \in LibStates
      BY DEF TypeOK
    <2> QED
      BY <2>1 DEF LibLeft, LibStates
  <1>3. PlayLeft \in Nat
    <2>1. held \in Seq(Slots \X Nat)
      BY DEF AudioTypeOK
    <2> QED
      BY <2>1 DEF PlayLeft
  <1>4. AudioLeft \in Nat
    <2>1. audio \in AudioStates
      BY DEF AudioTypeOK
    <2> QED
      BY <2>1 DEF AudioLeft, AudioStates
  <1> QED
    BY <1>1, <1>2, <1>3, <1>4

\* Each step of the video thread and of video_cleanup does some of it.
LEMMA VideoAdvances ==
  ASSUME TypeOK, AudioTypeOK, UNCHANGED audioVars,
         \/ Receive \/ Blit \/ SubmitFlip \/ Return
         \/ StopVideo \/ BeginCleanup \/ CloseDisplay \/ FreeBuffers
  PROVE  Left' < Left
  <1>1. PlayLeft' = PlayLeft /\ AudioLeft' = AudioLeft
    BY DEF audioVars, PlayLeft, AudioLeft
  <1>2. pending \in Nat /\ handle \in BOOLEAN
    BY DEF TypeOK
  <1>3. CASE Receive \/ Blit \/ SubmitFlip \/ Return
    <2>1. LibLeft' = LibLeft
      <3>1. UNCHANGED << lib, handle >>
        BY <1>3 DEF Receive, Blit, SubmitFlip, Return
      <3> QED
        BY <3>1, Zenon DEF LibLeft
    <2>2. UnitLeft' < UnitLeft /\ UnitLeft' \in Nat
      BY <1>2, <1>3 DEF Receive, Blit, SubmitFlip, Return, UnitLeft
    <2> QED
      BY <1>1, <2>1, <2>2, LeftType DEF Left
  <1>4. CASE StopVideo \/ BeginCleanup \/ CloseDisplay \/ FreeBuffers
    <2>1. UnitLeft' = UnitLeft
      BY <1>4 DEF StopVideo, BeginCleanup, CloseDisplay, FreeBuffers, UnitLeft
    <2>2. LibLeft' < LibLeft /\ LibLeft' \in Nat
      BY <1>2, <1>4 DEF StopVideo, BeginCleanup, CloseDisplay, FreeBuffers,
                        DisplayGone, LibLeft
    <2> QED
      BY <1>1, <2>1, <2>2, LeftType DEF Left
  <1> QED
    BY <1>3, <1>4

\* So does each of the audio thread, of the port and of audio_cleanup.
LEMMA AudioAdvances ==
  ASSUME TypeOK, AudioTypeOK, UNCHANGED vars,
         \/ Output \/ OutputFails \/ PortPlays
         \/ StopAudio \/ CloseDecoder \/ FreeRing \/ ClosePort
  PROVE  Left' < Left
  <1>1. UnitLeft' = UnitLeft /\ LibLeft' = LibLeft
    BY DEF vars, UnitLeft, LibLeft
  <1>2. held \in Seq(Slots \X Nat) /\ out \in Slots /\ last \in Nat
    BY DEF AudioTypeOK
  <1>3. CASE Output \/ OutputFails \/ PortPlays
    <2>1. AudioLeft' = AudioLeft
      BY <1>3 DEF Output, OutputFails, PortPlays, AudioLeft
    <2>2. PlayLeft' < PlayLeft /\ PlayLeft' \in Nat
      <3>1. CASE Output
        BY <1>2, <3>1 DEF Output, PlayLeft
      <3>2. CASE OutputFails
        BY <1>2, <3>2 DEF OutputFails, PlayLeft
      <3>3. CASE PortPlays
        BY <1>2, <3>3 DEF PortPlays, PlayLeft
      <3> QED
        BY <1>3, <3>1, <3>2, <3>3
    <2> QED
      BY <1>1, <2>1, <2>2, LeftType DEF Left
  <1>4. CASE StopAudio \/ CloseDecoder \/ FreeRing \/ ClosePort
    <2>1. PlayLeft' <= PlayLeft /\ PlayLeft' \in Nat
      BY <1>2, <1>4 DEF StopAudio, CloseDecoder, FreeRing, ClosePort, ClosedPort,
                        PlayLeft
    <2>2. AudioLeft' < AudioLeft /\ AudioLeft' \in Nat
      BY <1>4 DEF StopAudio, CloseDecoder, FreeRing, ClosePort, AudioLeft
    <2> QED
      BY <1>1, <2>1, <2>2, LeftType DEF Left
  <1> QED
    BY <1>3, <1>4

\* ComingDownAdvances holds for every ring, queue and port (video.c:171-219,
\* audio.c:70-106): with threads that are scheduled and a port that plays on it
\* is what brings LiStopConnection to its end.
THEOREM ComingDownIsBounded == StreamSpec => ComingDownAdvances
  <1>1. ASSUME IInv, AudioIInv, StreamNext, ComingDown
        PROVE  \/ /\ conn' \in { "stopped", "failed" }
                  /\ UNCHANGED << vars, audioVars >>
               \/ /\ ComingDown'
                  /\ Left' < Left
               \/ Vblank /\ UNCHANGED << conn, Left >>
    <2> USE <1>1
    <2>1. TypeOK /\ AudioTypeOK
      BY DEF IInv, AudioIInv
    <2>2. CASE DecodeVideo
      <3>1. conn' = conn /\ UNCHANGED audioVars
            /\ (Receive \/ Blit \/ SubmitFlip \/ Return)
        BY <2>2 DEF DecodeVideo, ComingDown
      <3> QED
        BY <2>1, <3>1, VideoAdvances DEF ComingDown
    <2>3. CASE TearDownVideo
      BY <2>1, <2>3, VideoAdvances DEF TearDownVideo, ComingDown
    <2>4. CASE DecodeAudio
      <3>1. conn' = conn /\ UNCHANGED vars /\ Output
        BY <2>4 DEF DecodeAudio, ComingDown
      <3> QED
        BY <2>1, <3>1, AudioAdvances DEF ComingDown
    <2>5. CASE RefuseAudio
      BY <2>1, <2>5, AudioAdvances DEF RefuseAudio, ComingDown
    <2>6. CASE TearDownAudio
      BY <2>1, <2>6, AudioAdvances DEF TearDownAudio, ComingDown
    <2>7. CASE PortPlays /\ UNCHANGED << conn, vars >>
      BY <2>1, <2>7, AudioAdvances DEF ComingDown
    <2>8. CASE Vblank /\ UNCHANGED << conn, audioVars >>
      BY <2>8 DEF Vblank, audioVars, Left, UnitLeft, LibLeft, PlayLeft,
                  AudioLeft
    <2>9. CASE Down
      BY <2>9 DEF Down
    <2>10. ~BeginConnection /\ ~SetUp /\ ~Connected /\ ~Abort /\ ~StopConnection
      BY DEF ComingDown, BeginConnection, SetUp, Connected, Abort,
             StopConnection
    <2> QED
      BY <2>2, <2>3, <2>4, <2>5, <2>6, <2>7, <2>8, <2>9, <2>10
         DEF StreamNext, Devices
  <1> QED
    BY <1>1, PartsBehave, Inductive, AudioInductive, PTL
       DEF StreamSpec, ComingDownAdvances

====
