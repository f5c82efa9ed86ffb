--------------------------- MODULE RendererProofs ---------------------------
(***************************************************************************)
(* Safety of the two renderers that main.c:58-77 hands to the library:      *)
(* Video, for every number of framebuffers, every depth of the display's    *)
(* queue and sessions of every length; and Audio, for every number of       *)
(* output buffers, every port, and sessions of every length.                *)
(*                                                                          *)
(* The argument for Video: frame k is always blitted into buffer            *)
(* k % FB_COUNT, and two frames less than FB_COUNT apart have different     *)
(* buffers.  That for Audio: packet n is always decoded into buffer         *)
(* (n - 1) % AUDIO_BUF_FRAMES, packets less than AUDIO_BUF_FRAMES apart     *)
(* have different buffers, and a packet the port holds is no further behind *)
(* than what the port holds and what it has refused since.                  *)
(***************************************************************************)
EXTENDS Video, Audio, TLAPS

(***************************************************************************)
(* Video.                                                                   *)
(***************************************************************************)

BufferOf(k) == k % FB_COUNT

\* Quotient and remainder.
LEMMA DivMod ==
  ASSUME NEW k \in Int, NEW N \in Nat, N > 0
  PROVE  /\ k \div N \in Int /\ k % N \in Int
         /\ 0 <= k % N /\ k % N < N
         /\ k = N * (k \div N) + (k % N)
  OBVIOUS

\* There is one remainder.
LEMMA ModUnique ==
  ASSUME NEW k \in Int, NEW N \in Nat, N > 0, NEW q \in Int, NEW r \in Int,
         0 <= r, r < N, k = N * q + r
  PROVE  k % N = r
  OBVIOUS

\* A buffer's number is that of a buffer.
LEMMA BufferOfType == ASSUME NEW k \in Nat PROVE BufferOf(k) \in Buffers
  BY VideoAssumption, DivMod DEF BufferOf, Buffers

\* The ring's successor is the buffer of the next frame (video.c:211).
LEMMA BufferOfNext ==
  ASSUME NEW k \in Nat
  PROVE  (BufferOf(k) + 1) % FB_COUNT = BufferOf(k + 1)
  <1> DEFINE q == k \div FB_COUNT
             r == k % FB_COUNT
  <1>1. /\ FB_COUNT \in Nat /\ FB_COUNT > 0
        /\ q \in Int /\ r \in Int /\ 0 <= r /\ r < FB_COUNT
        /\ k = FB_COUNT * q + r
    BY VideoAssumption, DivMod
  <1> HIDE DEF q, r
  <1>2. CASE r + 1 < FB_COUNT
    <2>1. k + 1 = FB_COUNT * q + (r + 1) /\ r + 1 = FB_COUNT * 0 + (r + 1)
      BY <1>1
    <2>2. (k + 1) % FB_COUNT = r + 1
      BY <1>1, <1>2, <2>1, ModUnique
    <2>3. (r + 1) % FB_COUNT = r + 1
      BY <1>1, <1>2, <2>1, ModUnique
    <2> QED
      BY <2>2, <2>3 DEF BufferOf, r
  <1>3. CASE r + 1 = FB_COUNT
    <2>1. k + 1 = FB_COUNT * (q + 1) + 0 /\ r + 1 = FB_COUNT * 1 + 0
      BY <1>1, <1>3
    <2>2. (k + 1) % FB_COUNT = 0
      BY <1>1, <2>1, ModUnique
    <2>3. (r + 1) % FB_COUNT = 0
      BY <1>1, <2>1, ModUnique
    <2> QED
      BY <2>2, <2>3 DEF BufferOf, r
  <1> QED
    BY <1>1, <1>2, <1>3

\* Frames less than FB_COUNT apart never share a buffer.
LEMMA BuffersDiffer ==
  ASSUME NEW a \in Nat, NEW b \in Nat, b < a, a - b < FB_COUNT
  PROVE  BufferOf(a) # BufferOf(b)
  <1> SUFFICES ASSUME a % FB_COUNT = b % FB_COUNT
               PROVE  FALSE
    BY DEF BufferOf
  <1> DEFINE qa == a \div FB_COUNT
             qb == b \div FB_COUNT
  <1>1. /\ FB_COUNT \in Nat /\ FB_COUNT > 0
        /\ qa \in Int /\ qb \in Int
        /\ a = FB_COUNT * qa + (a % FB_COUNT)
        /\ b = FB_COUNT * qb + (a % FB_COUNT)
        /\ a % FB_COUNT \in Int
    BY VideoAssumption, DivMod
  <1> HIDE DEF qa, qb
  <1>2. a - b = FB_COUNT * (qa - qb)
    BY <1>1
  <1>3. qa - qb >= 1 => FB_COUNT * (qa - qb) >= FB_COUNT
    BY <1>1
  <1>4. qa - qb <= 0 => FB_COUNT * (qa - qb) <= 0
    BY <1>1
  <1> QED
    BY <1>1, <1>2, <1>3, <1>4

------------------------------------------------------------------------------

\* The ring is where the last submitted frame left it.
IndexFollows ==
    IF dec = "flip" THEN head > 0 /\ (index + 1) % FB_COUNT = BufferOf(head)
                    ELSE index = BufferOf(head)

\* The newest frames are all in their buffers.
RingHolds ==
    \A k \in 1 .. head :
        Newest - k < FB_COUNT => content[BufferOf(k)] = k

FlipOf(k) == << BufferOf(k), k >>
Blitted   == { FlipOf(k) : k \in 1 .. head }

\* The display was only ever given frames that have been blitted.
FlipsBlitted ==
    /\ shown \in Blitted \union { NoFlip }
    /\ \A i \in 1 .. Len(queue) : queue[i] \in Blitted

\* A display with anything to scan has all its buffers.
FlipsNeedBuffers ==
    shown # NoFlip \/ queue # << >> => handle /\ fbs = FB_COUNT

\* Decoding happens within a session, and a session has what it needs.
SessionHas ==
    /\ dec # "idle" => lib = "live"
    /\ lib = "live" => handle /\ fbs = FB_COUNT /\ codec /\ packet
    /\ lib \in { "idle", "cleaning", "cleaned" } => ~codec /\ ~packet
    /\ lib \in { "idle", "cleaned" } => ~handle /\ fbs = 0

\* The inductive invariant of video.c's decoder, ring and display.
IInv ==
    /\ TypeOK
    /\ IndexFollows
    /\ RingHolds
    /\ FlipsBlitted
    /\ FlipsNeedBuffers
    /\ SessionHas

------------------------------------------------------------------------------

\* The state before video_init.
LEMMA InitIInv == Init => IInv
  <1> SUFFICES ASSUME Init PROVE IInv
    OBVIOUS
  <1> USE VideoAssumption DEF Init
  <1>1. 0 \in Buffers /\ BufferOf(0) = 0
    BY ModUnique DEF Buffers, BufferOf
  <1>2. TypeOK
    <2>1. handle \in BOOLEAN /\ codec \in BOOLEAN /\ packet \in BOOLEAN
      BY Zenon
    <2>2. content \in [ Buffers -> Int ]
      BY DEF Black
    <2> QED
      BY <1>1, <2>1, <2>2 DEF TypeOK, LibStates, DecStates, NoFlip
  <1>3. IndexFollows /\ RingHolds /\ FlipsBlitted
    BY <1>1 DEF IndexFollows, RingHolds, FlipsBlitted
  <1>4. FlipsNeedBuffers /\ SessionHas
    BY DEF FlipsNeedBuffers, SessionHas
  <1> QED
    BY <1>2, <1>3, <1>4 DEF IInv

\* Every step keeps the types (video.c:61-222).
LEMMA TypeStep == ASSUME TypeOK, [Next]_vars PROVE TypeOK'
  <1> USE VideoAssumption DEF TypeOK, LibStates, DecStates, ring, display
  <1>0. NextIndex \in Buffers
    BY DivMod DEF NextIndex, Buffers
  <1>1. CASE Setup
    BY <1>1 DEF Setup
  <1>2. CASE Submit
    BY <1>2 DEF Submit
  <1>3. CASE Receive
    BY <1>0, <1>3 DEF Receive, Torn
  <1>4. CASE Blit
    BY <1>0, <1>4 DEF Blit
  <1>5. CASE SubmitFlip
    <2>1. Append(queue, << NextIndex, head >>) \in Seq(Buffers \X Nat)
      BY <1>0
    <2>2. queue' \in Seq(Buffers \X Nat)
      BY <1>5, <2>1 DEF SubmitFlip
    <2> QED
      BY <1>0, <1>5, <2>2 DEF SubmitFlip
  <1>6. CASE Return
    BY <1>6 DEF Return
  <1>7. CASE StopVideo
    BY <1>7 DEF StopVideo
  <1>8. CASE BeginCleanup
    <2>1. codec' \in BOOLEAN /\ packet' \in BOOLEAN
      BY <1>8, Zenon DEF BeginCleanup
    <2> QED
      BY <1>8, <2>1 DEF BeginCleanup
  <1>9. CASE CloseDisplay
    <2>1. handle' \in BOOLEAN
      BY <1>9, Zenon DEF CloseDisplay
    <2>2. NoFlip \in Buffers \X Nat
      BY DEF NoFlip, Buffers
    <2> QED
      BY <1>9, <2>1, <2>2 DEF CloseDisplay
  <1>10. CASE FreeBuffers
    BY <1>10 DEF FreeBuffers
  <1>11. CASE Vblank
    <2>1. Head(queue) \in Buffers \X Nat /\ Tail(queue) \in Seq(Buffers \X Nat)
      BY <1>11 DEF Vblank
    <2> QED
      BY <1>11, <2>1 DEF Vblank
  <1>12. CASE Over \/ UNCHANGED vars
    BY <1>12 DEF Over, vars
  <1> QED
    BY <1>1, <1>2, <1>3, <1>4, <1>5, <1>6, <1>7, <1>8, <1>9, <1>10, <1>11,
       <1>12 DEF Next

\* Every step keeps the resources in order.
LEMMA ResourceStep ==
  ASSUME IInv, [Next]_vars
  PROVE  FlipsNeedBuffers' /\ SessionHas'
  <1> USE DEF IInv, FlipsNeedBuffers, SessionHas, ring, display
  <1>1. CASE Setup
    <2>1. shown = NoFlip /\ queue = << >> /\ dec = "idle"
      BY <1>1 DEF Setup
    <2>2. FlipsNeedBuffers'
      BY <1>1, <2>1 DEF Setup
    <2>3. lib' \in { "live", "failed" }
      BY <1>1 DEF Setup
    <2>4. lib' = "live" => handle' /\ fbs' = FB_COUNT /\ codec' /\ packet'
      <3> SUFFICES ASSUME lib' = "live"
                   PROVE  handle' /\ fbs' = FB_COUNT /\ codec' /\ packet'
        OBVIOUS
      <3>1. PICK h, c, p \in BOOLEAN, n \in 0 .. FB_COUNT :
                /\ handle' = h /\ fbs' = n /\ codec' = c /\ packet' = p
                /\ \/ Complete(h, n, c, p) /\ lib' = "live"
                   \/ ~p /\ lib' = "failed"
        BY <1>1 DEF Setup
      <3>2. Complete(h, n, c, p)
        BY <3>1
      <3> QED
        BY <3>1, <3>2, Zenon DEF Complete
    <2> QED
      BY <1>1, <2>1, <2>2, <2>3, <2>4 DEF Setup
  <1>2. CASE Submit
    BY <1>2 DEF Submit
  <1>3. CASE Receive
    BY <1>3 DEF Receive
  <1>4. CASE Blit
    BY <1>4 DEF Blit
  <1>5. CASE SubmitFlip
    BY <1>5 DEF SubmitFlip
  <1>6. CASE Return
    BY <1>6 DEF Return
  <1>7. CASE StopVideo
    BY <1>7 DEF StopVideo
  <1>8. CASE BeginCleanup
    BY <1>8 DEF BeginCleanup
  <1>9. CASE CloseDisplay
    BY <1>9 DEF CloseDisplay
  <1>10. CASE FreeBuffers
    BY <1>10 DEF FreeBuffers, DisplayGone
  <1>11. CASE Vblank
    BY <1>11 DEF Vblank
  <1>12. CASE Over \/ UNCHANGED vars
    BY <1>12 DEF Over, vars
  <1> QED
    BY <1>1, <1>2, <1>3, <1>4, <1>5, <1>6, <1>7, <1>8, <1>9, <1>10, <1>11,
       <1>12 DEF Next

\* Every step keeps the ring and the display's flips in order.
LEMMA RingStep ==
  ASSUME IInv, [Next]_vars
  PROVE  IndexFollows' /\ RingHolds' /\ FlipsBlitted'
  <1>t. TypeOK /\ TypeOK'
    BY TypeStep DEF IInv
  <1>h. head \in Nat /\ head + 1 \in Nat /\ FB_COUNT \in Nat
    BY <1>t, VideoAssumption DEF TypeOK
  <1>n. dec # "flip" => NextIndex = BufferOf(head + 1)
    BY <1>h, BufferOfNext DEF IInv, IndexFollows, NextIndex
  <1>b. BufferOf(head + 1) \in Buffers
    BY <1>h, BufferOfType
  <1>d. \A k \in 1 .. head :
           head + 1 - k < FB_COUNT => BufferOf(k) # BufferOf(head + 1)
    BY <1>h, BuffersDiffer
  <1>1. CASE Receive
    <2>1. IndexFollows'
      BY <1>1 DEF Receive, IInv, IndexFollows
    <2>2. RingHolds'
      BY <1>1, <1>t, <1>h, <1>n, <1>b, <1>d
         DEF Receive, IInv, RingHolds, Newest, TypeOK
    <2>3. FlipsBlitted'
      BY <1>1 DEF Receive, display, IInv, FlipsBlitted, Blitted
    <2> QED
      BY <2>1, <2>2, <2>3
  <1>2. CASE Blit
    <2>1. IndexFollows'
      BY <1>2, <1>h, <1>n DEF Blit, IndexFollows, NextIndex
    <2>2. RingHolds'
      BY <1>2, <1>t, <1>h, <1>n, <1>b, <1>d
         DEF Blit, IInv, RingHolds, Newest, TypeOK
    <2>3. FlipsBlitted'
      BY <1>2, <1>h DEF Blit, display, IInv, FlipsBlitted, Blitted
    <2> QED
      BY <2>1, <2>2, <2>3
  <1>3. CASE SubmitFlip
    <2>1. NextIndex = BufferOf(head)
      BY <1>3 DEF SubmitFlip, IInv, IndexFollows, NextIndex
    <2>2. IndexFollows'
      BY <1>3, <2>1 DEF SubmitFlip, IndexFollows
    <2>3. RingHolds'
      BY <1>3 DEF SubmitFlip, IInv, RingHolds, Newest
    <2>4. << NextIndex, head >> \in Blitted
      BY <1>3, <1>h, <2>1
         DEF SubmitFlip, IInv, IndexFollows, Blitted, FlipOf
    <2>5. Blitted' = Blitted /\ shown' = shown
      BY <1>3 DEF SubmitFlip, Blitted
    <2>6. \A i \in 1 .. Len(queue') : queue'[i] \in Blitted
      BY <1>3, <1>t, <2>4 DEF SubmitFlip, IInv, FlipsBlitted, TypeOK
    <2>7. FlipsBlitted'
      BY <2>5, <2>6 DEF IInv, FlipsBlitted
    <2> QED
      BY <2>2, <2>3, <2>7
  <1>4. CASE CloseDisplay
    BY <1>4 DEF CloseDisplay, ring, IInv, IndexFollows, RingHolds, Newest,
                FlipsBlitted
  <1>5. CASE Vblank
    <2>1. queue \in Seq(Buffers \X Nat) /\ queue # << >>
      BY <1>5, <1>t DEF Vblank, TypeOK
    <2>2. Blitted' = Blitted
      BY <1>5 DEF Vblank, ring, Blitted
    <2>3. shown' \in Blitted
      BY <1>5, <2>1 DEF Vblank, IInv, FlipsBlitted
    <2>4. \A i \in 1 .. Len(queue') : queue'[i] \in Blitted
      <3> SUFFICES ASSUME NEW i \in 1 .. Len(queue') PROVE queue'[i] \in Blitted
        OBVIOUS
      <3>1. i + 1 \in 1 .. Len(queue) /\ queue'[i] = queue[i + 1]
        BY <1>5, <2>1 DEF Vblank
      <3> QED
        BY <3>1 DEF IInv, FlipsBlitted
    <2>5. FlipsBlitted'
      BY <2>2, <2>3, <2>4 DEF FlipsBlitted
    <2> QED
      BY <1>5, <2>5 DEF Vblank, ring, IInv, IndexFollows, RingHolds, Newest
  <1>6. CASE Setup \/ Submit \/ Return \/ StopVideo \/ BeginCleanup
               \/ FreeBuffers \/ Over \/ UNCHANGED vars
    BY <1>6 DEF Setup, Submit, Return, StopVideo, BeginCleanup, FreeBuffers,
                Over, vars, ring, display, IInv, IndexFollows, RingHolds,
                Newest, FlipsBlitted, Blitted
  <1> QED
    BY <1>1, <1>2, <1>3, <1>4, <1>5, <1>6 DEF Next

\* The invariant holds of every behaviour.
LEMMA Inductive == Spec => []IInv
  <1>1. IInv /\ [Next]_vars => IInv'
    BY TypeStep, ResourceStep, RingStep DEF IInv
  <1> QED
    BY <1>1, InitIInv, PTL DEF Spec

\* Type correctness of the state of video.c.
THEOREM TypeCorrect == Spec => []TypeOK
  <1>1. IInv => TypeOK
    BY DEF IInv
  <1> QED
    BY <1>1, Inductive, PTL

\* A frame the display may still show is whole while the decoder is less than
\* FB_COUNT frames ahead of it (video.c:208-219), for every FB_COUNT.
THEOREM FramesStayIntact == Spec => []FramesIntact
  <1>1. IInv => FramesIntact
    <2> SUFFICES ASSUME IInv, NEW flip \in Flips \ { NoFlip },
                        Newest - flip[2] < FB_COUNT
                 PROVE  content[flip[1]] = flip[2]
      BY DEF FramesIntact
    <2>1. flip \in Blitted
      BY DEF Flips, IInv, FlipsBlitted
    <2>2. PICK k \in 1 .. head : flip = FlipOf(k)
      BY <2>1 DEF Blitted
    <2>3. flip[1] = BufferOf(k) /\ flip[2] = k
      BY <2>2 DEF FlipOf
    <2> QED
      BY <2>3 DEF IInv, RingHolds
  <1> QED
    BY <1>1, Inductive, PTL

\* The display never scans a freed buffer (video.c:171-184).
THEOREM ScanoutIsSafe == Spec => []ScanoutSafe
  <1>1. IInv => ScanoutSafe
    <2> SUFFICES ASSUME IInv, NEW flip \in Flips \ { NoFlip }
                 PROVE  flip[1] < fbs
      BY DEF ScanoutSafe
    <2>1. flip[1] \in Buffers
      BY DEF Flips, IInv, TypeOK
    <2>2. shown # NoFlip \/ queue # << >>
      BY DEF Flips
    <2> QED
      BY <2>1, <2>2, VideoAssumption DEF IInv, FlipsNeedBuffers, Buffers
  <1> QED
    BY <1>1, Inductive, PTL

\* A unit is only decoded with everything video_init acquires in place
\* (video.c:186-222).
THEOREM DecodingIsReady == Spec => []DecodeReady
  <1>1. IInv => DecodeReady
    BY DEF IInv, SessionHas, DecodeReady
  <1> QED
    BY <1>1, Inductive, PTL

\* The last frame whose flip has been submitted.
Submitted == IF dec = "flip" THEN head - 1 ELSE head

\* The display has frames in the order they came out of the decoder, with gaps
\* for the flips it refused.
FlipsInOrder ==
    /\ shown[2] <= Submitted
    /\ \A i \in 1 .. Len(queue) :
          /\ shown[2] < queue[i][2] /\ queue[i][2] <= Submitted
          /\ \A j \in 1 .. i - 1 : queue[j][2] < queue[i][2]

\* Every step keeps the display's frames in order.
LEMMA OrderStep ==
  ASSUME IInv, FlipsInOrder, [Next]_vars
  PROVE  FlipsInOrder'
  <1>t. /\ queue \in Seq(Buffers \X Nat) /\ shown \in Buffers \X Nat
        /\ head \in Nat
    BY DEF IInv, TypeOK
  <1>1. CASE Receive
    BY <1>1 DEF Receive, display, FlipsInOrder, Submitted
  <1>2. CASE Blit
    BY <1>2, <1>t DEF Blit, display, FlipsInOrder, Submitted
  <1>3. CASE SubmitFlip
    <2>1. head > 0 /\ Submitted = head - 1 /\ Submitted' = head /\ shown' = shown
      BY <1>3 DEF SubmitFlip, IInv, IndexFollows, Submitted
    <2>2. CASE queue' = queue
      BY <1>t, <2>1, <2>2 DEF FlipsInOrder
    <2>3. CASE queue' = Append(queue, << NextIndex, head >>)
      <3>1. NextIndex \in Buffers
        BY VideoAssumption, DivMod, <1>t DEF NextIndex, Buffers, IInv, TypeOK
      <3>2. /\ Len(queue') = Len(queue) + 1
            /\ \A i \in 1 .. Len(queue) : queue'[i] = queue[i]
            /\ queue'[Len(queue) + 1] = << NextIndex, head >>
        BY <1>t, <2>3, <3>1
      <3>3. \A i \in 1 .. Len(queue) : queue[i][2] \in Nat
        BY <1>t
      <3>4. shown'[2] <= Submitted'
        BY <1>t, <2>1 DEF FlipsInOrder
      <3>5. ASSUME NEW i \in 1 .. Len(queue)
            PROVE  /\ shown'[2] < queue'[i][2] /\ queue'[i][2] <= Submitted'
                   /\ \A j \in 1 .. i - 1 : queue'[j][2] < queue'[i][2]
        <4>1. \A j \in 1 .. i - 1 : j \in 1 .. Len(queue)
          BY <1>t
        <4>2. /\ shown[2] < queue[i][2] /\ queue[i][2] <= Submitted
              /\ \A j \in 1 .. i - 1 : queue[j][2] < queue[i][2]
          BY DEF FlipsInOrder
        <4>3. queue[i][2] <= Submitted'
          BY <1>t, <2>1, <3>3, <4>2 DEF Submitted
        <4> QED
          BY <2>1, <3>2, <4>1, <4>2, <4>3
      <3>6. /\ shown'[2] < head /\ head <= Submitted'
            /\ \A j \in 1 .. Len(queue) : queue'[j][2] < head
        BY <1>t, <2>1, <3>2, <3>3 DEF FlipsInOrder
      <3>7. queue'[Len(queue) + 1][2] = head
        BY <3>2
      <3>8. \A i \in 1 .. Len(queue') :
               i \in 1 .. Len(queue) \/ i = Len(queue) + 1
        BY <1>t, <3>2
      <3>9. (Len(queue) + 1) - 1 = Len(queue)
        BY <1>t
      <3> QED
        BY <3>4, <3>5, <3>6, <3>7, <3>8, <3>9 DEF FlipsInOrder
    <2> QED
      BY <1>3, <2>2, <2>3 DEF SubmitFlip
  <1>4. CASE Vblank
    <2>1. /\ Len(queue') = Len(queue) - 1 /\ Len(queue) \in Nat \ { 0 }
          /\ \A i \in 1 .. Len(queue') : queue'[i] = queue[i + 1]
          /\ shown' = queue[1]
      BY <1>4, <1>t DEF Vblank
    <2>2. Submitted' = Submitted
      BY <1>4 DEF Vblank, ring, Submitted
    <2>3. ASSUME NEW i \in 1 .. Len(queue')
          PROVE  /\ shown'[2] < queue'[i][2] /\ queue'[i][2] <= Submitted
                 /\ \A j \in 1 .. i - 1 : queue'[j][2] < queue'[i][2]
      <3>1. i + 1 \in 1 .. Len(queue) /\ 1 \in 1 .. (i + 1) - 1
        BY <2>1
      <3>2. \A j \in 1 .. i - 1 :
               j + 1 \in 1 .. (i + 1) - 1 /\ j \in 1 .. Len(queue')
        BY <2>1
      <3> QED
        BY <2>1, <3>1, <3>2 DEF FlipsInOrder
    <2>4. shown'[2] <= Submitted
      BY <2>1 DEF FlipsInOrder
    <2> QED
      BY <2>2, <2>3, <2>4 DEF FlipsInOrder
  <1>5. CASE CloseDisplay
    BY <1>5, <1>t DEF CloseDisplay, ring, NoFlip, FlipsInOrder, Submitted, IInv,
                      SessionHas
  <1>6. CASE Setup \/ Submit \/ Return \/ StopVideo \/ BeginCleanup
               \/ FreeBuffers \/ Over \/ UNCHANGED vars
    BY <1>6 DEF Setup, Submit, Return, StopVideo, BeginCleanup, FreeBuffers,
                Over, vars, ring, display, FlipsInOrder, Submitted
  <1> QED
    BY <1>1, <1>2, <1>3, <1>4, <1>5, <1>6 DEF Next

\* The picture goes forward for every ring, every queue and every pace of the
\* display (video.c:208-219).
THEOREM PictureNeverGoesBack == Spec => PictureGoesForward
  <1>1. Init => FlipsInOrder
    BY DEF Init, FlipsInOrder, Submitted, NoFlip
  <1>2. IInv /\ FlipsInOrder /\ [Next]_vars => FlipsInOrder'
    BY OrderStep
  <1>3. ASSUME IInv, FlipsInOrder, Next, shown' \notin { shown, NoFlip }
        PROVE  /\ shown[2] < shown'[2]
               /\ shown # NoFlip /\ Newest - shown[2] < FB_COUNT
                  => content[shown[1]] < content'[shown'[1]]
    <2>1. Vblank
      BY <1>3 DEF Next, Setup, Submit, Receive, Blit, SubmitFlip, Return,
                  StopVideo, BeginCleanup, CloseDisplay, FreeBuffers, Over,
                  display, vars
    <2>2. /\ shown' = queue[1] /\ 1 \in 1 .. Len(queue)
          /\ queue \in Seq(Buffers \X Nat) /\ content' = content
      BY <1>3, <2>1 DEF Vblank, ring, IInv, TypeOK
    <2>3. shown[2] < shown'[2]
      BY <1>3, <2>2 DEF FlipsInOrder
    <2>4. ASSUME shown # NoFlip, Newest - shown[2] < FB_COUNT
          PROVE  content[shown[1]] < content'[shown'[1]]
      <3>1. PICK k \in 1 .. head : shown = FlipOf(k)
        BY <1>3, <2>4 DEF IInv, FlipsBlitted, Blitted
      <3>2. PICK m \in 1 .. head : shown' = FlipOf(m)
        BY <1>3, <2>2 DEF IInv, FlipsBlitted, Blitted
      <3>3. k < m /\ Newest - k < FB_COUNT
        BY <2>3, <2>4, <3>1, <3>2 DEF FlipOf
      <3>4. head \in Nat /\ Newest \in Nat /\ FB_COUNT \in Nat
        BY <1>3, VideoAssumption DEF IInv, TypeOK, Newest
      <3>5. content[BufferOf(k)] = k /\ content[BufferOf(m)] = m
        BY <1>3, <3>3, <3>4 DEF IInv, RingHolds
      <3> QED
        BY <2>2, <3>1, <3>2, <3>3, <3>5 DEF FlipOf
    <2> QED
      BY <2>3, <2>4
  <1>4. IInv /\ FlipsInOrder /\ [Next]_vars =>
          [shown' \notin { shown, NoFlip } =>
             /\ shown[2] < shown'[2]
             /\ shown # NoFlip /\ Newest - shown[2] < FB_COUNT
                => content[shown[1]] < content'[shown'[1]]]_vars
    BY <1>3
  <1> QED
    BY <1>1, <1>2, <1>4, Inductive, PTL DEF Spec, PictureGoesForward

(***************************************************************************)
(* Audio.                                                                   *)
(***************************************************************************)

\* The buffer of packet n.
SlotOf(n) == (n - 1) % AUDIO_BUF_FRAMES

\* Quotient and remainder of a packet's place.
LEMMA SlotDivision ==
  ASSUME NEW n \in Nat
  PROVE  \E q \in Int : SlotOf(n) \in Slots
                        /\ n - 1 = AUDIO_BUF_FRAMES * q + SlotOf(n)
  <1> DEFINE q == (n - 1) \div AUDIO_BUF_FRAMES
  <1>1. AUDIO_BUF_FRAMES \in Nat /\ AUDIO_BUF_FRAMES > 0 /\ n - 1 \in Int
    BY AudioAssumption
  <1>2. q \in Int /\ SlotOf(n) \in Slots
        /\ n - 1 = AUDIO_BUF_FRAMES * q + SlotOf(n)
    BY <1>1 DEF SlotOf, Slots
  <1> QED
    BY <1>2

\* There is one remainder.
LEMMA OneSlot ==
  ASSUME NEW k \in Int, NEW q \in Int, NEW r \in Slots,
         k = AUDIO_BUF_FRAMES * q + r
  PROVE  k % AUDIO_BUF_FRAMES = r
  <1>1. AUDIO_BUF_FRAMES \in Nat /\ AUDIO_BUF_FRAMES > 0
        /\ r \in Int /\ 0 <= r /\ r < AUDIO_BUF_FRAMES
    BY AudioAssumption DEF Slots
  <1> QED
    BY <1>1

\* The index after a packet's buffer is that of the next packet (audio.c:93).
LEMMA SlotOfNext ==
  ASSUME NEW n \in Nat
  PROVE  (SlotOf(n) + 1) % AUDIO_BUF_FRAMES = SlotOf(n + 1)
  <1> DEFINE r == SlotOf(n)
  <1>1. PICK q \in Int : r \in Slots /\ n - 1 = AUDIO_BUF_FRAMES * q + r
    BY SlotDivision
  <1>2. AUDIO_BUF_FRAMES \in Nat /\ AUDIO_BUF_FRAMES > 0 /\ 0 \in Slots
    BY AudioAssumption DEF Slots
  <1> HIDE DEF r
  <1>3. CASE r + 1 < AUDIO_BUF_FRAMES
    <2>1. r + 1 \in Slots /\ r + 1 \in Int /\ n \in Int
          /\ n = AUDIO_BUF_FRAMES * q + (r + 1)
          /\ r + 1 = AUDIO_BUF_FRAMES * 0 + (r + 1)
      BY <1>1, <1>2, <1>3 DEF Slots
    <2>2. n % AUDIO_BUF_FRAMES = r + 1
          /\ (r + 1) % AUDIO_BUF_FRAMES = r + 1
      BY <1>1, <2>1, OneSlot
    <2>3. (n + 1) - 1 = n
      OBVIOUS
    <2> QED
      BY <2>2, <2>3 DEF SlotOf, r
  <1>4. CASE r + 1 = AUDIO_BUF_FRAMES
    <2>1. r + 1 \in Int /\ n \in Int /\ q + 1 \in Int
          /\ n = AUDIO_BUF_FRAMES * (q + 1) + 0
          /\ r + 1 = AUDIO_BUF_FRAMES * 1 + 0
      BY <1>1, <1>2, <1>4 DEF Slots
    <2>2. n % AUDIO_BUF_FRAMES = 0 /\ (r + 1) % AUDIO_BUF_FRAMES = 0
      BY <1>2, <2>1, OneSlot
    <2>3. (n + 1) - 1 = n
      OBVIOUS
    <2> QED
      BY <2>2, <2>3 DEF SlotOf, r
  <1> QED
    BY <1>1, <1>2, <1>3, <1>4 DEF Slots

\* Packets less than AUDIO_BUF_FRAMES apart never share a buffer.
LEMMA SlotsDiffer ==
  ASSUME NEW a \in Nat, NEW b \in Nat, b < a, a - b < AUDIO_BUF_FRAMES
  PROVE  SlotOf(a) # SlotOf(b)
  <1> SUFFICES ASSUME SlotOf(a) = SlotOf(b) PROVE FALSE
    OBVIOUS
  <1>1. PICK qa \in Int : SlotOf(a) \in Slots
                          /\ a - 1 = AUDIO_BUF_FRAMES * qa + SlotOf(a)
    BY SlotDivision
  <1>2. PICK qb \in Int : b - 1 = AUDIO_BUF_FRAMES * qb + SlotOf(a)
    BY SlotDivision
  <1>3. AUDIO_BUF_FRAMES \in Nat /\ AUDIO_BUF_FRAMES > 0 /\ SlotOf(a) \in Int
    BY <1>1, AudioAssumption DEF Slots
  <1>4. a - b = AUDIO_BUF_FRAMES * (qa - qb)
    BY <1>1, <1>2, <1>3
  <1>5. qa - qb >= 1 => AUDIO_BUF_FRAMES * (qa - qb) >= AUDIO_BUF_FRAMES
    BY <1>3
  <1>6. qa - qb <= 0 => AUDIO_BUF_FRAMES * (qa - qb) <= 0
    BY <1>3
  <1> QED
    BY <1>3, <1>4, <1>5, <1>6

------------------------------------------------------------------------------

\* The ring is where the last packet left it.
WriteFollows ==
    /\ write = SlotOf(last + 1)
    /\ play = "output" => last > 0 /\ out = SlotOf(last)

\* How many packets have been handed to the port, taken or refused.
Played == IF play = "output" THEN last - 1 ELSE last

\* The port holds packets that were handed to it, each in its buffer, and those
\* after one of them were handed to it as well.
HeldInOrder ==
    /\ Len(held) <= PortDepth
    /\ \A i \in 1 .. Len(held) :
          /\ held[i][2] > 0
          /\ held[i][1] = SlotOf(held[i][2])
          /\ held[i][2] + (Len(held) - i) <= Played

\* The buffers of the newest packets hold them.
NewestSound ==
    \A n \in 1 .. last :
        last - n < AUDIO_BUF_FRAMES => sound[SlotOf(n)] = n

\* What can be played, and what the port can hold, at each stage.
AudioHas ==
    /\ play # "idle" => audio = "live"
    /\ audio = "live" => opus /\ pcm /\ port /\ rings = AUDIO_BUF_FRAMES
    /\ audio \in { "idle", "closing", "freed", "closed" } => ~opus /\ ~pcm
    /\ audio \in { "idle", "freed", "closed" } => rings = 0
    /\ audio \in { "idle", "closed" } => ~port
    /\ held # << >> => port /\ (rings = AUDIO_BUF_FRAMES \/ audio = "freed")

\* The inductive invariant of audio.c and its port.
AudioIInv ==
    /\ AudioTypeOK
    /\ WriteFollows
    /\ HeldInOrder
    /\ NewestSound
    /\ AudioHas

------------------------------------------------------------------------------

\* The state before audio_init.
LEMMA AudioInitIInv == AudioInit => AudioIInv
  <1> SUFFICES ASSUME AudioInit PROVE AudioIInv
    OBVIOUS
  <1> USE AudioAssumption DEF AudioInit
  <1>1. 0 \in Slots /\ SlotOf(1) = 0
    <2>1. 0 \in Slots
      BY DEF Slots
    <2>2. AUDIO_BUF_FRAMES * 0 + 0 = 0
      OBVIOUS
    <2>3. 0 % AUDIO_BUF_FRAMES = 0
      BY <2>1, <2>2, OneSlot
    <2> QED
      BY <2>1, <2>3 DEF SlotOf
  <1>2. AudioTypeOK
    <2>1. opus \in BOOLEAN /\ pcm \in BOOLEAN /\ port \in BOOLEAN
      BY Zenon
    <2>2. sound \in [ Slots -> Nat ]
      BY DEF Silence
    <2> QED
      BY <1>1, <2>1, <2>2 DEF AudioTypeOK, AudioStates
  <1>3. WriteFollows /\ HeldInOrder /\ NewestSound
    BY <1>1 DEF WriteFollows, HeldInOrder, NewestSound, Played
  <1>4. AudioHas
    BY DEF AudioHas
  <1> QED
    BY <1>2, <1>3, <1>4 DEF AudioIInv

\* A packet is decoded (audio.c:83-104).
LEMMA DecodeStep == ASSUME AudioIInv, Decode PROVE AudioIInv'
  <1>1. sound' = [ sound EXCEPT ![write] = last + 1 ]
    BY DEF Decode
  <1>2. /\ audio = "live" /\ play = "idle" /\ play' = "output"
        /\ last' = last + 1 /\ out' = write /\ write' = NextSlot
        /\ UNCHANGED << audio, opus, pcm, rings, port, held >>
    BY DEF Decode, audioParts
  <1>3. /\ AudioTypeOK /\ AUDIO_BUF_FRAMES \in Nat /\ AUDIO_BUF_FRAMES > 0
        /\ last \in Nat /\ last + 1 \in Nat
    BY AudioAssumption DEF AudioIInv, AudioTypeOK
  <1>4. write = SlotOf(last + 1) /\ write \in Slots
    BY <1>3 DEF AudioIInv, WriteFollows, AudioTypeOK
  <1>5. write' = SlotOf(last + 2) /\ write' \in Slots
    <2>1. (last + 1) + 1 = last + 2 /\ last + 2 \in Nat
      BY <1>3
    <2>2. write' = SlotOf(last + 2)
      BY <1>2, <1>3, <1>4, <2>1, SlotOfNext DEF NextSlot
    <2> QED
      BY <2>1, <2>2, SlotDivision
  <1>6. /\ sound' \in [ Slots -> Nat ]
        /\ sound'[write] = last + 1
        /\ \A s \in Slots : s # write => sound'[s] = sound[s]
    BY <1>1, <1>3, <1>4 DEF AudioTypeOK
  <1>7. AudioTypeOK'
    BY <1>2, <1>3, <1>4, <1>5, <1>6 DEF AudioTypeOK
  <1>8. WriteFollows'
    <2>1. last' + 1 = last + 2 /\ last' > 0
      BY <1>2, <1>3
    <2> QED
      BY <1>2, <1>4, <1>5, <2>1 DEF WriteFollows
  <1>9. HeldInOrder'
    <2>1. Played' = Played
      BY <1>2, <1>3 DEF Played
    <2> QED
      BY <1>2, <2>1 DEF AudioIInv, HeldInOrder
  <1>10. NewestSound'
    <2> SUFFICES ASSUME NEW n \in 1 .. last + 1,
                        last + 1 - n < AUDIO_BUF_FRAMES
                 PROVE  sound'[SlotOf(n)] = n
      BY <1>2, <1>3 DEF NewestSound
    <2>1. CASE n = last + 1
      BY <1>4, <1>6, <2>1
    <2>2. CASE n # last + 1
      <3>1. n \in 1 .. last /\ n \in Nat /\ last - n < AUDIO_BUF_FRAMES
        BY <1>3, <2>2
      <3>2. sound[SlotOf(n)] = n
        BY <3>1 DEF AudioIInv, NewestSound
      <3>3. SlotOf(n) # SlotOf(last + 1)
        BY <1>3, <3>1, SlotsDiffer
      <3>4. SlotOf(n) \in Slots
        BY <3>1, SlotDivision
      <3> QED
        BY <1>4, <1>6, <3>2, <3>3, <3>4
    <2> QED
      BY <2>1, <2>2
  <1>11. AudioHas'
    BY <1>2 DEF AudioIInv, AudioHas
  <1> QED
    BY <1>7, <1>8, <1>9, <1>10, <1>11 DEF AudioIInv

\* A packet is handed to the port, which takes it (audio.c:104).
LEMMA OutputStep == ASSUME AudioIInv, Output PROVE AudioIInv'
  <1>1. /\ play = "output" /\ play' = "idle" /\ Len(held) < PortDepth
        /\ held' = Append(held, << out, last >>)
        /\ UNCHANGED << audio, opus, pcm, rings, port, write, out, last, sound >>
    BY DEF Output, audioParts, outputRing
  <1>2. /\ AudioTypeOK /\ held \in Seq(Slots \X Nat) /\ last \in Nat /\ last > 0
        /\ out \in Slots /\ out = SlotOf(last) /\ PortDepth \in Nat
    BY <1>1, AudioAssumption DEF AudioIInv, AudioTypeOK, WriteFollows
  <1>3. /\ held' \in Seq(Slots \X Nat) /\ Len(held') = Len(held) + 1
        /\ \A i \in 1 .. Len(held) : held'[i] = held[i]
        /\ held'[Len(held) + 1] = << SlotOf(last), last >>
        /\ Len(held) \in Nat
    BY <1>1, <1>2
  <1>4. AudioTypeOK'
    BY <1>1, <1>2, <1>3 DEF AudioTypeOK
  <1>5. WriteFollows' /\ NewestSound'
    BY <1>1 DEF AudioIInv, WriteFollows, NewestSound
  <1>6. HeldInOrder'
    <2>1. Played = last - 1 /\ Played' = last
      BY <1>1 DEF Played
    <2>2. Len(held') <= PortDepth
      BY <1>1, <1>2, <1>3
    <2>3. ASSUME NEW i \in 1 .. Len(held')
          PROVE  /\ held'[i][2] > 0
                 /\ held'[i][1] = SlotOf(held'[i][2])
                 /\ held'[i][2] + (Len(held') - i) <= last
      <3>1. CASE i = Len(held) + 1
        BY <1>2, <1>3, <3>1
      <3>2. CASE i # Len(held) + 1
        <4>1. i \in 1 .. Len(held) /\ held[i][2] \in Nat
          BY <1>2, <1>3, <3>2
        <4>2. held'[i] = held[i] /\ held[i][2] > 0
              /\ held[i][1] = SlotOf(held[i][2])
              /\ held[i][2] + (Len(held) - i) <= last - 1
          BY <1>3, <2>1, <4>1 DEF AudioIInv, HeldInOrder
        <4>3. Len(held') - i = (Len(held) - i) + 1
          BY <1>3, <4>1
        <4>4. held'[i][2] + (Len(held') - i) <= last
          <5> DEFINE n == held[i][2]
                     k == Len(held) - i
          <5>1. n \in Int /\ k \in Int /\ n + k <= last - 1
            BY <1>3, <4>1, <4>2
          <5> HIDE DEF n, k
          <5>2. n + (k + 1) <= last
            BY <1>2, <5>1
          <5> QED
            BY <4>2, <4>3, <5>2 DEF n, k
        <4> QED
          BY <4>2, <4>4
      <3> QED
        BY <3>1, <3>2
    <2> QED
      BY <2>1, <2>2, <2>3 DEF HeldInOrder
  <1>7. AudioHas'
    BY <1>1 DEF AudioIInv, AudioHas
  <1> QED
    BY <1>4, <1>5, <1>6, <1>7 DEF AudioIInv

\* A packet is handed to the port, which refuses it (audio.c:104).
LEMMA RefusedStep == ASSUME AudioIInv, OutputFails PROVE AudioIInv'
  <1>1. /\ play = "output" /\ play' = "idle"
        /\ UNCHANGED << audio, opus, pcm, rings, port, write, out, last, sound,
                        held >>
    BY DEF OutputFails, audioParts, outputRing
  <1>2. last \in Nat /\ held \in Seq(Slots \X Nat)
    BY DEF AudioIInv, AudioTypeOK
  <1>3. AudioTypeOK'
    BY <1>1 DEF AudioIInv, AudioTypeOK
  <1>4. WriteFollows' /\ NewestSound' /\ AudioHas'
    BY <1>1 DEF AudioIInv, WriteFollows, NewestSound, AudioHas
  <1>5. HeldInOrder'
    <2>1. Played = last - 1 /\ Played' = last
      BY <1>1 DEF Played
    <2>2. ASSUME NEW i \in 1 .. Len(held)
          PROVE  held[i][2] + (Len(held) - i) <= last
      <3>1. held[i][2] \in Nat /\ Len(held) \in Nat
        BY <1>2
      <3> QED
        BY <1>2, <2>1, <3>1 DEF AudioIInv, HeldInOrder
    <2> QED
      BY <1>1, <2>1, <2>2 DEF AudioIInv, HeldInOrder
  <1> QED
    BY <1>3, <1>4, <1>5 DEF AudioIInv

\* The port has played a buffer.
LEMMA PortStep == ASSUME AudioIInv, PortPlays PROVE AudioIInv'
  <1>1. /\ held # << >> /\ held' = Tail(held)
        /\ UNCHANGED << audio, opus, pcm, rings, port, play, write, out, last,
                        sound >>
    BY DEF PortPlays, audioParts, outputRing
  <1>2. AudioTypeOK /\ held \in Seq(Slots \X Nat) /\ PortDepth \in Nat
    BY AudioAssumption DEF AudioIInv, AudioTypeOK
  <1>3. /\ held' \in Seq(Slots \X Nat) /\ Len(held) \in Nat
        /\ Len(held') = Len(held) - 1
        /\ \A i \in 1 .. Len(held') : i + 1 \in 1 .. Len(held)
                                      /\ held'[i] = held[i + 1]
    BY <1>1, <1>2
  <1>4. AudioTypeOK'
    BY <1>1, <1>2, <1>3 DEF AudioTypeOK
  <1>5. WriteFollows' /\ NewestSound'
    BY <1>1 DEF AudioIInv, WriteFollows, NewestSound
  <1>6. HeldInOrder'
    <2>1. Played' = Played
      BY <1>1 DEF Played
    <2>2. Len(held') <= PortDepth
      BY <1>2, <1>3 DEF AudioIInv, HeldInOrder
    <2>3. ASSUME NEW i \in 1 .. Len(held')
          PROVE  /\ held'[i][2] > 0
                 /\ held'[i][1] = SlotOf(held'[i][2])
                 /\ held'[i][2] + (Len(held') - i) <= Played
      <3>1. i + 1 \in 1 .. Len(held) /\ held'[i] = held[i + 1]
            /\ Len(held) - (i + 1) = Len(held') - i
        BY <1>3
      <3> QED
        BY <3>1 DEF AudioIInv, HeldInOrder
    <2> QED
      BY <2>1, <2>2, <2>3 DEF HeldInOrder
  <1>7. AudioHas'
    BY <1>1 DEF AudioIInv, AudioHas
  <1> QED
    BY <1>4, <1>5, <1>6, <1>7 DEF AudioIInv

\* Setting up, stopping and cleaning up leave the ring alone.
LEMMA PartsStep ==
  ASSUME AudioIInv,
         OpenAudio \/ StopAudio \/ CloseDecoder \/ FreeRing \/ ClosePort
  PROVE  AudioIInv'
  <1>1. /\ UNCHANGED << play, write, out, last, sound >>
        /\ held' \in { held, << >> }
    BY DEF OpenAudio, StopAudio, CloseDecoder, FreeRing, ClosePort, outputRing
  <1>2. AudioTypeOK'
    <2>1. /\ opus' \in BOOLEAN /\ pcm' \in BOOLEAN /\ port' \in BOOLEAN
          /\ rings' \in 0 .. AUDIO_BUF_FRAMES /\ audio' \in AudioStates
      <3> USE DEF AudioIInv, AudioTypeOK, AudioStates, audioParts
      <3>1. CASE OpenAudio
        BY <3>1 DEF OpenAudio
      <3>2. CASE StopAudio
        BY <3>2 DEF StopAudio
      <3>3. CASE CloseDecoder
        <4>1. opus' \in BOOLEAN /\ pcm' \in BOOLEAN
          BY <3>3, Zenon DEF CloseDecoder
        <4> QED
          BY <3>3, <4>1 DEF CloseDecoder
      <3>4. CASE FreeRing
        BY <3>4, AudioAssumption DEF FreeRing
      <3>5. CASE ClosePort
        <4>1. port' \in BOOLEAN
          BY <3>5, Zenon DEF ClosePort, ClosedPort
        <4> QED
          BY <3>5, <4>1 DEF ClosePort
      <3> QED
        BY <3>1, <3>2, <3>3, <3>4, <3>5
    <2>2. held \in Seq(Slots \X Nat) /\ << >> \in Seq(Slots \X Nat)
      BY DEF AudioIInv, AudioTypeOK
    <2> QED
      BY <1>1, <2>1, <2>2 DEF AudioIInv, AudioTypeOK
  <1>3. WriteFollows' /\ NewestSound'
    BY <1>1 DEF AudioIInv, WriteFollows, NewestSound
  <1>4. HeldInOrder'
    <2>1. Played' = Played
      BY <1>1 DEF Played
    <2>2. CASE held' = held
      BY <2>1, <2>2 DEF AudioIInv, HeldInOrder
    <2>3. CASE held' = << >>
      BY <2>1, <2>3, AudioAssumption DEF HeldInOrder
    <2> QED
      BY <1>1, <2>2, <2>3
  <1>5. AudioHas'
    <2> USE DEF AudioIInv, AudioHas, audioParts
    <2>1. CASE OpenAudio
      <3>1. held = << >> /\ held' = << >>
        BY <2>1 DEF OpenAudio
      <3>2. audio' = "live" => opus' /\ pcm' /\ port'
                               /\ rings' = AUDIO_BUF_FRAMES
        BY <2>1 DEF OpenAudio
      <3>3. audio' \in { "live", "failed" } /\ play' = "idle"
        BY <2>1 DEF OpenAudio
      <3> QED
        BY <3>1, <3>2, <3>3
    <2>2. CASE StopAudio
      BY <2>2 DEF StopAudio
    <2>3. CASE CloseDecoder
      BY <2>3 DEF CloseDecoder
    <2>4. CASE FreeRing
      BY <2>4 DEF FreeRing
    <2>5. CASE ClosePort
      BY <2>5 DEF ClosePort, ClosedPort
    <2> QED
      BY <2>1, <2>2, <2>3, <2>4, <2>5
  <1> QED
    BY <1>2, <1>3, <1>4, <1>5 DEF AudioIInv

\* The invariant holds of every behaviour.
LEMMA AudioInductive == AudioSpec => []AudioIInv
  <1>1. ASSUME AudioIInv, [AudioNext]_audioVars PROVE AudioIInv'
    <2>1. CASE AudioOver \/ UNCHANGED audioVars
      <3>1. UNCHANGED audioVars
        BY <2>1 DEF AudioOver
      <3>2. AudioTypeOK'
        BY <1>1, <3>1, Zenon DEF AudioIInv, AudioTypeOK, audioVars
      <3>3. WriteFollows' /\ HeldInOrder' /\ NewestSound' /\ AudioHas'
        BY <1>1, <3>1
           DEF audioVars, AudioIInv, WriteFollows, HeldInOrder, Played,
               NewestSound, AudioHas
      <3> QED
        BY <3>2, <3>3 DEF AudioIInv
    <2> QED
      BY <1>1, <2>1, DecodeStep, OutputStep, RefusedStep, PortStep, PartsStep
         DEF AudioNext
  <1> QED
    BY <1>1, AudioInitIInv, PTL DEF AudioSpec

\* Type correctness of the state of audio.c.
THEOREM AudioTypeCorrect == AudioSpec => []AudioTypeOK
  <1>1. AudioIInv => AudioTypeOK
    BY DEF AudioIInv
  <1> QED
    BY <1>1, AudioInductive, PTL

\* No packet is decoded over one that the port still holds before it has refused
\* as many as the ring is longer than the port (audio.c:92-104), for every ring
\* and every port.
THEOREM RingStaysIntact == AudioSpec => []RingIntact
  <1>1. AudioIInv => RingIntact
    <2> SUFFICES ASSUME AudioIInv, NEW i \in 1 .. Len(held),
                        FailedSince(i) < AUDIO_BUF_FRAMES - PortDepth
                 PROVE  sound[held[i][1]] = held[i][2]
      BY DEF RingIntact
    <2>1. /\ held \in Seq(Slots \X Nat) /\ last \in Nat /\ Len(held) \in Nat
          /\ AUDIO_BUF_FRAMES \in Nat /\ PortDepth \in Nat
      BY AudioAssumption DEF AudioIInv, AudioTypeOK
    <2>2. held[i][2] \in Nat /\ held[i][2] > 0
          /\ held[i][1] = SlotOf(held[i][2]) /\ Len(held) <= PortDepth
          /\ held[i][2] + (Len(held) - i) <= Played
      BY <2>1 DEF AudioIInv, HeldInOrder
    <2>3. held[i][2] \in 1 .. last
      BY <2>1, <2>2 DEF Played
    <2>4. last - held[i][2] < AUDIO_BUF_FRAMES
      <3>1. (last - held[i][2]) - (Len(held) - i) - 1
                < AUDIO_BUF_FRAMES - PortDepth
        BY <2>1, <2>2 DEF FailedSince
      <3> QED
        BY <2>1, <2>2, <3>1
    <2> QED
      BY <2>2, <2>3, <2>4 DEF AudioIInv, NewestSound
  <1> QED
    BY <1>1, AudioInductive, PTL

\* The port holds freed buffers in the middle of audio_cleanup only
\* (audio.c:73-79), whatever part of audio_init failed before it.
THEOREM FreedIsNotPlayed == AudioSpec => []FreedOnlyWhileClosing
  <1>1. AudioIInv => FreedOnlyWhileClosing
    <2> SUFFICES ASSUME AudioIInv, NEW i \in 1 .. Len(held), audio # "freed"
                 PROVE  held[i][1] < rings
      BY DEF FreedOnlyWhileClosing
    <2>1. held \in Seq(Slots \X Nat) /\ held # << >>
      BY DEF AudioIInv, AudioTypeOK
    <2>2. rings = AUDIO_BUF_FRAMES
      BY <2>1 DEF AudioIInv, AudioHas
    <2>3. held[i][1] \in Slots
      BY <2>1
    <2> QED
      BY <2>2, <2>3, AudioAssumption DEF Slots
  <1> QED
    BY <1>1, AudioInductive, PTL

==============================================================================
