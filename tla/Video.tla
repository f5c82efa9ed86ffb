-------------------------------- MODULE Video --------------------------------
(***************************************************************************)
(* src/moonlight-ps5/src/video.c: setting up the display and the decoder,   *)
(* decoding access units into a ring of FB_COUNT framebuffers, and tearing  *)
(* everything down, beside a display that scans the buffers out.            *)
(*                                                                          *)
(* Frames are numbered in the order the decoder gives them out, and a       *)
(* buffer holds the number of the frame blitted into it.                    *)
(*                                                                          *)
(* External: the library that calls setup, submitDecodeUnit and cleanup,    *)
(* one at a time; FFmpeg's decoder; sceVideoOut, with its queue of flips.   *)
(***************************************************************************)
EXTENDS Integers, Sequences

CONSTANTS
    FB_COUNT,       \* framebuffers
    QueueMax,       \* flips the display keeps before it refuses one
    Delay,          \* bound: frames the decoder gives out for one unit
    MaxFrames       \* bound: frames of a session

ASSUME VideoAssumption ==
    /\ FB_COUNT \in Nat \ { 0 }
    /\ QueueMax \in Nat
    /\ Delay \in Nat
    /\ MaxFrames \in Nat

VARIABLES
    lib,        \* what the library has called
    handle,     \* s_video_handle is >= 0
    fbs,        \* how many framebuffers are allocated: a prefix of s_fb
    codec,      \* s_codec_ctx is set
    packet,     \* s_pkt and s_frame are set
    dec,        \* where submitDecodeUnit is
    pending,    \* frames the decoder still holds for this unit
    index,      \* s_fb_index
    head,       \* the number of the last frame blitted
    content,    \* what each buffer holds
    queue,      \* flips the display has accepted: << buffer, frame >>
    shown       \* the flip the display has performed last

vars == << lib, handle, fbs, codec, packet, dec, pending, index, head, content,
           queue, shown >>
ring == << index, head, content >>
display == << queue, shown >>

Buffers == 0 .. FB_COUNT - 1
Torn    == -1       \* a buffer in the middle of a blit
Black   == 0        \* a buffer that memset has cleared
Frames  == Nat \ { 0 }
NoFlip  == << 0, 0 >>

LibStates == { "idle", "live", "stopped", "failed", "cleaning", "cleaned" }
DecStates == { "idle", "receive", "blit", "flip" }

Init ==
    /\ lib = "idle"
    /\ handle = FALSE /\ fbs = 0 /\ codec = FALSE /\ packet = FALSE
    /\ dec = "idle" /\ pending = 0
    /\ index = 0 /\ head = 0
    /\ content = [ b \in Buffers |-> Black ]
    /\ queue = << >> /\ shown = NoFlip

(***************************************************************************)
(* video_init                                                               *)
(***************************************************************************)

\* Mutant: the packet is not looked at before success is returned.
Complete_NoPacket(h, n, c, p) == h /\ n = FB_COUNT /\ c

\* What a successful video_init has got.
Complete(h, n, c, p) == h /\ n = FB_COUNT /\ c /\ p

\* Resources are acquired in this order: the display (five users on two buses,
\* then the system call), the buffers, the codec context, packet and frame.
\* Each failure returns -1 and keeps what was acquired before it.
\* Registering the buffers, finding the codec and opening it acquire nothing
\* and may fail as well.
Setup ==
    /\ lib = "idle"
    /\ \E h, c, p \in BOOLEAN, n \in 0 .. FB_COUNT :
         /\ n > 0 => h
         /\ c => n = FB_COUNT
         /\ p => c
         /\ handle' = h /\ fbs' = n /\ codec' = c /\ packet' = p
         /\ \/ Complete(h, n, c, p) /\ lib' = "live"
            \/ ~p /\ lib' = "failed"
    /\ UNCHANGED << dec, pending, ring, display >>

(***************************************************************************)
(* video_submit_decode_unit                                                 *)
(***************************************************************************)

\* A unit becomes a packet and is sent to the decoder, which may then give out
\* frames.  A packet that cannot be made or sent only asks for a key frame.
Submit ==
    /\ lib = "live" /\ dec = "idle"
    /\ codec
    /\ dec' = "receive"
    /\ pending' \in 0 .. Delay
    /\ UNCHANGED << lib, handle, fbs, codec, packet, ring, display >>

\* Mutant: the ring is one buffer shorter than its registration.
NextIndex_Short == IF index + 2 >= FB_COUNT THEN 0 ELSE index + 1

\* (s_fb_index + 1) % FB_COUNT
NextIndex == (index + 1) % FB_COUNT

\* A frame comes out: the blit into the next buffer begins, whatever the
\* display still does with it ...
Receive ==
    /\ dec = "receive"
    /\ pending > 0 /\ head < MaxFrames
    /\ dec' = "blit"
    /\ pending' = pending - 1
    /\ content' = [ content EXCEPT ![NextIndex] = Torn ]
    /\ UNCHANGED << lib, handle, fbs, codec, packet, index, head, display >>

\* ... and ends ...
Blit ==
    /\ dec = "blit"
    /\ dec' = "flip"
    /\ head' = head + 1
    /\ content' = [ content EXCEPT ![NextIndex] = head + 1 ]
    /\ UNCHANGED << lib, handle, fbs, codec, packet, pending, index, display >>

\* ... and the flip is submitted.  The ring advances even when the display
\* refuses it: the result is not looked at.
SubmitFlip ==
    /\ dec = "flip"
    /\ dec' = "receive"
    /\ index' = NextIndex
    /\ queue' = IF Len(queue) < QueueMax
                THEN Append(queue, << NextIndex, head >>)
                ELSE queue
    /\ UNCHANGED << lib, handle, fbs, codec, packet, pending, head, content,
                    shown >>

\* Mutant: no frame yet is taken for try again.
Return_WithFrame ==
    /\ dec = "receive"
    /\ pending = 0 \/ head = MaxFrames
    /\ head > 0
    /\ dec' = "idle"
    /\ pending' = 0
    /\ UNCHANGED << lib, handle, fbs, codec, packet, ring, display >>

\* avcodec_receive_frame has no more frames.
Return ==
    /\ dec = "receive"
    /\ pending = 0 \/ head = MaxFrames
    /\ dec' = "idle"
    /\ pending' = 0
    /\ UNCHANGED << lib, handle, fbs, codec, packet, ring, display >>

(***************************************************************************)
(* video_cleanup and the display.                                           *)
(***************************************************************************)

\* The library stops submitting before it cleans up.
StopVideo ==
    /\ lib = "live" /\ dec = "idle"
    /\ lib' = "stopped"
    /\ UNCHANGED << handle, fbs, codec, packet, dec, pending, ring, display >>

\* video_cleanup begins with the decoder: the library calls it after a session,
\* and may call it after a setup that failed half way.
BeginCleanup ==
    /\ lib \in { "stopped", "failed" }
    /\ lib' = "cleaning"
    /\ codec' = FALSE /\ packet' = FALSE
    /\ UNCHANGED << handle, fbs, dec, pending, ring, display >>

\* The display, if it was opened, is closed and lets go of its buffers ...
CloseDisplay ==
    /\ lib = "cleaning" /\ handle
    /\ handle' = FALSE
    /\ queue' = << >> /\ shown' = NoFlip
    /\ UNCHANGED << lib, fbs, codec, packet, dec, pending, ring >>

\* Mutant: the buffers go as soon as the decoder has.
DisplayGone_Decoder == ~codec

\* The handle is negative by now.
DisplayGone == ~handle

\* ... which are freed last, as many as there are.
FreeBuffers ==
    /\ lib = "cleaning" /\ DisplayGone
    /\ lib' = "cleaned"
    /\ fbs' = 0
    /\ UNCHANGED << handle, codec, packet, dec, pending, ring, display >>

\* The display performs the oldest flip at a vertical blank.
Vblank ==
    /\ handle
    /\ queue # << >>
    /\ shown' = Head(queue)
    /\ queue' = Tail(queue)
    /\ UNCHANGED << lib, handle, fbs, codec, packet, dec, pending, ring >>

\* A session may be over.
Over ==
    /\ lib \in { "failed", "cleaned" }
    /\ UNCHANGED vars

Next == \/ Setup \/ Submit \/ Receive \/ Blit \/ SubmitFlip \/ Return
        \/ StopVideo \/ BeginCleanup \/ CloseDisplay \/ FreeBuffers
        \/ Vblank \/ Over

Spec == Init /\ [][Next]_vars

(***************************************************************************)
(* Properties.                                                              *)
(***************************************************************************)

TypeOK ==
    /\ lib \in LibStates
    /\ handle \in BOOLEAN /\ codec \in BOOLEAN /\ packet \in BOOLEAN
    /\ fbs \in 0 .. FB_COUNT
    /\ dec \in DecStates
    /\ pending \in Nat
    /\ index \in Buffers
    /\ head \in Nat
    /\ content \in [ Buffers -> Int ]
    /\ queue \in Seq(Buffers \X Nat)
    /\ shown \in Buffers \X Nat

\* The flips the display may still scan out: the one it shows and the queue.
Flips == { shown } \union { queue[i] : i \in 1 .. Len(queue) }

\* The number of the newest frame the decoder has touched a buffer for.
Newest == IF dec = "blit" THEN head + 1 ELSE head

\* The decoder never waits for the display (video.c:208-219), so it can blit
\* over a frame still to be shown.  But a frame is whole for as long as the
\* decoder is less than FB_COUNT frames ahead of it.
FramesIntact ==
    \A flip \in Flips \ { NoFlip } :
        Newest - flip[2] < FB_COUNT => content[flip[1]] = flip[2]

\* The display never scans a buffer that has been freed (video.c:171-184).
ScanoutSafe == \A flip \in Flips \ { NoFlip } : flip[1] < fbs

\* Decoding touches the context, the packet, the frame and the buffers
\* (video.c:194-212): while it does they are all there.
DecodeReady == dec # "idle" => handle /\ fbs = FB_COUNT /\ codec /\ packet

\* The display never goes back to an older frame, though the ring advances past
\* flips it refuses (video.c:214-219); and while the decoder has not lapped it,
\* nor does the picture, read from buffers that are written all the time.
PictureGoesForward ==
    [][shown' \notin { shown, NoFlip } =>
         /\ shown[2] < shown'[2]
         /\ shown # NoFlip /\ Newest - shown[2] < FB_COUNT
            => content[shown[1]] < content'[shown'[1]]]_vars

==============================================================================
