-------------------------------- MODULE Audio --------------------------------
(***************************************************************************)
(* src/moonlight-ps5/src/audio.c: setting up the Opus decoder, the output   *)
(* buffers and the port, decoding packets into a ring of AUDIO_BUF_FRAMES   *)
(* buffers, and cleaning up, beside a port that plays them.                 *)
(*                                                                          *)
(* Packets are numbered as they are decoded; a buffer holds the number of   *)
(* the packet decoded into it.                                              *)
(*                                                                          *)
(* External: the library that calls init, decodeAndPlaySample and cleanup,  *)
(* one at a time; Opus; sceAudioOut, whose output call blocks while the     *)
(* port holds PortDepth buffers, or fails at once.                          *)
(*                                                                          *)
(* The names differ from those of Video.tla: Stream.tla extends both.       *)
(***************************************************************************)
EXTENDS Integers, Sequences

CONSTANTS
    AUDIO_BUF_FRAMES,   \* output buffers
    PortDepth,          \* buffers the port plays and keeps in turn
    MaxPackets          \* bound: packets of a session

ASSUME AudioAssumption ==
    /\ AUDIO_BUF_FRAMES \in Nat \ { 0 }
    /\ PortDepth \in Nat
    /\ MaxPackets \in Nat

VARIABLES
    audio,      \* what the library has called
    opus,       \* s_decoder is set
    pcm,        \* s_pcm_buf is set
    rings,      \* how many output buffers are allocated: a prefix of s_ring
    port,       \* s_audio_handle is >= 0
    play,       \* where decodeAndPlaySample is
    write,      \* s_ring_write
    out,        \* out: the buffer of the packet being played
    last,       \* the number of the last packet decoded
    sound,      \* the packet in each output buffer, or Silence
    held        \* what the port holds, oldest first: << buffer, packet >>

audioVars == << audio, opus, pcm, rings, port, play, write, out, last, sound,
                held >>
audioParts == << opus, pcm, rings, port >>
outputRing == << write, out, last, sound >>

Slots == 0 .. AUDIO_BUF_FRAMES - 1
Silence == 0

AudioStates == { "idle", "live", "stopped", "failed", "closing", "freed",
                 "closed" }

AudioInit ==
    /\ audio = "idle"
    /\ opus = FALSE /\ pcm = FALSE /\ rings = 0 /\ port = FALSE
    /\ play = "idle"
    /\ write = 0 /\ out = 0 /\ last = 0
    /\ sound = [ s \in Slots |-> Silence ]
    /\ held = << >>

(***************************************************************************)
(* audio_init                                                               *)
(***************************************************************************)

\* The decoder, its buffer, the output buffers, the port, in this order.  The
\* first that fails returns -1 and leaves what was acquired before it.
OpenAudio ==
    /\ audio = "idle"
    /\ \E d, b, p \in BOOLEAN, n \in 0 .. AUDIO_BUF_FRAMES :
         /\ b => d
         /\ n > 0 => b
         /\ p => n = AUDIO_BUF_FRAMES /\ b
         /\ opus' = d /\ pcm' = b /\ rings' = n /\ port' = p
         /\ audio' = IF p THEN "live" ELSE "failed"
    /\ UNCHANGED << play, outputRing, held >>

(***************************************************************************)
(* audio_decode_and_play                                                    *)
(***************************************************************************)

\* The guard of the function.
CanPlay == opus /\ pcm /\ port

\* Mutant: the modulus is MAX_CHANNELS.
NextSlot_Channels == (write + 1) % 2

\* (s_ring_write + 1) % AUDIO_BUF_FRAMES
NextSlot == (write + 1) % AUDIO_BUF_FRAMES

\* A packet is decoded into the next buffer, whatever the port still does with
\* that buffer.  (A packet that fails to decode changes nothing.)
Decode ==
    /\ audio = "live" /\ play = "idle"
    /\ CanPlay
    /\ last < MaxPackets
    /\ last' = last + 1
    /\ sound' = [ sound EXCEPT ![write] = last' ]
    /\ out' = write /\ write' = NextSlot
    /\ play' = "output"
    /\ UNCHANGED << audio, audioParts, held >>

\* sceAudioOutOutput returns once the port has room.
Output ==
    /\ play = "output"
    /\ Len(held) < PortDepth
    /\ held' = Append(held, << out, last >>)
    /\ play' = "idle"
    /\ UNCHANGED << audio, audioParts, outputRing >>

\* Or it fails at once, with room or without.  Its result is not looked at:
\* the ring has advanced past a buffer that the port did not take.
OutputFails ==
    /\ play = "output"
    /\ play' = "idle"
    /\ UNCHANGED << audio, audioParts, outputRing, held >>

\* The port has played a buffer to its end.
PortPlays ==
    /\ held # << >>
    /\ held' = Tail(held)
    /\ UNCHANGED << audio, audioParts, play, outputRing >>

(***************************************************************************)
(* audio_cleanup                                                            *)
(***************************************************************************)

\* The library stops playing before it cleans up.
StopAudio ==
    /\ audio = "live" /\ play = "idle"
    /\ audio' = "stopped"
    /\ UNCHANGED << audioParts, play, outputRing, held >>

\* audio_cleanup begins with the decoder and its buffer ...
CloseDecoder ==
    /\ audio \in { "stopped", "failed" }
    /\ audio' = "closing"
    /\ opus' = FALSE /\ pcm' = FALSE
    /\ UNCHANGED << rings, port, play, outputRing, held >>

\* ... frees the output buffers, with the port still open ...
FreeRing ==
    /\ audio = "closing"
    /\ audio' = "freed"
    /\ rings' = 0
    /\ UNCHANGED << opus, pcm, port, play, outputRing, held >>

\* Mutant: the handle is compared with zero the wrong way round.
ClosedPort_Inverted == port

\* A valid handle is closed.
ClosedPort == FALSE

\* ... and closes the port, which forgets what it held.
ClosePort ==
    /\ audio = "freed"
    /\ audio' = "closed"
    /\ port' = ClosedPort
    /\ held' = IF port' THEN held ELSE << >>
    /\ UNCHANGED << opus, pcm, rings, play, outputRing >>

AudioOver ==
    /\ audio \in { "failed", "closed" }
    /\ UNCHANGED audioVars

AudioNext == \/ OpenAudio \/ Decode \/ Output \/ OutputFails \/ PortPlays
             \/ StopAudio \/ CloseDecoder \/ FreeRing \/ ClosePort
             \/ AudioOver

AudioSpec == AudioInit /\ [][AudioNext]_audioVars

(***************************************************************************)
(* Properties.                                                              *)
(***************************************************************************)

AudioTypeOK ==
    /\ audio \in AudioStates
    /\ opus \in BOOLEAN /\ pcm \in BOOLEAN /\ port \in BOOLEAN
    /\ rings \in 0 .. AUDIO_BUF_FRAMES
    /\ play \in { "idle", "output" }
    /\ write \in Slots /\ out \in Slots
    /\ last \in Nat
    /\ sound \in [ Slots -> Nat ]
    /\ held \in Seq(Slots \X Nat)

\* How many outputs have failed since the i-th of the buffers the port holds
\* was handed to it: the packets after it that the port does not hold, but for
\* one that is being handed over.
FailedSince(i) ==
    (last - held[i][2]) - (Len(held) - i) - (IF play = "output" THEN 1 ELSE 0)

\* What the port plays is what was decoded for it (audio.c:92-104): nothing
\* reserves a buffer, but an output that blocks keeps the decoder from coming
\* round, and so many outputs that fail, and do not block, are needed before it
\* does.  (A ring no longer than what the port holds promises nothing.)
RingIntact ==
    \A i \in 1 .. Len(held) :
        FailedSince(i) < AUDIO_BUF_FRAMES - PortDepth
        => sound[held[i][1]] = held[i][2]

\* The output buffers are freed before the port is closed (audio.c:73-79), so
\* the port may hold freed ones, but only between the two: never while packets
\* are played, and not after.
FreedOnlyWhileClosing ==
    \A i \in 1 .. Len(held) : held[i][1] < rings \/ audio = "freed"

==============================================================================
