# moonlight-ps5: specifications, model checking and proofs

moonlight-ps5 is a game-streaming client for the PlayStation 5: one C program
(`src/moonlight-ps5/src/`) over moonlight-common-c, mbedTLS, FFmpeg and Opus, with four
small tools that install it and two Python scripts that package it. This directory holds
TLA+ specifications of its own logic, the TLC configurations that check them, and theorems
checked by TLAPS. File names below are relative to `src/moonlight-ps5/src/` unless they
start with `src/`.

`tlc -config X.cfg M` runs a check, `tlapm M.tla` the proofs of a module. PROJECT.json
lists the runs, the mutants that show that each property can fail, the source lines of
every definition, the hazards, the findings and the theorems.

## 1. The system

| component | state | operations | talks to |
|---|---|---|---|
| main (`main.c`) | `s_running`, `s_pad_handle`, the input thread | open pad, `gs_init`, query, pair, launch, connect, loop, teardown | everything below |
| input thread (`main.c:79-86`) | none of its own | poll every 8 ms while `s_running` | `input.c`, `s_running` |
| gamepad (`input.c`) | its own copy of the pad handle | `input_init`, `input_poll_and_send`, `input_cleanup` | pad driver, `LiSendMultiControllerEvent` |
| identity (`gamestream.c:214-333`) | key and certificate, in memory and in two files | `gs_init` | file system |
| requests (`gamestream.c:66-212`) | one connection, the caller's buffer | `https_get`, `http_get` | the server |
| server info and pairing (`gamestream.c:339-592`) | `server->paired`, the server's certificate | `gs_load_server_info`, `gs_pair` | requests, identity, the user |
| app launch and quit (`gamestream.c:607-661`) | session key, RTSP URL | `gs_start_app`, `gs_quit_app` | requests |
| video (`video.c`) | display handle, 3 framebuffers, ring index, FFmpeg context | `video_init`, `video_submit_decode_unit`, `video_cleanup` | the streaming library's threads, sceVideoOut |
| audio (`audio.c`) | port, 4 output buffers, Opus decoder | `audio_init`, `audio_decode_and_play`, `audio_cleanup` | the streaming library's threads, sceAudioOut |
| installers (`src/install_net.c`, `src/reinstall.c`, `src/update_app.c`, `install_app.c`) | files under two directories | fetch, write, remove, register | a host's HTTP server, the system's installer |
| launcher (`src/launcher.c`) | none | load `moonlight-ps5.elf` into its process | the files the installers leave |
| packaging (`src/make_pkg.py`, `src/make_fself.py`) | a byte layout | build a PKG, build an FSELF | the console's loader |

What is hard in it:

* **Concurrency.** main, the input thread and the library's threads share `s_running`, the
  pad and the connection. `LiStopConnection` is called before the input thread is joined,
  the terminated callback may come while `LiStartConnection` is still running, and the
  display scans the buffers the decoder writes.
* **Partial failure.** Every set-up function acquires several resources and returns in
  between; many results are not looked at (`pthread_create`, `fwrite`, the reply to
  `/launch`, `sceVideoOutSubmitFlip`, `sceAudioOutOutput`).
* **Crash and restart.** The identity is two files, saved one after the other; a pairing is
  five requests with half of its state at the server; the installers write in place.
* **Unreliable delivery.** A reply ends when the connection does, so a lost reply looks
  like an empty one, and the server may act on a request long after its sender died.
* **Timeouts.** There are none on the client's connections.
* **Limits.** Three framebuffers and four audio buffers are reused in turn while hardware
  may still be at an older one; replies go into buffers of a fixed size.
* **Numeric edges.** A byte scaled into a 16-bit short.

Correctness of each component, in one line: main releases what it opened and forgets no
app; an event means what the pad said; an identity is whole and remembered; a request's
buffer is never overrun, and one that failed was never sent whole; a client is "paired" only
when the server knows it; a frame is whole until the decoder has gone round the ring, a
sound until outputs that failed have let it round, and the stream comes down with nothing
left; an installation that succeeds does not depend on what the disk held, and none
destroys the identity.

## 2. The modules

**`Session.tla`** is one launch. `main` names the next call of the main thread, `input`
that of the input thread; each action is one call or one test of a loop's condition, so
the two threads, the callback (`Terminated`) and the user (`Toggle`) interleave between
any two of them. `pad`, `attached` and `running` are `main.c`'s handle, `input.c`'s copy
and `s_running`. `conn` is the library's connection and `app` the server's app, both as
far as the client's calls show them. An undefined `pthread_join` (after a failed
`pthread_create`) either returns or kills the process. Functions that have a module of
their own appear here with their results only. The server may still run an app left over
from a launch that died; a launch resumes it, or is refused. `Hang` is a server that accepts a
connection and neither answers nor closes it.

**`Lifecycle.tla`** is the abstract specification of a launch, in terms of what its user
and its server see: prepare, maybe launch the app, maybe stream, cancel once when nothing
streams or reads the pad any more, let go of the pad. Session implements it under the
mapping of `Promise` (`ImplementsLifecycle`): `link` (`Linked`) holds from `conn = "up"` to
the end of `LiStopConnection`, `feeding` is the input thread being alive, `stage` (`Stage`)
comes from the place of `main`. What the abstraction itself promises is stated in it:
`Quiet`, nothing streams or feeds outside the streaming stage, and `EndsQuietly`, the app
never ends under a stream or under somebody's hands.

**`Gamepad.tla`** is the conversion of `input.c`: `Short` is C's conversion to 16 bits,
`StickX`, `StickY` and `FlagOf` are the formulas and the table. One stick stands for both
and one trigger for both, as the code treats them alike. `MCGamepad.tla` chooses inputs.

**`Identity.tla`** is `gs_init` over any number of launches. A file holds an identity or
`None`, which stands for absent, empty, truncated and placeholder alike, since
`load_pem_file` and the parsers refuse them all. `save_pem_file` is two steps, the
truncating open and the close, each of which may fail unnoticed; `Stop` is the end or the
crash of the process in any place. `spoilt` remembers that a write has failed.

**`Video.tla`** is `video.c` beside a display. Frames have numbers, a buffer holds the
number of its frame, `Torn` during a blit. `Setup` acquires any prefix of the resources;
`Receive`, `Blit` and `SubmitFlip` are the body of the receive loop; `Vblank` interleaves.
The display keeps at most `QueueMax` flips and refuses the next. `PictureGoesForward` is
about what the display shows one after the other.

**`Audio.tla`** is `audio.c` beside a port that plays. Packets have numbers, and a buffer
holds the number of the one copied into it last. `OpenAudio` acquires any prefix of the
resources, `Decode` is the call up to the copy into the ring. `Output` is a call of
`sceAudioOutOutput` that blocks while the port holds `PortDepth` buffers, `OutputFails` one
that returns an error at once: its result is not read (`audio.c:104`), and the index has
advanced already (`audio.c:93`). `RingIntact` says how far that may go: `FailedSince(i)`
counts the outputs that have failed since a buffer was handed over. `CloseDecoder`,
`FreeRing` and `ClosePort` are the cleanup in the code's order: the ring goes before the
port that may be playing it.

**`Stream.tla`** composes Video and Audio beneath the connection of Session: the library sets
up both, in any order; decodes into both from two threads; and on failure
or on `LiStopConnection` tears both down while the devices go on. A refused buffer
(`RefuseAudio`) is an action of its own, outside the fairness. It justifies that Session
lets `LiStopConnection` return.

**`HttpRequest.tla`** is `https_get` (when `tls`) and `http_get`, over a stream of numbered
bytes: writes and reads of any length, chunks kept or dropped by the test at
`gamestream.c:150` and `201`, a peer that may close or reset at any byte.

**`Request.tla`** is the abstract request that Session and Pairing take for granted: it fails
before it is written whole, so that no server has it; or it succeeds (with TLS, written whole,
which is not yet arrived) with a reply that has no gap when it fits.
HttpRequest implements it (`ImplementsRequest`).

**`Pairing.tla`** is `gs_load_server_info` and `gs_pair` over several launches. A launch
number stands for the launch's salt, PIN and challenges, so "decrypts and verifies" is
"the numbers agree". Requests stay with the network when their sender dies, and the
server (external, with what it must check for pairing to mean anything) may take them
later. A reply may be lost, late, or read as empty.

**`PairingUser.tla`** extends Pairing with a server that answers and a user who types the
PIN, as fairness, and a history variable, `disturbed`, that remembers whether something has
gone wrong in this pairing. It states what such a user gets: `PairingSucceeds`, and the two
safety properties beneath it, `NobodyWaitsInVain` and `NeverRefused`.

**`Install.tla`** runs the four tools, each a list of steps, in any order over the same
files and directories. A fetch opens (and empties) its target, receives chunks, and may
get an error page, a cut reply or a full disk; `Kill` is the end of a payload between any
two of these. `harm` remembers what has gone wrong in a run without ending it. `Startable`
is what the installers give the system to start the client: the client as `eboot.bin`, its
parameters, the registration. `EbootComplete` is less: an `eboot.bin` with the program it
starts, be it the client itself or the launcher beside the `moonlight-ps5.elf` it asks for.
It does not say that the system loads that file: `HANDOFF.md:78-81` gives the launcher up
because it does not. `Play` needs the client itself, registered.

**`SessionProofs`, `GamepadProofs`, `IdentityProofs`, `RendererProofs`** (Video and Audio),
**`StreamProofs`, `HttpRequestProofs`, `PairingProofs`** (Pairing and PairingUser) and
**`InstallProofs`** hold the theorems and the inductive invariants (`IInv`; `StreamIInv`,
which has those of both renderers in it; `UserIInv`, which has that of Pairing). The runs
check every one of them on small instances, except `IInv` of Video and `AudioIInv` alone and
`IInv` of Pairing alone, which are checked as parts of the larger ones.

The modules meet at their results: `Session` takes from `HttpRequest` that a failed
`/launch` was never written whole, so that the server cannot have it (`StartApp`), from `Stream` that both calls on the connection return, from `Pairing` and
`Identity` whether there is a
client to launch with; `Install.Play` writes the identity that `Identity` manages.

## 3. The runs

| run | what it shows | bounds |
|---|---|---|
| `session` | The input thread never reads a closed pad; at most one event reaches a stopping library; an app on the server, launched or left over, is cancelled or its `/cancel` failed; exits release the pad; `s_running` falling always takes stream and thread down; OPTIONS+CREATE leads out of the loop and to the end unless a call hangs; all of it implements `Lifecycle`. | none but `late`, which saturates at 2: one launch is finite |
| `session_hang` | *Violation.* "hold OPTIONS+CREATE to quit" (`main.c:240`) against a server that stays silent: `gs_quit_app` has no timeout. | the same |
| `session_launch` | *Violation.* `gs_start_app` returns 0 for a refused or lost launch (`gamestream.h:36`). | the same |
| `gamepad` | Events lean and move as the sticks do, and carry all pressed buttons, for axes in 1..255. | nine axis values: ends, centre, their neighbours and points between |
| `gamepad_zero` | *Violation.* The value 0 turns a full push round (`input.c:46-50`). | the same with 0 |
| `identity` | Files that belong together are never touched again; while writes go through, no half identity, no forgotten pairing. | four identities: three spoilt or crashed generations before a good one |
| `stream` | A frame is whole while the decoder is less than a ring ahead, and the picture never goes back; no freed framebuffer is scanned; decoding finds everything; an audio buffer the port holds is not overwritten until at least a ring less a port's depth of outputs has failed since, and is freed only in the cleanup; the connection comes down whatever its parts are at, and then nothing is left. | the code's 3 framebuffers, 4 frames (more than a lap), a queue of 2, 2 frames from one unit; the code's 4 audio buffers, 5 packets (more than a lap), a port that holds 2, so that two failed outputs in a row may lap it |
| `http_request` | Buffer bounds, gap-free replies; over TLS, "failed" is "not written whole" and "ok" is "written whole"; return; all of it implements `Request`. | replies of 0-6 bytes, chunks of 1-3, a buffer that holds 4: replies that fit, that just fit and that do not |
| `pairing` | "ready" only when the server knows the client; the last phase only on the launch's own PIN; no pairing after a recognised query; a user who types the PIN shown is never refused, and gets a paired client, unless this pairing was disturbed. | three launches: a request of the first may meet the session of the third |
| `pairing_status` | *Violation.* A failed HTTPS query is "not paired" (`gamestream.h:30`, `gamestream.c:363-369`). | two launches |
| `install` | The identity survives any tools in any state of failure; success over an empty required file needs a write that fell short; whatever a tool has left, a later success of `install_net.c` or `install_app.c` leaves a startable client and one of `update_app.c` an `eboot.bin` with its program, unless host or disk harm that run too. | two tools one after the other: every state one tool can leave, under every next; files in three amounts |
| `install_reinstall` | *Violation.* `reinstall.c` reports success with a launcher that has nothing to load. | one run |

Where a run checks an inductive invariant, the type invariant is part of it; that of
Gamepad is proved and not checked.

The five violations are findings: each quotes the line the code disagrees with. Two more
disagreements are known and have no run of their own. With writes that fail, an identity
reported as "generated and saved" (`gamestream.c:330`) is not there at the next launch;
removing `~spoilt` from `RemembersAcrossLaunches` shows it. And `http_fetch` "returns
bytes written" (`src/install_net.c:37`) while it counts bytes received; removing
`"lost" \notin harm` from `SuccessLeavesBytes` shows it. (The launcher that `update_app.c` and
`reinstall.c` install is one that, by `HANDOFF.md:78-81`, fails even with its file there;
that is the system's doing, and no run is about it.)

**Deadlock** is checked in every run but `stream`; a state in which the system really ends
has an action that says so (`Ended`, `Over`, `Returned`). In `stream` the display and the
bounds may stop at many places; that it never stops half-way down is `ComesDown`.

**Fairness.** `Session` assumes weak fairness of the main thread's own calls and of the
input thread: both are scheduled, and every call returns except two that are left out of
the fair part, `gs_pair` (it waits for a person) and any request that `Hang` may strike.
Nothing is assumed of the user, the server or the callback. `HttpRequest` assumes that
the function runs and that the server closes the connection in the end, which the
request asks for (`Connection: close`, `gamestream.c:127`, `191`); without it `Returns` is
false, which is the very point of `session_hang`. `Stream` assumes
that the library's threads are scheduled, that the decoder's calls return and that the port
plays on; nothing of the display, as flips it refuses are dropped (`video.c:214`), and not that
the port ever refuses a buffer (`RefuseAudio`): an output that blocks ends with room alone. `PairingUser`
assumes a client that is scheduled, a server that takes the request it was sent and a user
who types the PIN shown; a restart, a lost reply, a request of a dead launch in the middle
and a wrong or declined PIN set `disturbed`, which ends the promise. The other modules have
no liveness properties and no fairness.

## 4. What is proved

For every value of the constants, under the named assumptions of each module (constants
are natural numbers, or subsets of the pad's range), TLAPS checks:

* **Session**: type correctness, `PadLifetime`, `LateEvents`, `NoOrphanApp` and
  `ReleasedAtExit`, with and without hanging servers and failing thread creation.
  `IInv` says, for each place of the main thread, what has been opened, launched and
  connected by then; that the input thread can only be alive between the spawn and the
  join; that `s_running` is down from `stop` on; and that, once it is down, each late
  event has cost the input thread its last round. None of the properties is inductive
  alone: `PadLifetime` needs that the close comes after the join, `NoOrphanApp` that the
  app is only launched on a path that leads to `quit`. `Implementation` is the refinement of
  `Lifecycle`: initial states map to initial states, each action to one of the abstract
  actions or a stutter. `AppEndsQuietly` uses it: `Quiet` and `EndsQuietly` are proved of
  Lifecycle alone, and every launch has them.
* **Gamepad**: without the value 0, `SameDirection` and `OrderKept` for every set of axis
  values; on 0 the conversion gives the opposite extreme (`FullDeflectionTurnsRound`).
  For all inputs, `NoButtonLost` for every set of buttons. (The type invariant is proved too,
  but its axes hold by what a cast to 16 bits is.)
* **Identity**: `LoadedMatches`, `RemembersAcrossLaunches` and `MatchIsKept`, for any set
  of identities and so any number of launches. The argument: the key is saved before the
  certificate, so a usable certificate implies its key; hence a launch that generates
  finds the certificate unusable. That part holds until a write fails (`spoilt \/ Sound`);
  what remains after it is that a new key belongs to no certificate already on disk.
  `SettledStays` is the other side of `MatchIsKept`: files that both parse are never written
  again, be they right or wrong. So a key and a certificate of different identities are for
  ever (`MixedIsForGood`), and no server pairs with them: that is Pairing's
  `MismatchNeverPairs`, which the guard of `Pair` stands for here. Such files (`Mixed`) are reachable: a launch is killed after it has saved its key; the next one
  cannot open the key file for writing, which is only printed, but saves its certificate; from
  then on every launch loads both files and takes them for a saved identity. Without a
  failed write they are not (`LoadedMatches`).
* **Video**: `FramesIntact`, `ScanoutSafe` and `DecodeReady` for any
  number of buffers, any queue and any number of frames. The invariant places frame `n`
  in buffer `n % FB_COUNT`; two frames less than `FB_COUNT` apart are in different
  buffers (`BuffersDiffer`), so a blit cannot reach a frame that near.
  `PictureNeverGoesBack`: the display performs its flips in the order of the frames
  (`FlipsInOrder`), and unless the decoder has lapped it, what it reads from the buffers
  goes forward too. The bound is sharp: with a lead of exactly `FB_COUNT` it is false.
* **Audio**: `RingIntact` and `FreedOnlyWhileClosing` for any number of buffers and packets
  and any depth of the port. The source relies on `sceAudioOutOutput` blocking while the
  port is full, without saying so and without reading its result; `RingIntact` says exactly
  how much of that it needs. The invariant is that the port holds packets in their order,
  each in the buffer of its number (`HeldInOrder`). A packet goes into the buffer of one that
  is held only when it is at least a whole ring later, and those of the packets between that
  the port does not hold have failed. The bound is sharp: with one failure more the sound
  may be lost. `FreedOnlyWhileClosing` needs that a port with anything to play has the whole
  ring until the cleanup frees it (`AudioHas`).
* **Stream**: `PartsBehave`, that every step of the composition is a step of Video's and of
  Audio's own specification or leaves that part alone, so that their theorems hold of it
  (`StreamKeepsPromises`); `StreamInductive`, the invariants of both with what a connection
  that is down leaves of them; and `NothingLeft`.
* **HttpRequest**: `WithinBuffer`, `WholeWhenFits` and `ReturnTellsWritten` for all sizes.
  While the reply fits, `total` is what was read, so every chunk fits. `IsOneRequest` is
  the refinement of `Request`.
* **Pairing**: `ReadyIsKnown`, `PairedByOwnPin` and `NoNeedlessPairing` for any number of
  launches. `IInv` is about the last two messages of a pairing: this launch's are on their
  way only while it waits for their answer or has given up, an answered one has been
  taken, and no launch has both under way. Hence, once the server has accepted this
  launch's secret, the session that an older secret would need is gone
  (`NewestAccepted`). `MismatchNeverPairs`: a client whose key is not that of its
  certificate is never paired; Identity's guard on `Pair` rests on it.
* **PairingUser**: it only restricts Pairing (`UserPairs`), and `UserInductive` is the
  invariant for any number of launches, whatever goes wrong in them. Its core is `InStep`:
  while nothing has gone wrong client and server are at one of four points of the same
  phase (the client is about to send; its request is on its way; the PIN is awaited; the
  one answer there is says yes), and the server's session is what that phase needs
  (`Finds`). `InStep` is not inductive alone: that no second answer can overtake the first
  is `OneReply`, that no later phase of this launch is already on its way is
  `PhasesInOrder`, that the session is nobody's from the future is `SessionBegun`. From
  these follow `NotInVain` and `NotRefused`, the safety that `PairingSucceeds` rests on.
* **Install**: type correctness, `IdentityKept`, `SuccessLeavesBytes` and `RerunRepairs`, for
  any tools, any number of runs and all faults. No list of steps names the identity
  (`ProgramsSpare`), and `rmdir` cannot take its directory, since a file that is there has
  one (`HasDirectory`). What a tool writes it never touches again (`ProgramsOnce`, put
  together from the pieces of the lists with `Joined`), and no tool takes a registration
  back; so what a step has achieved (`Achieved`: its file written whole, the title
  registered) is still there at the end (`SoFar`). An open file holds what was counted unless
  harm was done to it (`OpenFaithful`); a step that was skipped is harm as well.

**Termination arguments.** Liveness is out of the prover's reach, but the variant beneath
it is not. Three theorems give, for every value of the constants, a number that every step
of the code lowers and no step of the environment raises:

| theorem | from when on | what is counted | beneath |
|---|---|---|---|
| `TearDownIsBounded` (Session) | `s_running` is down | calls left to either thread, at most 15 | `StopsStreaming`, `HoldEnds` |
| `ComingDownIsBounded` (Stream) | the connection comes down | frames of the unit in hand, steps of both cleanups, buffers yet to play | `ComesDown` |
| `RequestIsBounded` (HttpRequest) | always | stages, bytes to write, bytes to read | `Returns` |

What remains of the liveness properties is that a step is taken at all: fairness and
ENABLED, which TLC covers on the small instances.

Only model-checked: the liveness properties `StopsStreaming`, `HoldEnds`, `Returns`,
`ComesDown` and `PairingSucceeds`. Every invariant and every action property of a passing
run is a theorem.

## 5. What is not modelled

* **Package builder** (`src/make_pkg.py`): a build script that runs once over whole files in
  memory. Each table is written in one pass from lengths just computed, no step depends on
  an earlier state, and most of what it writes comes from a template package
  (`make_pkg.py:8`) that is not in the tree.
* **FSELF builder** (`src/make_fself.py`): the same; whether its layout is right is decided
  by the console's loader, of which the source says nothing.
* **Module lifecycle** (`main.c:88-100`, `266-273`): the constructor and destructor load and
  unload system modules without looking at a result; `module_start` only calls `main`.
* **Sample and pixel values**: Audio and Video number packets and frames; the conversion of
  each is one step. A packet that decodes to fewer samples than the buffer has leaves the
  rest of it as it was (`audio.c:95-102`), and the port plays that too; nothing is said of
  it. `audio.c` takes at most two channels and 240 samples for granted, whatever the
  library's configuration says.
* **The cryptography** of pairing and TLS: reduced to which values agree.
* **External code** (moonlight-common-c, FFmpeg, sceVideoOut, the pad driver, the server)
  only as its callers see it. `moonlight-common-c` is a submodule that is not in the
  tree.
* **Power loss** that undoes writes already closed: the order in which the console's file
  system writes back is not in the source.
* **`dump_fs.c`, `dump_pkg.c`, `hello_world_test`, `cpu_model_stub.c`, `platform.h`** print,
  declare or test the toolchain and keep no state. The diagnostics socket
  (`main.c:104-124`) only redirects output, and `gs_print_applist` is never called.

## 6. Order of the modules, and what could follow

Built in this order: Session, Gamepad, Identity, Video, HttpRequest, Pairing, Install;
Lifecycle and Request with their refinements; Audio, Stream; PairingUser; the proofs; the
variants of the termination arguments.

What would be next: a composition of Identity with Pairing, in which a pairing is lost
because the certificate it was made with was not saved; the variant of a pairing, phases
left and steps of each, beneath `PairingSucceeds`.
