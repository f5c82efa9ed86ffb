---------------------------- MODULE GamepadProofs ----------------------------
(***************************************************************************)
(* What input.c's conversion does for every set of inputs.  As long as no   *)
(* axis reports 0, an event leans where the stick leans and keeps the order *)
(* of pushes; on 0 the conversion leaves the 16 bits and turns round.       *)
(***************************************************************************)
EXTENDS Gamepad, FiniteSetTheorems, TLAPS

\* The conversion to short changes nothing that fits (input.c:47-50).
LEMMA ShortOfShort ==
  ASSUME NEW v \in Int, -32768 <= v, v <= 32767
  PROVE  Short(v) = v
  <1>1. v + 32768 \in Int /\ 0 <= v + 32768 /\ v + 32768 < 65536
    OBVIOUS
  <1>2. (v + 32768) % 65536 = v + 32768
    BY <1>1
  <1> QED
    BY <1>2 DEF Short

\* What does not fit by less than a turn comes back at the other end.
LEMMA ShortWraps ==
  ASSUME NEW v \in Int
  PROVE  /\ -98304 <= v /\ v < -32768 => Short(v) = v + 65536
         /\ 32767 < v /\ v <= 98303 => Short(v) = v - 65536
  <1>1. ASSUME -98304 <= v, v < -32768
        PROVE  Short(v) = v + 65536
    <2>1. (v + 32768) % 65536 = v + 98304
      BY <1>1
    <2> QED
      BY <2>1 DEF Short
  <1>2. ASSUME 32767 < v, v <= 98303
        PROVE  Short(v) = v - 65536
    <2>1. (v + 32768) % 65536 = v - 32768
      BY <1>2
    <2> QED
      BY <2>1 DEF Short
  <1> QED
    BY <1>1, <1>2

\* Either way it is a short (input.c:47-50).
LEMMA ShortIsShort ==
  ASSUME NEW v \in Int, -98304 <= v, v <= 98303
  PROVE  Short(v) \in Shorts
  <1>1. CASE -32768 <= v /\ v <= 32767
    <2>1. v \in Shorts
      BY <1>1, SMT DEF Shorts
    <2> QED
      BY <1>1, <2>1, ShortOfShort, SMT
  <1>2. CASE v < -32768
    <2>1. v + 65536 \in Shorts
      BY <1>2, SMT DEF Shorts
    <2> QED
      BY <1>2, <2>1, ShortWraps, SMT
  <1>3. CASE 32767 < v
    <2>1. v - 65536 \in Shorts
      BY <1>3, SMT DEF Shorts
    <2> QED
      BY <1>3, <2>1, ShortWraps, SMT
  <1> QED
    BY <1>1, <1>2, <1>3

\* Without 0, both axes are the distance from the centre, scaled.
LEMMA StickOfByte ==
  ASSUME NEW a \in 1 .. 255
  PROVE  /\ StickX(a) = (a - 128) * 257
         /\ StickY(a) = (128 - a) * 257
  <1>1. /\ (a - 128) * 257 \in Int
        /\ -32768 <= (a - 128) * 257 /\ (a - 128) * 257 <= 32767
        /\ (128 - a) * 257 \in Int
        /\ -32768 <= (128 - a) * 257 /\ (128 - a) * 257 <= 32767
    OBVIOUS
  <1> QED
    BY <1>1, ShortOfShort DEF StickX, StickY

\* Fully left becomes fully right and fully up becomes fully down: the value
\* the comment at input.c:46 includes and the conversion does not fit.
THEOREM FullDeflectionTurnsRound == StickX(0) = 32640 /\ StickY(0) = -32640
  <1>1. (0 - 128) * 257 \in Int /\ (128 - 0) * 257 \in Int
    OBVIOUS
  <1>2. Short((0 - 128) * 257) = 32640
    BY <1>1, ShortWraps
  <1>3. Short((128 - 0) * 257) = -32640
    BY <1>1, ShortWraps
  <1> QED
    BY <1>2, <1>3 DEF StickX, StickY

\* The last event is the conversion of the last sample.
EventOfSample ==
    event # NoEvent => sampled \in PadStates /\ event = Convert(sampled)

\* It stays so: input_poll_and_send is the only writer (input.c:20-57).
LEMMA EventInvariant == Spec => []EventOfSample
  <1>1. Init => EventOfSample
    BY DEF Init, EventOfSample
  <1>2. EventOfSample /\ [Next]_vars => EventOfSample'
    BY DEF EventOfSample, Next, InputInit, Poll, InputCleanup, vars
  <1> QED
    BY <1>1, <1>2, PTL DEF Spec

\* Without 0 on an axis, every event leans where the stick does.
THEOREM DirectionKept ==
  ASSUME AxisValues \subseteq 1 .. 255
  PROVE  Spec => []SameDirection
  <1>1. EventOfSample => SameDirection
    <2> SUFFICES ASSUME EventOfSample, event # NoEvent
                 PROVE  SameDirection
      BY DEF SameDirection
    <2>1. /\ sampled.x \in 1 .. 255
          /\ sampled.y \in 1 .. 255
      BY DEF EventOfSample, PadStates
    <2>2. /\ event.lx = (sampled.x - 128) * 257
          /\ event.ly = (128 - sampled.y) * 257
      BY <2>1, StickOfByte DEF EventOfSample, Convert
    <2> QED
      BY <2>1, <2>2 DEF SameDirection
  <1> QED
    BY <1>1, EventInvariant, PTL

\* Without 0 on an axis, pushing further never sends less.
THEOREM OrderIsKept ==
  ASSUME AxisValues \subseteq 1 .. 255
  PROVE  Spec => OrderKept
  <1>1. /\ EventOfSample /\ EventOfSample'
        /\ [Next]_vars
        => [PushesFurther]_<< sampled, event >>
    <2> SUFFICES ASSUME EventOfSample, EventOfSample', Poll,
                        event # NoEvent
                 PROVE  PushesFurther
      BY DEF Next, vars, InputInit, InputCleanup, PushesFurther
    <2>1. /\ sampled.x \in 1 .. 255 /\ sampled'.x \in 1 .. 255
          /\ sampled.y \in 1 .. 255 /\ sampled'.y \in 1 .. 255
      BY DEF EventOfSample, PadStates, Poll
    <2>2. /\ event.lx = (sampled.x - 128) * 257
          /\ event.ly = (128 - sampled.y) * 257
      BY <2>1, StickOfByte DEF EventOfSample, Convert
    <2>3. /\ event'.lx = (sampled'.x - 128) * 257
          /\ event'.ly = (128 - sampled'.y) * 257
      BY <2>1, StickOfByte DEF Poll, Convert
    <2>4. \A a, b \in Int : a > b => (a - 128) * 257 > (b - 128) * 257
                               /\ (128 - b) * 257 > (128 - a) * 257
      OBVIOUS
    <2>5. /\ sampled.x \in Int /\ sampled'.x \in Int
          /\ sampled.y \in Int /\ sampled'.y \in Int
      BY <2>1
    <2>6. sampled'.x > sampled.x => event'.lx > event.lx
      BY <2>2, <2>3, <2>4, <2>5
    <2>7. sampled'.y < sampled.y => event'.ly > event.ly
      BY <2>2, <2>3, <2>4, <2>5
    <2> QED
      BY <2>6, <2>7 DEF PushesFurther
  <1> QED
    BY <1>1, EventInvariant, PTL DEF Spec, OrderKept

\* The buttons are finitely many.
LEMMA FinitelyMany == IsFiniteSet(Buttons)
  <1>1. ASSUME NEW a, NEW b, NEW c
        PROVE  IsFiniteSet({ a, b, c })
    <2>1. IsFiniteSet({ a } \union { b })
      BY FS_Singleton, FS_AddElement
    <2>2. IsFiniteSet(({ a } \union { b }) \union { c })
      BY <2>1, FS_AddElement
    <2>3. ({ a } \union { b }) \union { c } = { a, b, c }
      OBVIOUS
    <2> QED
      BY <2>2, <2>3
  <1>2. /\ IsFiniteSet({ "CROSS", "CIRCLE", "SQUARE" })
        /\ IsFiniteSet({ "TRIANGLE", "L1", "R1" })
        /\ IsFiniteSet({ "L3", "R3", "OPTIONS" })
        /\ IsFiniteSet({ "CREATE", "UP", "DOWN" })
        /\ IsFiniteSet({ "LEFT", "RIGHT", "TOUCH_PAD" })
    BY <1>1
  <1>3. IsFiniteSet({ "CROSS", "CIRCLE", "SQUARE" }
                    \union { "TRIANGLE", "L1", "R1" }
                    \union { "L3", "R3", "OPTIONS" }
                    \union { "CREATE", "UP", "DOWN" }
                    \union { "LEFT", "RIGHT", "TOUCH_PAD" })
    BY <1>2, FS_Union
  <1> QED
    BY <1>3 DEF Buttons

\* No two buttons share a flag (input.c:30-44).
LEMMA FlagsDiffer ==
  ASSUME NEW b \in Buttons, NEW c \in Buttons, FlagOf(b) = FlagOf(c)
  PROVE  b = c
  BY DEF Buttons, FlagOf

\* An event carries as many flags as buttons are pressed, whatever is pressed
\* together (input.c:30-44).
THEOREM NoPressIsLost == Spec => []NoButtonLost
  <1>1. ASSUME NEW P \in SUBSET Buttons
        PROVE  Cardinality({ FlagOf(b) : b \in P }) = Cardinality(P)
    <2> DEFINE F == { FlagOf(b) : b \in P }
               flag == [ b \in P |-> FlagOf(b) ]
    <2>1. IsFiniteSet(P)
      BY FinitelyMany, FS_Subset
    <2>2. flag \in Injection(P, F)
      BY FlagsDiffer DEF Injection, IsInjective
    <2>3. flag \in Surjection(P, F)
      BY DEF Surjection
    <2>4. ExistsBijection(P, F)
      BY <2>2, <2>3 DEF ExistsBijection, Bijection
    <2> QED
      BY <2>1, <2>4, FS_Bijection
  <1>2. EventOfSample => NoButtonLost
    <2> SUFFICES ASSUME EventOfSample, event # NoEvent
                 PROVE  Cardinality(event.mask) = Cardinality(sampled.pressed)
      BY DEF NoButtonLost
    <2>1. sampled.pressed \in SUBSET Buttons
      BY InputsAssumption DEF EventOfSample, PadStates
    <2>2. event.mask = { FlagOf(b) : b \in sampled.pressed }
      BY DEF EventOfSample, Convert
    <2> QED
      BY <1>1, <2>1, <2>2
  <1> QED
    BY <1>2, EventInvariant, PTL

\* The type invariant, for whatever an axis reports, 0 included: the flags are of
\* the table, and the axes are 16 bits wide, as the cast makes them
\* (input.c:30-56).
THEOREM TypeCorrect == Spec => []TypeOK
  <1>1. ASSUME NEW v \in 0 .. 255
        PROVE  Short((v - 128) * 257) \in Shorts /\ Short((128 - v) * 257) \in Shorts
    <2>1. /\ (v - 128) * 257 \in Int /\ (128 - v) * 257 \in Int
          /\ -98304 <= (v - 128) * 257 /\ (v - 128) * 257 <= 98303
          /\ -98304 <= (128 - v) * 257 /\ (128 - v) * 257 <= 98303
      OBVIOUS
    <2> QED
      BY <2>1, ShortIsShort
  <1>2. ASSUME NEW p \in PadStates
        PROVE  /\ Convert(p).mask \subseteq Flags
               /\ Convert(p).lt \in TriggerValues
               /\ Convert(p).lx \in Shorts /\ Convert(p).ly \in Shorts
    <2>1. /\ p.x \in 0 .. 255 /\ p.y \in 0 .. 255
          /\ p.pressed \subseteq Buttons /\ p.l2 \in TriggerValues
      <3>1. /\ p.x \in AxisValues /\ p.y \in AxisValues
            /\ p.l2 \in TriggerValues /\ p.pressed \in Pressable
        BY DEF PadStates
      <3>2. p.x \in 0 .. 255 /\ p.y \in 0 .. 255
        BY <3>1, InputsAssumption
      <3>3. p.pressed \in SUBSET Buttons
        BY <3>1, InputsAssumption
      <3> QED
        BY <3>1, <3>2, <3>3
    <2>2. Convert(p).lx \in Shorts /\ Convert(p).ly \in Shorts
      BY <1>1, <2>1 DEF Convert, StickX, StickY
    <2> QED
      BY <2>1, <2>2 DEF Convert, Flags
  <1>3. Init => TypeOK
    BY DEF Init, TypeOK
  <1>4. TypeOK /\ EventOfSample' /\ [Next]_vars => TypeOK'
    <2> SUFFICES ASSUME TypeOK, EventOfSample', [Next]_vars PROVE TypeOK'
      OBVIOUS
    <2>1. CASE InputInit \/ InputCleanup \/ UNCHANGED vars
      BY <2>1, Zenon DEF InputInit, InputCleanup, vars, TypeOK
    <2>2. CASE Poll
      <3>1. sampled' \in PadStates /\ event' = Convert(sampled') /\ handle' = handle
        BY <2>2 DEF Poll
      <3> QED
        BY <1>2, <3>1 DEF TypeOK
    <2> QED
      BY <2>1, <2>2 DEF Next
  <1> QED
    BY <1>3, <1>4, EventInvariant, PTL DEF Spec

==============================================================================
