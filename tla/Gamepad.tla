------------------------------- MODULE Gamepad -------------------------------
(***************************************************************************)
(* src/moonlight-ps5/src/input.c: one poll of the DualSense pad becomes one *)
(* controller event of moonlight-common-c.                                  *)
(*                                                                          *)
(* An axis is a byte, centred at 128; the event carries a 16-bit signed     *)
(* value.  Both sticks are converted alike, so one stick stands for both,   *)
(* and one trigger for both.                                                *)
(***************************************************************************)
EXTENDS Integers, FiniteSets

CONSTANTS
    AxisValues,     \* what the driver reports for an axis
    TriggerValues,  \* what it reports for an analog trigger
    Pressable,      \* sets of buttons that may be pressed together
    NoEvent         \* no event has been sent yet

Buttons == { "CROSS", "CIRCLE", "SQUARE", "TRIANGLE", "L1", "R1", "L3", "R3",
             "OPTIONS", "CREATE", "UP", "DOWN", "LEFT", "RIGHT",
             "TOUCH_PAD" }

ASSUME InputsAssumption ==
    /\ AxisValues \subseteq 0 .. 255
    /\ TriggerValues \subseteq 0 .. 255
    /\ Pressable \subseteq SUBSET Buttons

VARIABLES
    handle,     \* s_pad_handle is >= 0
    sampled,    \* the state of the pad the last event was made from
    event       \* the last event sent

vars == << handle, sampled, event >>

PadStates == [ x : AxisValues, y : AxisValues, l2 : TriggerValues,
               pressed : Pressable ]

(***************************************************************************)
(* The conversion.                                                          *)
(***************************************************************************)

\* Mutant: a conversion to an unsigned 16-bit integer.
Short_Unsigned(v) == v % 65536

\* The C conversion of an int to a 16-bit short.
Short(v) == ((v + 32768) % 65536) - 32768

\* The horizontal axis grows to the right on both sides.
StickX(x) == Short((x - 128) * 257)

\* Mutant: the vertical axis is not turned over.
StickY_NotFlipped(y) == Short((y - 128) * 257)

\* The vertical axis grows downwards on the pad and upwards in the event.
StickY(y) == Short((128 - y) * 257)

\* Mutant: L3 is mapped to the flag of R3.
FlagOf_SameClick(b) ==
    CASE b = "CROSS"    -> "A"      [] b = "CIRCLE"  -> "B"
      [] b = "SQUARE"   -> "X"      [] b = "TRIANGLE" -> "Y"
      [] b = "L1"       -> "LB"     [] b = "R1"      -> "RB"
      [] b = "L3"       -> "RS_CLK" [] b = "R3"      -> "RS_CLK"
      [] b = "OPTIONS"  -> "PLAY"   [] b = "CREATE"  -> "BACK"
      [] b = "UP"       -> "UP"     [] b = "DOWN"    -> "DOWN"
      [] b = "LEFT"     -> "LEFT"   [] b = "RIGHT"   -> "RIGHT"
      [] b = "TOUCH_PAD" -> "SPECIAL"

\* The table of MAP lines.
FlagOf(b) ==
    CASE b = "CROSS"    -> "A"      [] b = "CIRCLE"  -> "B"
      [] b = "SQUARE"   -> "X"      [] b = "TRIANGLE" -> "Y"
      [] b = "L1"       -> "LB"     [] b = "R1"      -> "RB"
      [] b = "L3"       -> "LS_CLK" [] b = "R3"      -> "RS_CLK"
      [] b = "OPTIONS"  -> "PLAY"   [] b = "CREATE"  -> "BACK"
      [] b = "UP"       -> "UP"     [] b = "DOWN"    -> "DOWN"
      [] b = "LEFT"     -> "LEFT"   [] b = "RIGHT"   -> "RIGHT"
      [] b = "TOUCH_PAD" -> "SPECIAL"

Flags == { FlagOf(b) : b \in Buttons }

\* Arguments of LiSendMultiControllerEvent.
Convert(p) == [ mask |-> { FlagOf(b) : b \in p.pressed },
                lt   |-> p.l2,
                lx   |-> StickX(p.x),
                ly   |-> StickY(p.y) ]

(***************************************************************************)
(* The operations.                                                          *)
(***************************************************************************)

Init ==
    /\ handle = FALSE
    /\ sampled = NoEvent
    /\ event = NoEvent

\* input_init: main passes its handle, valid or not.
InputInit ==
    /\ handle' \in BOOLEAN
    /\ UNCHANGED << sampled, event >>

\* input_poll_and_send: nothing is sent without a handle, or when the read
\* fails; otherwise the event of whatever state the player left the pad in.
Poll ==
    /\ handle
    /\ sampled' \in PadStates
    /\ event' = Convert(sampled')
    /\ UNCHANGED handle

\* input_cleanup
InputCleanup ==
    /\ handle
    /\ handle' = FALSE
    /\ UNCHANGED << sampled, event >>

Next == InputInit \/ Poll \/ InputCleanup

Spec == Init /\ [][Next]_vars

(***************************************************************************)
(* Properties.                                                              *)
(***************************************************************************)

Shorts == { v \in Int : -32768 <= v /\ v <= 32767 }

TypeOK ==
    /\ handle \in BOOLEAN
    /\ sampled \in PadStates \union { NoEvent }
    /\ \/ event = NoEvent
       \/ /\ event.mask \subseteq Flags
          /\ event.lt \in TriggerValues
          /\ event.lx \in Shorts /\ event.ly \in Shorts

\* "PS5 range 0-255, centre ~128; Moonlight wants -32768..32767" (input.c:46):
\* the event leans to the side the stick leans to, and is centred when it is.
SameDirection ==
    event # NoEvent =>
        /\ (event.lx > 0 <=> sampled.x > 128) /\ (event.lx < 0 <=> sampled.x < 128)
        /\ (event.ly > 0 <=> sampled.y < 128) /\ (event.ly < 0 <=> sampled.y > 128)

\* Pushing the stick further right or up between two events never makes the
\* value sent smaller (input.c:47-50).
PushesFurther ==
    event # NoEvent =>
        /\ sampled'.x > sampled.x => event'.lx > event.lx
        /\ sampled'.y < sampled.y => event'.ly > event.ly

OrderKept == [][PushesFurther]_<< sampled, event >>

\* No press is lost and none is invented: an event carries as many flags as
\* buttons are pressed, also for buttons pressed together (input.c:30-44).
NoButtonLost ==
    event # NoEvent => Cardinality(event.mask) = Cardinality(sampled.pressed)

==============================================================================
