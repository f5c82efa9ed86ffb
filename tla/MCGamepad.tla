------------------------------ MODULE MCGamepad ------------------------------
(***************************************************************************)
(* Inputs of the pad for TLC.                                               *)
(***************************************************************************)
EXTENDS Gamepad

\* The ends, the centre and what is beside them, and some values between; with
\* and without the value 0.
MCAxisWithoutZero == { 1, 2, 64, 127, 128, 129, 192, 254, 255 }
MCAxis == { 0 } \union MCAxisWithoutZero

MCTriggers == { 255 }

\* Both clicks, the quit combination, a shoulder and a direction.
MCPressable == { {}, { "L3", "R3" }, { "OPTIONS", "CREATE", "L1", "UP" } }

==============================================================================
