---------------------------- MODULE ClockPulses -----------------------------
(***************************************************************************)
(* What the clock promises: a pulse the timer makes is due until the song  *)
(* position takes it, every pulse moves the position by one, and nothing   *)
(* else does except a restart.  While the unit follows an external clock,  *)
(* the position moves with that one and the pulses of the timer are        *)
(* dropped.                                                                *)
(***************************************************************************)
EXTENDS Naturals

CONSTANT Period    \* positions before the groove repeats

VARIABLES due, position, internal

vars == <<due, position, internal>>

Init == due = 0 /\ position = 0 /\ internal \in BOOLEAN

Advance == position' = (position + 1) % Period

Make == due' = due + 1 /\ UNCHANGED <<position, internal>>

Take == internal /\ due > 0 /\ due' = due - 1 /\ Advance /\ UNCHANGED internal

Follow == ~internal /\ Advance /\ UNCHANGED <<due, internal>>

Drop == ~internal /\ due' \in 0..due /\ UNCHANGED <<position, internal>>

Restart == position' = 0 /\ UNCHANGED <<due, internal>>

Switch == internal' \in BOOLEAN /\ UNCHANGED <<due, position>>

Next == Make \/ Take \/ Follow \/ Drop \/ Restart \/ Switch

Spec == Init /\ [][Next]_vars
=============================================================================
