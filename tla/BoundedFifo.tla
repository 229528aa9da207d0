----------------------------- MODULE BoundedFifo -----------------------------
(***************************************************************************)
(* The abstract promise of a ring buffer: a first-in first-out queue of at *)
(* most Capacity values, between one writer and one reader.                *)
(***************************************************************************)
EXTENDS Naturals, Sequences

CONSTANTS Values,     \* what is queued
          Capacity    \* how many values fit, a natural number

VARIABLES offered,    \* what the writer is putting: no value or one
          queue,      \* the values written and not yet read, oldest first
          returned    \* the value the last read returned

-----------------------------------------------------------------------------
Init == offered = {} /\ queue = <<>>

Offer(v) ==
  /\ offered = {}
  /\ offered' = {v}
  /\ UNCHANGED <<queue, returned>>

\* The value offered is queued once.
Put(v) ==
  /\ offered = {v} /\ offered' = {}
  /\ Len(queue) < Capacity
  /\ queue' = Append(queue, v)
  /\ UNCHANGED returned

Take ==
  /\ queue # <<>>
  /\ returned' = Head(queue)
  /\ queue' = Tail(queue)
  /\ UNCHANGED offered

Next == Take \/ \E v \in Values : Offer(v) \/ Put(v)

Spec == Init /\ [][Next]_<<offered, queue, returned>>
=============================================================================
