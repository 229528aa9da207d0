---------------------------- MODULE RecencyStack ----------------------------
(***************************************************************************)
(* The abstract promise shared by the two note containers of the           *)
(* controller: a bounded set of notes kept from the most to the least      *)
(* recently played one.  Playing a note that is already there moves it to  *)
(* the front; playing a new note when the container is full drops the      *)
(* least recently played one; releasing a note removes it.                 *)
(*                                                                         *)
(* NoteStack (a linked list threaded through a pool) and the non-cyclic    *)
(* VoiceAllocator (a pool of voices and an LRU table) are both shown to    *)
(* implement it.                                                           *)
(***************************************************************************)
EXTENDS Recency

CONSTANTS Entries,   \* what is stacked: records with at least a field note
          Capacity   \* how many entries fit, a natural number

VARIABLE stack       \* the entries, most recently played first

-----------------------------------------------------------------------------
Init == stack = <<>>

NoteOn(e)     == Capacity > 0 /\ stack' = Played(stack, e, Capacity)
NoteOff(note) == stack' = Without(stack, note)
Clear         == stack' = <<>>

Next ==
  \/ \E e \in Entries : NoteOn(e)
  \/ \E e \in Entries : NoteOff(e.note)
  \/ Clear

Spec == Init /\ [][Next]_stack
=============================================================================
