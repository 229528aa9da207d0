------------------------------- MODULE Recency -------------------------------
(***************************************************************************)
(* Sequences of notes kept from the most to the least recently played one: *)
(* what note_stack.h does to its list, apart from how it stores it.  An    *)
(* entry is a record with a field note.                                    *)
(***************************************************************************)
EXTENDS Naturals, SequencesExt

\* The stack without the first entry of a note, the others in the same order.
Without(s, note) ==
  LET places == {i \in DOMAIN s : s[i].note = note}
  IN  IF places = {} THEN s ELSE RemoveAt(s, Min(places))

\* The stack after an entry is played: at the front, within capacity.
Played(s, e, capacity) ==
  LET t == <<e>> \o Without(s, e.note)
  IN  IF Len(t) > capacity THEN SubSeq(t, 1, capacity) ELSE t

NotesOf(s) == {s[i].note : i \in DOMAIN s}
=============================================================================
