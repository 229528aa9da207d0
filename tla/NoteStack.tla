------------------------------ MODULE NoteStack ------------------------------
(***************************************************************************)
(* NoteStack<capacity> (src/controller/note_stack.h): the notes of a stack *)
(* kept as a singly linked list, most recently played first, threaded      *)
(* through a fixed pool of slots, together with an array of slot numbers   *)
(* sorted by pitch.  Slot 0 is a dummy; "pointers" are slot numbers and 0  *)
(* ends the list.                                                          *)
(*                                                                         *)
(* The entries of the sorted array at and beyond size keep the values they *)
(* had, as in the code; Clear leaves its entry 0 alone, as the code does.  *)
(***************************************************************************)
EXTENDS Integers, Sequences, FiniteSets

CONSTANTS Capacity,     \* the template argument, at least 1
          Notes,        \* the notes played, at most 127
          Velocities    \* their velocities, within 1..255

VARIABLE keys           \* [pool, root, sorted, size]

kFreeSlot == 255
Slots == 1..Capacity
Empty == [note |-> kFreeSlot, velocity |-> 0, next |-> 0]

Lowest(S)  == CHOOSE i \in S : \A j \in S : i <= j
Highest(S) == CHOOSE i \in S : \A j \in S : i >= j

-----------------------------------------------------------------------------
\* The slots the loop "current = pool_[current].next_ptr" reaches from root.
Walk(k) ==
  LET slot[i \in 0..Capacity] ==
        IF i = 0 THEN k.root
        ELSE IF slot[i - 1] = 0 THEN 0 ELSE k.pool[slot[i - 1]].next
  IN  slot

\* The list read as a sequence of slots, up to the first null pointer.
SlotList(k) ==
  LET walk   == Walk(k)
      length == Lowest({i \in 0..Capacity : walk[i] = 0} \cup {Capacity})
  IN  [i \in 1..length |-> walk[i - 1]]

\* The pool after a slot is freed; its predecessor in the list (0: it is the
\* root) is linked to the slot that follows it.
Unlinked(k, current, previous) ==
  LET freed == [k.pool EXCEPT ![current] = Empty]
  IN  IF previous = 0 THEN freed
      ELSE [freed EXCEPT ![previous].next = k.pool[current].next]

\* The sorted array after the slot is taken out of it.
Unranked(k, current) ==
  LET rank == {i \in 0..(k.size - 1) : k.sorted[i] = current}
  IN  IF rank = {} THEN k.sorted
      ELSE [i \in 0..Capacity |->
              IF i \in Lowest(rank)..(k.size - 2) THEN k.sorted[i + 1]
              ELSE k.sorted[i]]

\* NoteOff: unlink the slot of the note from the list, close the gap in the
\* sorted array, and give the slot back to the pool.
AfterNoteOff(k, note) ==
  LET list == SlotList(k)
      hits == {i \in DOMAIN list : k.pool[list[i]].note = note}
  IN  IF hits = {} THEN k
      ELSE LET at      == Lowest(hits)
               current == list[at]
           IN  [pool   |-> Unlinked(k, current, IF at = 1 THEN 0 ELSE list[at - 1]),
                root   |-> IF at = 1 THEN k.pool[current].next ELSE k.root,
                sorted |-> Unranked(k, current),
                size   |-> k.size - 1]

\* NoteOn's saturation: a full stack drops the note at the end of the list,
\* found as the last slot of the pool whose next pointer is null.
AfterSaturationDropsRoot(k) ==
  IF k.size < Capacity THEN k ELSE AfterNoteOff(k, k.pool[k.root].note)

AfterSaturation(k) ==
  IF k.size < Capacity THEN k
  ELSE AfterNoteOff(k, k.pool[Highest({s \in Slots : k.pool[s].next = 0})].note)

\* Where a note belongs in the sorted array.
InsertionPointLast(r, note) == r.size

InsertionPoint(r, note) ==
  LET higher == {i \in 0..(r.size - 1) : r.pool[r.sorted[i]].note > note}
  IN  IF higher = {} THEN r.size ELSE Lowest(higher)

\* NoteOn: remove the note, make room, then link a free slot in at the root
\* and insert it before the first sorted entry of a higher pitch.
AfterNoteOn(k, note, velocity) ==
  LET r      == AfterSaturation(AfterNoteOff(k, note))
      free   == Lowest({s \in Slots : r.pool[s].note = kFreeSlot})
      at     == InsertionPoint(r, note)
  IN  [pool   |-> [r.pool EXCEPT ![free] =
                     [note |-> note, velocity |-> velocity, next |-> r.root]],
       root   |-> free,
       sorted |-> [i \in 0..Capacity |->
                     IF i = at THEN free
                     ELSE IF i \in (at + 1)..r.size THEN r.sorted[i - 1]
                     ELSE r.sorted[i]],
       size   |-> r.size + 1]

AfterClear(k) ==
  [pool   |-> [s \in 0..Capacity |-> Empty],
   root   |-> 0,
   sorted |-> [i \in 0..Capacity |-> IF i = 0 THEN k.sorted[0] ELSE 0],
   size   |-> 0]

-----------------------------------------------------------------------------
\* The read accessors.
MostRecentNote(k)    == k.pool[k.root]
LeastRecentNote(k)   == LET list == SlotList(k)
                        IN  k.pool[IF list = <<>> THEN 0 ELSE list[Len(list)]]
PlayedNote(k, index) == k.pool[Walk(k)[k.size - index - 1]]
SortedNote(k, index) == k.pool[k.sorted[index]]

-----------------------------------------------------------------------------
\* Statically allocated memory is zero before Init() clears the stack.
Init == keys = AfterClear([sorted |-> [i \in 0..Capacity |-> 0], size |-> 0])

NoteOn(note, velocity) == keys' = AfterNoteOn(keys, note, velocity)
NoteOff(note)          == keys' = AfterNoteOff(keys, note)
Clear                  == keys' = AfterClear(keys)

Next ==
  \/ \E n \in Notes, v \in Velocities : NoteOn(n, v)
  \/ \E n \in Notes : NoteOff(n)
  \/ Clear

Spec == Init /\ [][Next]_keys

-----------------------------------------------------------------------------
UsedSlots == {s \in Slots : keys.pool[s].note # kFreeSlot}

\* The stack read from the list: what the client sees.
AbstractStack ==
  LET list == SlotList(keys)
  IN  [i \in DOMAIN list |-> [note     |-> keys.pool[list[i]].note,
                              velocity |-> keys.pool[list[i]].velocity]]

\* The list and the free pool partition the slots: the walk from the root
\* reaches each used slot once and no free one, and size counts them.  A
\* leaked slot would make NoteOn write through an uninitialised free_slot, a
\* cycle would hang NoteOff's loop.
ListThreadsUsedSlots ==
  LET list == SlotList(keys)
  IN  /\ {list[i] : i \in DOMAIN list} = UsedSlots
      /\ Len(list) = Cardinality(UsedSlots)
      /\ Walk(keys)[Len(list)] = 0
      /\ keys.size = Len(list)

\* The sorted array, which the arpeggiator indexes, lists the used slots by
\* strictly ascending pitch after any sequence of insertions and removals.
SortedByPitch ==
  /\ {keys.sorted[i] : i \in 0..(keys.size - 1)} = UsedSlots
  /\ \A i, j \in 0..(keys.size - 1) :
       i < j => SortedNote(keys, i).note < SortedNote(keys, j).note

\* played_note counts from the oldest note, most_recent_note and
\* least_recent_note are its two ends (the AS_PLAYED arpeggio, last-note
\* priority).
AccessorsAgree ==
  LET s == AbstractStack
  IN  s # <<>> =>
        /\ MostRecentNote(keys).note = s[1].note
        /\ LeastRecentNote(keys).note = s[Len(s)].note
        /\ \A i \in 0..(Len(s) - 1) : PlayedNote(keys, i).note = s[Len(s) - i].note

\* The list, the array and the slots are three views of the same notes.
ViewsAgree == ListThreadsUsedSlots /\ SortedByPitch /\ AccessorsAgree

Recency == INSTANCE RecencyStack
             WITH Entries  <- [note : Notes, velocity : Velocities],
                  stack    <- AbstractStack

\* The linked list implements the abstract recency stack: each operation of
\* note_stack.h is one operation of the stack it represents.
ImplementsRecencyStack == Recency!Spec
=============================================================================
