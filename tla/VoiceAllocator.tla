--------------------------- MODULE VoiceAllocator ---------------------------
(***************************************************************************)
(* A VoiceAllocator driven by any sequence of note-ons, note-offs and      *)
(* clears: the state machine of src/controller/voice_allocator.{h,cc},     *)
(* whose operations are those of VoicePool.  FindActive and size() only    *)
(* read.                                                                   *)
(***************************************************************************)
EXTENDS VoicePool, Sequences, FiniteSets

CONSTANTS Size,     \* the number of voices, a uint8_t that Touch reads as int8_t
          Cyclic    \* whether Init is called in the cyclic mode

ASSUME AllocatorAssumption ==
  /\ Size \in 0..127
  /\ Cyclic \in BOOLEAN

VARIABLE alloc

AllocatorInit == alloc = NewPool(Size, Cyclic)

NoteOn(note)  == alloc' = AfterNoteOn(alloc, note)
NoteOff(note) == alloc' = AfterNoteOff(alloc, note)
ClearNotes    == alloc' = AfterClearNotes(alloc)
Clear         == alloc' = AfterClear(alloc)

AllocatorNext ==
  \/ \E n \in Notes : NoteOn(n)
  \/ \E n \in Notes : NoteOff(n)
  \/ ClearNotes
  \/ Clear

AllocatorSpec == AllocatorInit /\ [][AllocatorNext]_alloc

-----------------------------------------------------------------------------
Voices == 0..(Size - 1)

\* The arrays are indexed within size, and the cyclic counter within it too.
TypeOK ==
  /\ alloc \in Pools(Size)
  /\ alloc.cyclic = NonCyclic <=> ~Cyclic
  /\ alloc.cyclic \in Voices \cup {0, NonCyclic}

\* No sequence of touches loses a voice from the LRU table or lists one twice:
\* a voice missing from it could never be given a note again.
LruListsEveryVoice ==
  /\ \A v \in Voices : \E i \in Voices : alloc.lru[i] = v
  /\ \A i, j \in Voices : alloc.lru[i] = alloc.lru[j] => i = j

\* In the least-recently-used mode a note is remembered by one voice only,
\* except that the voices cleared and not played since all read as note 0.
OneVoicePerNote ==
  alloc.cyclic = NonCyclic =>
    \A v, w \in Voices :
      v < w /\ alloc.pool[v].note = alloc.pool[w].note => alloc.pool[w] = Off(0)

\* In the least-recently-used mode the voice a note-off finds, which is the
\* first one that remembers the note, is the voice that sounds it: Part sends
\* its release to that voice (part.cc:809).
NoteOffFindsSoundingVoice ==
  alloc.cyclic = NonCyclic =>
    \A n \in Notes :
      FindActive(alloc, n) # NoVoice => Find(alloc, n) = FindActive(alloc, n)

-----------------------------------------------------------------------------
\* The active entries among the first i of a table, in their order.
ActiveUpTo(table) ==
  LET first[i \in 0..Len(table)] ==
        IF i = 0 THEN <<>>
        ELSE IF table[i].active THEN Append(first[i - 1], table[i])
        ELSE first[i - 1]
  IN  first

ActiveIn(table) == ActiveUpTo(table)[Len(table)]

\* The voices' notes, from the most to the least recently touched voice, and those
\* that sound.
TableOf(a) == [i \in 1..a.size |-> a.pool[a.lru[i - 1]]]

SoundingNotes == ActiveIn(TableOf(alloc))

Polyphony == INSTANCE RecencyStack
               WITH Entries  <- [note : Notes, active : {TRUE}],
                    Capacity <- Size,
                    stack    <- SoundingNotes

\* In the least-recently-used mode the voices together are a recency stack of
\* Size notes: a note that is playing is retriggered on its own voice, a new
\* one takes an idle voice while there is one, and steals the least recently
\* played note only when there is none (the comments of NoteOn).
ImplementsRecencyStack == Polyphony!Spec
=============================================================================
