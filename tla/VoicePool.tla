------------------------------ MODULE VoicePool ------------------------------
(***************************************************************************)
(* The operations of VoiceAllocator (src/controller/voice_allocator.{h,cc}) *)
(* as functions of an allocator a:                                         *)
(*                                                                         *)
(*   a.size    number of voices it manages                                 *)
(*   a.pool    per voice, the note it was last given and whether it is     *)
(*             active (bit 7 of the byte in the code)                      *)
(*   a.lru     the voices from the most to the least recently touched      *)
(*   a.cyclic  cyclic_allocator_: 255 in the least-recently-used mode,     *)
(*             otherwise the voice given last                              *)
(*                                                                         *)
(* MaxNote stands for the 7-bit mask 0x7f: a byte 0xff in the pool is the  *)
(* note MaxNote, active.                                                   *)
(***************************************************************************)
EXTENDS Integers

CONSTANT MaxNote     \* the highest note (127 in the code)

ASSUME MaxNoteAssumption == MaxNote \in 1..127

Notes         == 0..MaxNote
NoVoice       == 255
NonCyclic     == 255
VoicesOf(a)   == 0..(a.size - 1)

VoiceState    == [note : Notes, active : BOOLEAN]

\* The allocators of a given size.
Pools(size) ==
  [size : {size}, pool : [0..(size - 1) -> VoiceState],
   lru : [0..(size - 1) -> 0..(size - 1)], cyclic : {NonCyclic} \cup 0..size]

On(note)  == [note |-> note, active |-> TRUE]
Off(note) == [note |-> note, active |-> FALSE]

\* The first voice, in the order of the pool, that satisfies a condition.
FirstIn(S) ==
  IF S = {} THEN NoVoice ELSE CHOOSE v \in S : \A w \in S : v <= w

Find(a, note) == FirstIn({v \in VoicesOf(a) : a.pool[v].note = note})

FindActive(a, note) == FirstIn({v \in VoicesOf(a) : a.pool[v] = On(note)})

-----------------------------------------------------------------------------
\* ClearNotes zeroes the pool, so that a cleared voice reads as note 0, idle.
AfterClearNotes(a) == [a EXCEPT !.pool = [v \in VoicesOf(a) |-> Off(0)]]

AfterClear(a) ==
  [AfterClearNotes(a) EXCEPT !.lru = [i \in VoicesOf(a) |-> a.size - i - 1]]

\* Init(size, cyclic_mode, ...), which ends in Clear.
NewPool(size, cyclic) ==
  [size   |-> size,
   pool   |-> [v \in 0..(size - 1) |-> Off(0)],
   lru    |-> [i \in 0..(size - 1) |-> size - i - 1],
   cyclic |-> IF cyclic THEN 0 ELSE NonCyclic]

\* Touch moves a voice to the front of the table; the voices that were in
\* front of it move back by one place.  The code's loop rewrites the table in
\* place from the end, skipping the voice.
PlaceOf(a, voice) == CHOOSE i \in VoicesOf(a) : a.lru[i] = voice

AfterTouch(a, voice) ==
  [a EXCEPT !.lru = [i \in VoicesOf(a) |->
     IF i = 0 THEN voice
     ELSE IF i <= PlaceOf(a, voice) THEN a.lru[i - 1] ELSE a.lru[i]]]

\* The last voice of the LRU table among those of a set.
MostRecentIn(a, S) ==
  a.lru[CHOOSE i \in VoicesOf(a) :
          /\ a.lru[i] \in S
          /\ \A j \in VoicesOf(a) : a.lru[j] \in S => j >= i]

LeastRecentIn(a, S) ==
  a.lru[CHOOSE i \in VoicesOf(a) :
          /\ a.lru[i] \in S
          /\ \A j \in VoicesOf(a) : a.lru[j] \in S => j <= i]

Idle(a) == {v \in VoicesOf(a) : ~a.pool[v].active}

\* Variant: the note is only looked for among the active voices.
ChosenVoiceFindsActive(a, note) ==
  IF a.cyclic # NonCyclic
  THEN IF a.cyclic + 1 >= a.size THEN 0 ELSE a.cyclic + 1
  ELSE IF FindActive(a, note) # NoVoice THEN FindActive(a, note)
  ELSE IF Idle(a) # {} THEN LeastRecentIn(a, Idle(a))
  ELSE LeastRecentIn(a, VoicesOf(a))

\* The voice NoteOn picks: in turn in cyclic mode; otherwise the voice that
\* has this note, else the least recently touched idle one, else the least
\* recently touched one.
ChosenVoice(a, note) ==
  IF a.cyclic # NonCyclic
  THEN IF a.cyclic + 1 >= a.size THEN 0 ELSE a.cyclic + 1
  ELSE IF Find(a, note) # NoVoice THEN Find(a, note)
  ELSE IF Idle(a) # {} THEN LeastRecentIn(a, Idle(a))
  ELSE LeastRecentIn(a, VoicesOf(a))

\* NoteOn(note): the voice it returns is NoteOnVoice, NoVoice when there is
\* none to give.
NoteOnVoice(a, note) == IF a.size = 0 THEN NoVoice ELSE ChosenVoice(a, note)

AfterNoteOn(a, note) ==
  IF a.size = 0 THEN a
  ELSE LET voice == ChosenVoice(a, note)
       IN  AfterTouch(
             [size   |-> a.size,
              pool   |-> [a.pool EXCEPT ![voice] = On(note)],
              lru    |-> a.lru,
              cyclic |-> IF a.cyclic = NonCyclic THEN a.cyclic ELSE voice], voice)

\* NoteOff(note): it returns Find(note) before the change.  Cyclic mode writes
\* 0xff over the voice and does not touch the table.
AfterNoteOff(a, note) ==
  LET voice == Find(a, note)
  IN  IF voice = NoVoice THEN a
      ELSE IF a.cyclic = NonCyclic
      THEN AfterTouch([a EXCEPT !.pool[voice] = Off(note)], voice)
      ELSE [a EXCEPT !.pool[voice] = On(MaxNote)]
=============================================================================
