------------------------------ MODULE PartProofs ------------------------------
(***************************************************************************)
(* What a part of Part.tla keeps true for every setup, every number of     *)
(* keys and notes, and every order of keys, pedal, messages, settings,     *)
(* voice assignments and clock steps.                                      *)
(*                                                                         *)
(* The inductive invariant PartInv says of the part, in the monophonic     *)
(* modes, that its voices sound the top of the note stack, and in the      *)
(* others that the allocator is well formed (VoiceAllocatorProofs) and     *)
(* that what each voice was last told is what the allocator has on the     *)
(* slot of the voice.  It is kept by each function of PartOps, in the      *)
(* order in which they call each other: the writes to the voices, note-on  *)
(* and note-off, the keys, the settings, the sequencer and the             *)
(* arpeggiator; an action of Part composes them.                           *)
(*                                                                         *)
(* PartInv is true even of a part that has forgotten what it plays, so it  *)
(* does not say that a note ever ends.  KeysInv does, while the settings   *)
(* are kept: the notes the part has on (NotesOn) are those of the keys     *)
(* that are down, held by the pedal or played by the last clock step.      *)
(* The second half of the module says what each function of PartOps does   *)
(* to that set, then to the keys the part remembers, and ends with the     *)
(* theorems.  pressed_keys_ forgets the oldest key when it is full: what   *)
(* is on is remembered all the same when fewer keys than it holds can be   *)
(* pressed, or when the voice of a note is given to another before its key *)
(* is forgotten (Covered).                                                 *)
(*                                                                         *)
(* The state of VoiceAllocator and its constants play no part here: the    *)
(* module is taken for its lemmas about the operators of VoicePool.        *)
(***************************************************************************)
EXTENDS Part, VoiceAllocatorProofs, FiniteSetTheorems

-----------------------------------------------------------------------------
\* Where Without takes an entry out: nowhere, or at the first entry of the note.
LEMMA WithoutCases ==
  ASSUME NEW S, NEW s \in Seq(S), NEW note
  PROVE  \/ Without(s, note) = s /\ \A i \in 1..Len(s) : s[i].note # note
         \/ \E i \in 1..Len(s) : /\ s[i].note = note
                                 /\ \A j \in 1..(i - 1) : s[j].note # note
                                 /\ Without(s, note) = RemoveAt(s, i)
<1> DEFINE places == {i \in DOMAIN s : s[i].note = note}
<1>1. places \in SUBSET Nat /\ DOMAIN s = 1..Len(s) /\ Len(s) \in Nat
  OBVIOUS
<1>2. CASE places = {}
  BY <1>1, <1>2 DEF Without
<1>3. CASE places # {}
  <2>1. \E i \in places : \A j \in places : i <= j
    BY <1>1, <1>3, LeastExists
  <2>2. Min(places) \in places /\ \A j \in places : Min(places) <= j
    BY <2>1 DEF Min
  <2>3. Without(s, note) = RemoveAt(s, Min(places))
    BY <1>3 DEF Without
  <2> DEFINE i == Min(places)
  <2>4. i \in 1..Len(s) /\ s[i].note = note
    BY <1>1, <2>2
  <2>5. ASSUME NEW j \in 1..(i - 1) PROVE s[j].note # note
    <3> HIDE DEF i
    <3>1. j \in 1..Len(s) /\ ~ (i <= j)
      BY <1>1, <2>4
    <3>2. j \notin places
      BY <2>2, <3>1 DEF i
    <3> QED
      BY <1>1, <3>1, <3>2
  <2> QED
    BY <2>3, <2>4, <2>5
<1> QED
  BY <1>2, <1>3

\* The elements of a sequence without one of them.
LEMMA RemoveAtElements ==
  ASSUME NEW S, NEW s \in Seq(S), NEW i \in 1..Len(s)
  PROVE  /\ RemoveAt(s, i) \in Seq(S)
         /\ Len(RemoveAt(s, i)) = Len(s) - 1
         /\ \A k \in 1..(Len(s) - 1) :
              RemoveAt(s, i)[k] = IF k < i THEN s[k] ELSE s[k + 1]
<1> DEFINE a == SubSeq(s, 1, i - 1)
           b == SubSeq(s, i + 1, Len(s))
<1>1. a \in Seq(S) /\ b \in Seq(S) /\ Len(a) = i - 1 /\ Len(b) = Len(s) - i
  OBVIOUS
<1>2. \A k \in 1..(i - 1) : a[k] = s[k]
  OBVIOUS
<1>3. \A k \in 1..(Len(s) - i) : b[k] = s[i + k]
  OBVIOUS
<1> HIDE DEF a, b
<1>4. a \o b \in Seq(S) /\ Len(a \o b) = Len(s) - 1
  BY <1>1
<1>5. \A k \in 1..(Len(s) - 1) : (a \o b)[k] = IF k < i THEN a[k] ELSE b[k - (i - 1)]
  BY <1>1
<1>6. \A k \in 1..(Len(s) - 1) : (a \o b)[k] = IF k < i THEN s[k] ELSE s[k + 1]
  BY <1>1, <1>2, <1>3, <1>5
<1> QED
  BY <1>4, <1>6 DEF a, b, RemoveAt

\* A stack has each note once.
Distinct(s) == \A i, j \in DOMAIN s : s[i].note = s[j].note => i = j

Stacks(S) == {s \in Seq(S) : Distinct(s)}

LEMMA StackElements ==
  ASSUME NEW S, NEW s \in Stacks(S)
  PROVE  /\ s \in Seq(S) /\ Distinct(s)
         /\ Len(s) \in Nat /\ DOMAIN s = 1..Len(s)
         /\ \A i \in 1..Len(s) : s[i] \in S
         /\ s # <<>> => Head(s) \in S /\ Head(s) = s[1]
BY DEF Stacks

\* Taking a note out takes it out for good.
LEMMA WithoutNotes ==
  ASSUME NEW S, NEW s \in Stacks(S), NEW note
  PROVE  /\ Without(s, note) \in Stacks(S)
         /\ NotesOf(Without(s, note)) = NotesOf(s) \ {note}
<1>1. s \in Seq(S) /\ \A i, j \in 1..Len(s) : s[i].note = s[j].note => i = j
  BY DEF Stacks, Distinct
<1>2. CASE Without(s, note) = s /\ \A i \in 1..Len(s) : s[i].note # note
  BY <1>1, <1>2 DEF NotesOf
<1>3. ASSUME NEW i \in 1..Len(s), s[i].note = note, Without(s, note) = RemoveAt(s, i)
      PROVE  /\ Without(s, note) \in Stacks(S)
             /\ NotesOf(Without(s, note)) = NotesOf(s) \ {note}
  <2> DEFINE r == RemoveAt(s, i)
             L == Len(s)
  <2>1. r \in Seq(S) /\ Len(r) = L - 1 /\ L \in Nat /\ i \in 1..L
    BY <1>1, <1>3, RemoveAtElements
  <2>2. \A k \in 1..(L - 1) : r[k] = IF k < i THEN s[k] ELSE s[k + 1]
    BY <1>1, RemoveAtElements
  <2>3. DOMAIN r = 1..(L - 1) /\ DOMAIN s = 1..L
    BY <1>1, <2>1
  <2> HIDE DEF r, L
  <2>4. \A j \in 1..L : s[j].note = note => j = i
    BY <1>1, <1>3 DEF L
  <2>5. ASSUME NEW k \in 1..(L - 1), NEW m \in 1..(L - 1), r[k].note = r[m].note
        PROVE  k = m
    <3> DEFINE f(x) == IF x < i THEN x ELSE x + 1
    <3>1. f(k) \in 1..L /\ f(m) \in 1..L /\ (f(k) = f(m) => k = m)
      BY <2>1
    <3>2. r[k] = s[f(k)] /\ r[m] = s[f(m)]
      BY <2>2
    <3> HIDE DEF f
    <3> QED
      BY <1>1, <2>5, <3>1, <3>2 DEF L
  <2>6. ASSUME NEW k \in 1..(L - 1) PROVE r[k].note \in NotesOf(s) \ {note}
    <3> DEFINE f(x) == IF x < i THEN x ELSE x + 1
    <3>1. f(k) \in 1..L /\ f(k) # i
      BY <2>1
    <3>2. r[k] = s[f(k)]
      BY <2>2
    <3> HIDE DEF f
    <3> QED
      BY <2>3, <2>4, <3>1, <3>2 DEF NotesOf
  <2>7. ASSUME NEW j \in 1..L, s[j].note # note PROVE s[j].note \in NotesOf(r)
    <3> DEFINE k == IF j < i THEN j ELSE j - 1
    <3>1. k \in 1..(L - 1) /\ r[k] = s[j]
      <4>1. j # i
        BY <1>3, <2>7
      <4> QED
        BY <2>1, <2>2, <4>1
    <3> HIDE DEF k
    <3> QED
      BY <2>3, <3>1 DEF NotesOf
  <2>8. r \in Stacks(S)
    BY <2>1, <2>3, <2>5 DEF Stacks, Distinct
  <2>9. NotesOf(r) = NotesOf(s) \ {note}
    BY <2>3, <2>6, <2>7 DEF NotesOf
  <2> QED
    BY <1>3, <2>8, <2>9 DEF r
<1> QED
  BY <1>1, <1>2, <1>3, WithoutCases

\* The front of a stack stays its front when another note is taken out, and a
\* stack that loses its only note is empty.
LEMMA WithoutStack ==
  ASSUME NEW S, NEW s \in Stacks(S), NEW note
  PROVE  /\ Without(s, note) \in Stacks(S)
         /\ s = <<>> => Without(s, note) = <<>>
         /\ s # <<>> /\ Head(s).note # note =>
              Without(s, note) # <<>> /\ Head(Without(s, note)) = Head(s)
<1>0. s \in Seq(S) /\ Without(s, note) \in Stacks(S)
  BY WithoutNotes DEF Stacks
<1>1. CASE Without(s, note) = s
  BY <1>0, <1>1
<1>2. ASSUME NEW i \in 1..Len(s), s[i].note = note, Without(s, note) = RemoveAt(s, i)
      PROVE  /\ s = <<>> => Without(s, note) = <<>>
             /\ s # <<>> /\ Head(s).note # note =>
                  Without(s, note) # <<>> /\ Head(Without(s, note)) = Head(s)
  <2> DEFINE r == RemoveAt(s, i)
  <2>1. r \in Seq(S) /\ Len(r) = Len(s) - 1
    BY <1>0, RemoveAtElements
  <2>2. s # <<>>
    BY <1>0
  <2>3. ASSUME Head(s).note # note PROVE r # <<>> /\ Head(r) = Head(s)
    <3>1. i # 1
      BY <1>0, <1>2, <2>3
    <3>2. 1 \in 1..(Len(s) - 1) /\ 1 < i
      BY <1>0, <3>1
    <3>3. r[1] = s[1]
      BY <1>0, <3>2, RemoveAtElements
    <3> HIDE DEF r
    <3> QED
      BY <1>0, <2>1, <3>2, <3>3
  <2> QED
    BY <1>2, <2>1, <2>2, <2>3
<1> QED
  BY <1>0, <1>1, <1>2, WithoutCases

\* A stack with a new entry in front of its other notes.
Pushed(s, e) == <<e>> \o Without(s, e.note)

LEMMA PushedStack ==
  ASSUME NEW S, NEW s \in Stacks(S), NEW e \in S
  PROVE  /\ Pushed(s, e) \in Stacks(S) /\ Len(Pushed(s, e)) >= 1 /\ Pushed(s, e)[1] = e
         /\ NotesOf(Pushed(s, e)) = NotesOf(s) \cup {e.note}
<1> DEFINE w == Without(s, e.note)
           t == <<e>> \o w
           L == Len(w)
<1>1. /\ w \in Seq(S) /\ Distinct(w) /\ L \in Nat /\ DOMAIN w = 1..L
      /\ NotesOf(w) = NotesOf(s) \ {e.note}
  BY WithoutNotes DEF Stacks
<1> HIDE DEF w, L
<1>2. t \in Seq(S) /\ Len(t) = L + 1 /\ t[1] = e
  BY <1>1 DEF L
<1>3. \A k \in 2..(L + 1) : t[k] = w[k - 1]
  BY <1>1 DEF L
<1>4. DOMAIN t = 1..(L + 1)
  BY <1>2
<1> HIDE DEF t
<1>5. \A k \in 1..L : w[k].note # e.note
  BY <1>1 DEF NotesOf
<1>6. ASSUME NEW k \in 1..(L + 1), NEW m \in 1..(L + 1), t[k].note = t[m].note
      PROVE  k = m
  <2>1. \A x \in 1..(L + 1) : x # 1 => x \in 2..(L + 1) /\ x - 1 \in 1..L
    BY <1>1
  <2>2. \A x \in 1..(L + 1) : x # 1 => t[x].note # e.note
    BY <1>3, <1>5, <2>1
  <2>3. CASE k = 1 \/ m = 1
    BY <1>2, <1>6, <2>2, <2>3
  <2>4. CASE k # 1 /\ m # 1
    <3>1. w[k - 1].note = w[m - 1].note
      BY <1>3, <1>6, <2>1, <2>4
    <3>2. k - 1 = m - 1
      BY <1>1, <2>1, <2>4, <3>1 DEF Distinct
    <3> QED
      BY <3>2
  <2> QED
    BY <2>3, <2>4
<1>7. t \in Stacks(S)
  BY <1>2, <1>4, <1>6 DEF Stacks, Distinct
<1>8. NotesOf(t) = NotesOf(w) \cup {e.note}
  <2>1. ASSUME NEW k \in 1..(L + 1) PROVE t[k].note \in NotesOf(w) \cup {e.note}
    <3>1. CASE k = 1
      BY <1>2, <3>1
    <3>2. CASE k # 1
      <4>1. k - 1 \in 1..L /\ t[k] = w[k - 1]
        BY <1>1, <1>3, <3>2
      <4> QED
        BY <1>1, <4>1 DEF NotesOf
    <3> QED
      BY <3>1, <3>2
  <2>2. ASSUME NEW m \in 1..L PROVE w[m].note \in NotesOf(t)
    <3>1. m + 1 \in 1..(L + 1) /\ t[m + 1] = w[m]
      <4>1. m + 1 \in 2..(L + 1) /\ (m + 1) - 1 = m
        BY <1>1
      <4> QED
        BY <1>1, <1>3, <4>1
    <3> QED
      BY <1>4, <3>1 DEF NotesOf
  <2>3. e.note \in NotesOf(t)
    <3>1. 1 \in DOMAIN t
      BY <1>1, <1>4
    <3> QED
      BY <1>2, <3>1 DEF NotesOf
  <2> QED
    BY <1>1, <1>4, <2>1, <2>2, <2>3 DEF NotesOf
<1>9. NotesOf(t) = NotesOf(s) \cup {e.note}
  BY <1>1, <1>8
<1> QED
  BY <1>1, <1>2, <1>7, <1>9 DEF t, w, Pushed

\* Playing a note puts it in front; the others stay, or the oldest goes.
LEMMA PlayedStack ==
  ASSUME NEW S, NEW s \in Stacks(S), NEW e \in S, NEW capacity \in Nat \ {0}
  PROVE  LET r == Played(s, e, capacity)
         IN  /\ r \in Stacks(S) /\ r # <<>> /\ Head(r) = e
             /\ NotesOf(r) \subseteq NotesOf(s) \cup {e.note}
             /\ e.note \in NotesOf(r)
<1> DEFINE t == Pushed(s, e)
           r == Played(s, e, capacity)
<1>1. /\ t \in Stacks(S) /\ Len(t) >= 1 /\ t[1] = e
      /\ NotesOf(t) = NotesOf(s) \cup {e.note}
  BY PushedStack
<1>2. r = IF Len(t) > capacity THEN SubSeq(t, 1, capacity) ELSE t
  BY DEF Played, Pushed
<1> HIDE DEF t, r
<1>3. t \in Seq(S) /\ Len(t) \in Nat /\ DOMAIN t = 1..Len(t) /\ Distinct(t)
  BY <1>1 DEF Stacks
<1>4. r \in Seq(S) /\ Len(r) >= 1 /\ r[1] = e
      /\ DOMAIN r \subseteq DOMAIN t /\ \A k \in DOMAIN r : r[k] = t[k]
  <2>1. CASE Len(t) > capacity
    <3> DEFINE u == SubSeq(t, 1, capacity)
    <3>1. u \in Seq(S) /\ Len(u) = capacity /\ \A k \in 1..capacity : u[k] = t[k]
      BY <1>1, <1>3, <2>1
    <3>2. r = u
      BY <1>2, <2>1
    <3> HIDE DEF u
    <3>3. DOMAIN r = 1..capacity
      BY <3>1, <3>2
    <3>4. 1 \in 1..capacity
      OBVIOUS
    <3> QED
      BY <1>1, <1>3, <2>1, <3>1, <3>2, <3>3, <3>4
  <2>2. CASE ~ (Len(t) > capacity)
    BY <1>1, <1>2, <1>3, <2>2
  <2> QED
    BY <2>1, <2>2
<1>5. Distinct(r)
  BY <1>3, <1>4 DEF Distinct
<1>6. r # <<>> /\ Head(r) = e
  BY <1>4
<1>7. NotesOf(r) \subseteq NotesOf(t)
  BY <1>4 DEF NotesOf
<1>8. e.note \in NotesOf(r)
  <2>1. 1 \in DOMAIN r
    BY <1>4
  <2> QED
    BY <1>4, <2>1 DEF NotesOf
<1>9. r \in Stacks(S)
  BY <1>4, <1>5 DEF Stacks
<1> QED
  BY <1>1, <1>6, <1>7, <1>8, <1>9 DEF r

-----------------------------------------------------------------------------
\* The state of a part.
Allocators     == UNION {Pools(size) : size \in 0..127}
Voicings       == UNION {[0..(n - 1) -> Notes \cup {Silent}] : n \in 1..6}
KeyStacks      == Stacks([note : Notes, flagged : BOOLEAN])
NoteLists      == Stacks([note : Notes])
GeneratedNotes == Notes \cup {NoNote, kAnyNote}
PolyphonyModes == {"MONO", "POLY", "SOLO", "UNISON_2X", "CYCLIC", "CHAIN"}
SequencerModes == {"STEP", "ARPEGGIATOR", "NOTE", "LATCH", "CHORD"}

Parts ==
  [num     : 1..6,
   pmode   : PolyphonyModes,
   amode   : SequencerModes,
   seen    : SequencerModes,
   scale   : SUBSET Notes,
   dir     : {"LINE", "CHORD"},
   ignore  : BOOLEAN,
   pressed : KeyStacks,
   mono    : NoteLists,
   poly    : Allocators,
   prev    : GeneratedNotes,
   voice   : Voicings,
   chain   : NoteLists,
   next    : PolyphonyModes,
   out     : SUBSET Notes]

LEMMA AllocatorIsPool ==
  ASSUME NEW a
  PROVE  a \in Allocators <=> IsPool(a)
<1>1. ASSUME a \in Allocators PROVE IsPool(a)
  <2>1. PICK size \in 0..127 : a \in Pools(size)
    BY <1>1 DEF Allocators
  <2>2. a.size = size
    BY <2>1 DEF Pools
  <2> QED
    BY <2>1, <2>2 DEF IsPool
<1>2. ASSUME IsPool(a) PROVE a \in Allocators
  BY <1>2 DEF Allocators, IsPool
<1> QED
  BY <1>1, <1>2

\* What the voices sound depends on these fields only.
SameVoices(q, r) ==
  /\ r.num = q.num /\ r.pmode = q.pmode
  /\ r.mono = q.mono /\ r.poly = q.poly /\ r.voice = q.voice

\* An assignment to one of the fields leaves the others alone.
LEMMA SetOtherFields ==
  ASSUME NEW q \in Parts
  PROVE  /\ \A x \in SequencerModes :
              [q EXCEPT !.amode = x] \in Parts /\ SameVoices(q, [q EXCEPT !.amode = x])
         /\ \A x \in {"LINE", "CHORD"} :
              [q EXCEPT !.dir = x] \in Parts /\ SameVoices(q, [q EXCEPT !.dir = x])
         /\ \A x \in SUBSET Notes :
              [q EXCEPT !.scale = x] \in Parts /\ SameVoices(q, [q EXCEPT !.scale = x])
         /\ \A x \in SUBSET Notes :
              [q EXCEPT !.out = x] \in Parts /\ SameVoices(q, [q EXCEPT !.out = x])
         /\ \A x \in BOOLEAN :
              [q EXCEPT !.ignore = x] \in Parts /\ SameVoices(q, [q EXCEPT !.ignore = x])
         /\ \A x \in KeyStacks :
              [q EXCEPT !.pressed = x] \in Parts /\ SameVoices(q, [q EXCEPT !.pressed = x])
         /\ \A x \in NoteLists :
              [q EXCEPT !.chain = x] \in Parts /\ SameVoices(q, [q EXCEPT !.chain = x])
         /\ \A x \in GeneratedNotes :
              [q EXCEPT !.prev = x] \in Parts /\ SameVoices(q, [q EXCEPT !.prev = x])
         /\ \A x \in PolyphonyModes :
              [q EXCEPT !.next = x] \in Parts /\ SameVoices(q, [q EXCEPT !.next = x])
BY DEF Parts, SameVoices

LEMMA SetVoiceFields ==
  ASSUME NEW q \in Parts
  PROVE  /\ \A x \in NoteLists :
              LET r == [q EXCEPT !.mono = x]
              IN  /\ r \in Parts /\ r.num = q.num /\ r.pmode = q.pmode
                  /\ r.mono = x /\ r.poly = q.poly /\ r.voice = q.voice
         /\ \A x \in Allocators :
              LET r == [q EXCEPT !.poly = x]
              IN  /\ r \in Parts /\ r.num = q.num /\ r.pmode = q.pmode
                  /\ r.mono = q.mono /\ r.poly = x /\ r.voice = q.voice
         /\ \A x \in Voicings :
              LET r == [q EXCEPT !.voice = x]
              IN  /\ r \in Parts /\ r.num = q.num /\ r.pmode = q.pmode
                  /\ r.mono = q.mono /\ r.poly = q.poly /\ r.voice = x
                  /\ r.pressed = q.pressed
BY DEF Parts

-----------------------------------------------------------------------------
\* The inductive invariant on the part.  Every voice is Silent or was told a
\* note.
Voiced(q) == q \in Parts /\ q.voice \in [AllVoices(q) -> Notes \cup {Silent}]

\* MonoSoundsTop, said of any part; the allocator that is not used is empty.
MonoOK(q) ==
  /\ q.poly = NewPool(0, FALSE)
  /\ \A v \in AllVoices(q) :
       q.voice[v] = IF v \in MonoVoices(q) /\ q.mono # <<>> THEN TopOf(q.mono) ELSE Silent

\* What a voice was told and what the allocator has on its slot.  (In CYCLIC mode
\* the note of the freed slots is the one that cannot be told.)
SlotMatches(q, told, s) ==
  /\ told # Silent => s = On(told)
  /\ s.active /\ (q.pmode = "CYCLIC" => s.note # MaxNote) => told = s.note

Disjoint(q) == q.pmode = "UNISON_2X" => q.num = 1 \/ q.num % 2 = 0

\* In CYCLIC mode the slots do not remember one note each; the active ones do, and
\* the others have been cleared.
ActiveOnce(a) ==
  /\ \A i, j \in VoicesOf(a) :
       a.pool[i] = a.pool[j] /\ a.pool[i].active /\ a.pool[i].note # MaxNote => i = j
  /\ \A i \in VoicesOf(a) : a.pool[i].active \/ a.pool[i] = Off(0)

\* What a voice sounds is active on one of the slots of the voice.
HasSlot(q, v) ==
  q.voice[v] # Silent =>
    \E i \in LocalSlots(q) : v \in SlotVoices(q, i) /\ q.poly.pool[i] = On(q.voice[v])

PolyOK(q) ==
  /\ WellFormed(q.poly) /\ q.poly.size = PolySize(q)
  /\ q.poly.cyclic = NonCyclic <=> q.pmode # "CYCLIC"
  /\ q.pmode = "CYCLIC" => ActiveOnce(q.poly)
  /\ \A v \in AllVoices(q) : HasSlot(q, v)
  /\ Disjoint(q) =>
       \A i \in LocalSlots(q) : \A v \in SlotVoices(q, i) :
         SlotMatches(q, q.voice[v], q.poly.pool[i])

PartOK(q) ==
  /\ Voiced(q)
  /\ IsMono(q) => MonoOK(q)
  /\ ~IsMono(q) => PolyOK(q)

LEMMA SameVoicesOK ==
  ASSUME NEW q, PartOK(q), NEW r \in Parts, SameVoices(q, r)
  PROVE  PartOK(r)
<1>1. /\ AllVoices(r) = AllVoices(q) /\ MonoVoices(r) = MonoVoices(q)
      /\ IsMono(r) <=> IsMono(q)
      /\ PolySize(r) = PolySize(q) /\ LocalSlots(r) = LocalSlots(q)
      /\ \A i : SlotVoices(r, i) = SlotVoices(q, i)
      /\ Disjoint(r) <=> Disjoint(q)
  BY DEF SameVoices, AllVoices, MonoVoices, IsMono, PolySize, LocalSlots, SlotVoices,
         GetNextVoice, Disjoint
<1>2. \A told, s : SlotMatches(r, told, s) <=> SlotMatches(q, told, s)
  BY DEF SameVoices, SlotMatches
<1>3. \A v : HasSlot(r, v) <=> HasSlot(q, v)
  BY <1>1 DEF SameVoices, HasSlot
<1> QED
  BY <1>1, <1>2, <1>3 DEF SameVoices, PartOK, Voiced, MonoOK, PolyOK

\* Telling voices changes only what they were told.
LEMMA TellVoices ==
  ASSUME NEW q, Voiced(q), NEW targets, NEW what \in Notes \cup {Silent}
  PROVE  LET r == Tell(q, targets, what)
         IN  /\ Voiced(r) /\ r.num = q.num /\ r.pmode = q.pmode
             /\ r.mono = q.mono /\ r.poly = q.poly /\ r.pressed = q.pressed
             /\ AllVoices(r) = AllVoices(q)
             /\ \A v \in AllVoices(q) :
                  r.voice[v] = IF v \in targets THEN what ELSE q.voice[v]
<1> DEFINE told == Told(q.voice, targets, what)
           r == Tell(q, targets, what)
<1>1. told \in [AllVoices(q) -> Notes \cup {Silent}]
  BY DEF Told, Voiced
<1>2. \A v \in AllVoices(q) : told[v] = IF v \in targets THEN what ELSE q.voice[v]
  BY DEF Told, Voiced
<1>3. r = [q EXCEPT !.voice = told]
  BY DEF Tell
<1> HIDE DEF told, r
<1>4. told \in Voicings
  BY <1>1 DEF Voicings, AllVoices, Voiced, Parts
<1>5. /\ r \in Parts /\ r.num = q.num /\ r.pmode = q.pmode
      /\ r.mono = q.mono /\ r.poly = q.poly /\ r.voice = told /\ r.pressed = q.pressed
  BY <1>3, <1>4, SetVoiceFields DEF Voiced
<1> QED
  BY <1>1, <1>2, <1>5 DEF Voiced, AllVoices, r

-----------------------------------------------------------------------------
\* The slots of this unit have voices of its own, and no voice has two slots
\* but for the odd one of UNISON_2X.
LEMMA SlotsAreApart ==
  ASSUME NEW q \in Parts, q.poly.size = PolySize(q), Disjoint(q), NEW i \in LocalSlots(q)
  PROVE  /\ \A v \in SlotVoices(q, i) : v \in AllVoices(q)
         /\ \A j \in LocalSlots(q) :
              (\E v \in SlotVoices(q, i) : v \in SlotVoices(q, j)) => i = j
<1> DEFINE n == q.num
           L == LocalSlots(q)
<1>0. n \in 1..6
  BY DEF Parts
<1>1. CASE q.pmode # "UNISON_2X"
  <2>1. \A j : SlotVoices(q, j) = {j}
    BY <1>1 DEF SlotVoices
  <2>2. L \in SUBSET (0..(n - 1))
    <3>1. CASE q.pmode = "CHAIN"
      <4>1. q.poly.size = 2 * n /\ (2 * n) \div 2 = n
        BY <1>0, <3>1 DEF PolySize
      <4>2. \A j \in L : j \in 0..(2 * n - 1) /\ j < n
        BY <3>1, <4>1 DEF LocalSlots, VoicesOf
      <4> QED
        BY <1>0, <4>2
    <3>2. CASE q.pmode # "CHAIN"
      BY <1>1, <3>2 DEF PolySize, LocalSlots, VoicesOf
    <3> QED
      BY <3>1, <3>2
  <2> QED
    BY <2>1, <2>2 DEF AllVoices
<1>2. CASE q.pmode = "UNISON_2X"
  <2>1. L = 0..(((n + 1) \div 2) - 1)
    BY <1>2 DEF LocalSlots, PolySize, VoicesOf
  <2>2. \A j : SlotVoices(q, j) = {2 * j, IF 2 * j + 1 < n THEN 2 * j + 1 ELSE 0}
    BY <1>2 DEF SlotVoices, GetNextVoice
  <2>3. n = 1 \/ n % 2 = 0
    BY <1>2 DEF Disjoint
  <2>4. AllVoices(q) = 0..(n - 1)
    BY DEF AllVoices
  <2> HIDE DEF n, L
  <2>5. CASE n = 1
    BY <2>1, <2>2, <2>4, <2>5 DEF L
  <2>6. CASE n # 1
    <3>1. PICK k \in 1..3 : n = 2 * k
      BY <1>0, <2>3, <2>6
    <3>2. (2 * k + 1) \div 2 = k
      OBVIOUS
    <3>3. L = 0..(k - 1)
      BY <2>1, <3>1, <3>2
    <3>4. \A j \in L : SlotVoices(q, j) = {2 * j, 2 * j + 1}
      BY <2>2, <3>1, <3>3
    <3> QED
      BY <2>4, <3>1, <3>3, <3>4 DEF L
  <2> QED
    BY <2>5, <2>6
<1> QED
  BY <1>1, <1>2

\* Writing a slot and telling its voices keeps the two in agreement.
LEMMA SlotWritten ==
  ASSUME NEW q, Voiced(q), PolyOK(q), NEW c \in VoicesOf(q.poly), NEW s,
         NEW what \in Notes \cup {Silent}, SlotMatches(q, what, s),
         NEW r, Voiced(r), r.num = q.num, r.pmode = q.pmode,
         WellFormed(r.poly), SameKind(q.poly, r.poly),
         r.poly.pool = [q.poly.pool EXCEPT ![c] = s],
         q.pmode = "CYCLIC" => ActiveOnce(r.poly),
         \A v \in AllVoices(q) :
           r.voice[v] = IF c \in LocalSlots(q) /\ v \in SlotVoices(q, c) THEN what
                        ELSE q.voice[v]
  PROVE  PolyOK(r)
<1>1. /\ AllVoices(r) = AllVoices(q) /\ PolySize(r) = PolySize(q)
      /\ LocalSlots(r) = LocalSlots(q)
      /\ \A i : SlotVoices(r, i) = SlotVoices(q, i)
      /\ Disjoint(r) <=> Disjoint(q)
      /\ \A told, t : SlotMatches(r, told, t) <=> SlotMatches(q, told, t)
  BY DEF AllVoices, PolySize, LocalSlots, SlotVoices, GetNextVoice, Disjoint, SlotMatches,
         SameKind
<1>2. /\ r.poly.size = PolySize(r)
      /\ r.poly.cyclic = NonCyclic <=> r.pmode # "CYCLIC"
  BY <1>1 DEF PolyOK, SameKind
<1>3. ASSUME Disjoint(q), NEW i \in LocalSlots(q), NEW v \in SlotVoices(q, i)
      PROVE  SlotMatches(q, r.voice[v], r.poly.pool[i])
  <2>1. q \in Parts /\ q.poly.size = PolySize(q)
    BY DEF PolyOK, Voiced
  <2>2. v \in AllVoices(q)
    BY <1>3, <2>1, SlotsAreApart
  <2>3. i \in VoicesOf(q.poly) /\ q.poly.pool \in [VoicesOf(q.poly) -> VoiceState]
    BY <1>3, PoolFields DEF LocalSlots, PolyOK, WellFormed
  <2>4. CASE i = c
    <3>1. r.voice[v] = what /\ r.poly.pool[i] = s
      BY <1>3, <2>2, <2>3, <2>4
    <3> QED
      BY <3>1
  <2>5. CASE i # c
    <3>1. ~ (c \in LocalSlots(q) /\ v \in SlotVoices(q, c))
      BY <1>3, <2>1, <2>5, SlotsAreApart
    <3>2. r.voice[v] = q.voice[v] /\ r.poly.pool[i] = q.poly.pool[i]
      BY <2>2, <2>3, <2>5, <3>1
    <3> QED
      BY <1>3, <3>2 DEF PolyOK
  <2> QED
    BY <2>4, <2>5
<1>4. Disjoint(r) => \A i \in LocalSlots(r) : \A v \in SlotVoices(r, i) :
                       SlotMatches(r, r.voice[v], r.poly.pool[i])
  BY <1>1, <1>3
<1>5. ASSUME NEW v \in AllVoices(r) PROVE HasSlot(r, v)
  <2>1. SUFFICES ASSUME r.voice[v] # Silent
                 PROVE  \E i \in LocalSlots(q) :
                          v \in SlotVoices(q, i) /\ r.poly.pool[i] = On(r.voice[v])
    BY <1>1 DEF HasSlot
  <2>2. \A i \in LocalSlots(q) : i \in VoicesOf(q.poly)
    BY DEF LocalSlots
  <2>3. q.poly.pool \in [VoicesOf(q.poly) -> VoiceState]
    BY PoolFields DEF PolyOK, WellFormed
  <2>4. CASE c \in LocalSlots(q) /\ v \in SlotVoices(q, c)
    <3>1. r.voice[v] = what /\ r.poly.pool[c] = s
      BY <1>1, <1>5, <2>3, <2>4
    <3> QED
      BY <2>1, <2>4, <3>1 DEF SlotMatches
  <2>5. CASE ~ (c \in LocalSlots(q) /\ v \in SlotVoices(q, c))
    <3>1. r.voice[v] = q.voice[v]
      BY <1>1, <1>5, <2>5
    <3>2. PICK i \in LocalSlots(q) :
                 v \in SlotVoices(q, i) /\ q.poly.pool[i] = On(q.voice[v])
      BY <1>1, <1>5, <2>1, <3>1 DEF PolyOK, HasSlot
    <3>3. i # c /\ r.poly.pool[i] = q.poly.pool[i]
      BY <2>2, <2>3, <2>5, <3>2
    <3> QED
      BY <3>1, <3>2, <3>3
  <2> QED
    BY <2>4, <2>5
<1> QED
  BY <1>2, <1>4, <1>5 DEF PolyOK

-----------------------------------------------------------------------------
\* Address tells the voices of a slot of this unit, and nothing to the others.
LEMMA Addressed ==
  ASSUME NEW q, Voiced(q), NEW c, NEW note, NEW what \in Notes \cup {Silent},
         what # Silent => note \in Notes
  PROVE  LET r == Address(q, c, note, what)
         IN  /\ Voiced(r) /\ r.num = q.num /\ r.pmode = q.pmode
             /\ r.mono = q.mono /\ r.poly = q.poly
             /\ \A v \in AllVoices(q) :
                  r.voice[v] = IF c \in LocalSlots(q) /\ v \in SlotVoices(q, c) THEN what
                               ELSE q.voice[v]
<1> DEFINE r == Address(q, c, note, what)
           chain == IF what = Silent THEN Without(q.chain, note) ELSE Forwarded(q.chain, note)
<1>0. q \in Parts
  BY DEF Voiced
<1>1. CASE c \in LocalSlots(q)
  <2>1. r = Tell(q, SlotVoices(q, c), what)
    BY <1>1 DEF Address
  <2> QED
    BY <1>1, <2>1, TellVoices
<1>2. CASE c \notin LocalSlots(q) /\ q.pmode # "CHAIN"
  BY <1>2 DEF Address
<1>3. CASE c \notin LocalSlots(q) /\ q.pmode = "CHAIN"
  <2>1. r = [q EXCEPT !.chain = chain]
    BY <1>3 DEF Address
  <2>2. q.chain \in NoteLists
    BY <1>0 DEF Parts
  <2>3. chain \in NoteLists
    <3>1. Without(q.chain, note) \in NoteLists
      BY <2>2, WithoutStack DEF NoteLists
    <3>2. note \in Notes => Played(q.chain, [note |-> note], NextVoices) \in NoteLists
      BY <2>2, PlayedStack, PartOpsAssumption DEF NoteLists
    <3> QED
      BY <2>2, <3>1, <3>2 DEF Forwarded
  <2> HIDE DEF chain
  <2>4. [q EXCEPT !.chain = chain] \in Parts /\ SameVoices(q, [q EXCEPT !.chain = chain])
    BY <1>0, <2>3, SetOtherFields
  <2> QED
    BY <1>3, <2>1, <2>4 DEF SameVoices, Voiced, AllVoices
<1> QED
  BY <1>1, <1>2, <1>3

\* A note that is given to a slot, or taken from it, and addressed to its voices.
LEMMA AddressedOK ==
  ASSUME NEW q, PartOK(q), ~IsMono(q), NEW c \in VoicesOf(q.poly), NEW s, NEW note,
         NEW what \in Notes \cup {Silent}, SlotMatches(q, what, s),
         what # Silent => note \in Notes,
         NEW u, Voiced(u), u.num = q.num, u.pmode = q.pmode, u.voice = q.voice,
         WellFormed(u.poly), SameKind(q.poly, u.poly),
         u.poly.pool = [q.poly.pool EXCEPT ![c] = s],
         q.pmode = "CYCLIC" => ActiveOnce(u.poly)
  PROVE  PartOK(Address(u, c, note, what))
<1> DEFINE r == Address(u, c, note, what)
<1>1. Voiced(q) /\ PolyOK(q)
  BY DEF PartOK
<1>2. /\ AllVoices(u) = AllVoices(q) /\ LocalSlots(u) = LocalSlots(q)
      /\ \A i : SlotVoices(u, i) = SlotVoices(q, i)
  BY DEF AllVoices, LocalSlots, SlotVoices, GetNextVoice, SameKind
<1>3. /\ Voiced(r) /\ r.num = q.num /\ r.pmode = q.pmode /\ r.poly = u.poly
      /\ \A v \in AllVoices(q) :
           r.voice[v] = IF c \in LocalSlots(q) /\ v \in SlotVoices(q, c) THEN what
                        ELSE q.voice[v]
  BY <1>2, Addressed
<1> HIDE DEF r
<1>4. PolyOK(r)
  BY <1>1, <1>3, SlotWritten
<1>5. ~IsMono(r)
  BY <1>3 DEF IsMono
<1> QED
  BY <1>3, <1>4, <1>5 DEF PartOK, r

-----------------------------------------------------------------------------
\* InternalNoteOn, case by case: the monophonic stack, a note that is playing, a
\* note that is given a slot.
LEMMA MonoNoteOnOK ==
  ASSUME NEW q, PartOK(q), IsMono(q), NEW note \in Notes
  PROVE  PartOK(Tell([q EXCEPT !.mono = Played(@, [note |-> note], MonoCapacity)],
                     MonoVoices(q), note))
<1> DEFINE m == Played(q.mono, [note |-> note], MonoCapacity)
           u == [q EXCEPT !.mono = m]
           r == Tell(u, MonoVoices(q), note)
<1>1. q \in Parts /\ Voiced(q) /\ MonoOK(q) /\ q.mono \in NoteLists
  BY DEF PartOK, Voiced, Parts
<1>2. m \in NoteLists /\ m # <<>> /\ Head(m) = [note |-> note]
  <2> DEFINE E == [note : Notes]
             e == [note |-> note]
  <2>1. q.mono \in Stacks(E) /\ e \in E /\ NoteLists = Stacks(E) /\ MonoCapacity \in Nat \ {0}
    BY <1>1, PartOpsAssumption DEF NoteLists
  <2>3. m = Played(q.mono, e, MonoCapacity)
    OBVIOUS
  <2> HIDE DEF E, e, m
  <2>4. m \in Stacks(E)
    BY <2>1, <2>3, PlayedStack
  <2>5. m # <<>>
    BY <2>1, <2>3, PlayedStack
  <2>6. Head(m) = e
    <3>1. Head(Played(q.mono, e, MonoCapacity)) = e
      BY <2>1, PlayedStack
    <3> QED
      BY <2>3, <3>1
  <2> QED
    BY <2>1, <2>4, <2>5, <2>6 DEF e
<1>3. TopOf(m) = note
  BY <1>2 DEF TopOf
<1> HIDE DEF m
<1>4. /\ u \in Parts /\ u.num = q.num /\ u.pmode = q.pmode
      /\ u.mono = m /\ u.poly = q.poly /\ u.voice = q.voice
  BY <1>1, <1>2, SetVoiceFields
<1> HIDE DEF u
<1>5. Voiced(u) /\ AllVoices(u) = AllVoices(q)
  BY <1>1, <1>4 DEF Voiced, AllVoices
<1>6. /\ Voiced(r) /\ r.num = q.num /\ r.pmode = q.pmode /\ r.mono = m /\ r.poly = q.poly
      /\ \A v \in AllVoices(q) :
           r.voice[v] = IF v \in MonoVoices(q) THEN note ELSE q.voice[v]
  BY <1>4, <1>5, TellVoices
<1> HIDE DEF r
<1>7. IsMono(r) /\ AllVoices(r) = AllVoices(q) /\ MonoVoices(r) = MonoVoices(q)
  BY <1>6 DEF IsMono, AllVoices, MonoVoices
<1>8. MonoOK(r)
  BY <1>1, <1>2, <1>3, <1>6, <1>7 DEF MonoOK
<1> QED
  BY <1>6, <1>7, <1>8 DEF PartOK, r, u, m

LEMMA PlayingNoteOnOK ==
  ASSUME NEW q, PartOK(q), ~IsMono(q), NEW note \in Notes,
         FindActive(q.poly, note) # NoVoice
  PROVE  PartOK(Address(q, FindActive(q.poly, note), note, note))
<1> DEFINE c == FindActive(q.poly, note)
<1>1. PolyOK(q) /\ Voiced(q) /\ WellFormed(q.poly) /\ IsPool(q.poly)
  BY DEF PartOK, PolyOK, WellFormed
<1>2. c \in VoicesOf(q.poly) /\ q.poly.pool[c] = On(note)
  BY <1>1, FindActiveIsFirst
<1>3. q.poly.pool = [q.poly.pool EXCEPT ![c] = On(note)]
  BY <1>1, <1>2, PoolFields
<1>4. SlotMatches(q, note, On(note))
  BY DEF SlotMatches, On
<1>5. SameKind(q.poly, q.poly) /\ (q.pmode = "CYCLIC" => ActiveOnce(q.poly))
  BY <1>1 DEF SameKind, PolyOK
<1> HIDE DEF c
<1> QED
  BY <1>1, <1>2, <1>3, <1>4, <1>5, AddressedOK DEF c

LEMMA GivenNoteOnOK ==
  ASSUME NEW q, PartOK(q), ~IsMono(q), NEW note \in Notes,
         FindActive(q.poly, note) = NoVoice
  PROVE  PartOK(Address([q EXCEPT !.poly = AfterNoteOn(@, note)],
                        NoteOnVoice(q.poly, note), note, note))
<1> DEFINE c == NoteOnVoice(q.poly, note)
           b == AfterNoteOn(q.poly, note)
           u == [q EXCEPT !.poly = b]
<1>1. q \in Parts /\ PolyOK(q) /\ Voiced(q) /\ WellFormed(q.poly) /\ IsPool(q.poly)
  BY DEF PartOK, PolyOK, WellFormed, Voiced
<1>2. q.poly.size # 0
  <2>1. q.num \in 1..6 /\ q.poly.size = PolySize(q)
    BY <1>1 DEF PolyOK, Parts
  <2>2. \A n \in 1..6 : (n + 1) \div 2 # 0
    OBVIOUS
  <2> QED
    BY <2>1, <2>2 DEF PolySize
<1>3. /\ WellFormed(b) /\ SameKind(q.poly, b) /\ c \in VoicesOf(q.poly)
      /\ b.pool = [q.poly.pool EXCEPT ![c] = On(note)]
  BY <1>1, <1>2, NoteOnWellFormed DEF NoteOnVoice
<1>4. b \in Allocators
  BY <1>3, AllocatorIsPool DEF WellFormed
<1>5. ASSUME q.pmode = "CYCLIC" PROVE ActiveOnce(b)
  <2>1. \A v \in VoicesOf(q.poly) : q.poly.pool[v] # On(note)
    BY <1>1, FindActiveIsFirst
  <2>2. \A v \in VoicesOf(q.poly) :
          b.pool[v] = IF v = c THEN On(note) ELSE q.poly.pool[v]
    BY <1>1, <1>3, PoolFields
  <2>3. VoicesOf(b) = VoicesOf(q.poly) /\ ActiveOnce(q.poly)
    BY <1>1, <1>3, <1>5 DEF SameKind, PolyOK
  <2>4. On(note).active
    BY DEF On
  <2> HIDE DEF b, c
  <2>5. \A i, j \in VoicesOf(b) :
          b.pool[i] = b.pool[j] /\ b.pool[i].active /\ b.pool[i].note # MaxNote => i = j
    BY <2>1, <2>2, <2>3 DEF ActiveOnce
  <2>6. \A i \in VoicesOf(b) : b.pool[i].active \/ b.pool[i] = Off(0)
    BY <2>2, <2>3, <2>4 DEF ActiveOnce
  <2> QED
    BY <2>5, <2>6 DEF ActiveOnce
<1>6. SlotMatches(q, note, On(note))
  BY DEF SlotMatches, On
<1> HIDE DEF b
<1>7. /\ u \in Parts /\ u.num = q.num /\ u.pmode = q.pmode
      /\ u.poly = b /\ u.voice = q.voice
  BY <1>1, <1>4, SetVoiceFields
<1> HIDE DEF u, c
<1>8. Voiced(u)
  BY <1>1, <1>7 DEF Voiced, AllVoices
<1>9. PartOK(Address(u, c, note, note))
  BY <1>3, <1>5, <1>6, <1>7, <1>8, AddressedOK
<1> QED
  BY <1>9 DEF u, b, c

LEMMA InternalNoteOnOK ==
  ASSUME NEW q, PartOK(q), NEW note \in Notes
  PROVE  PartOK(InternalNoteOn(q, note))
<1> DEFINE u == [q EXCEPT !.out = @ \cup {note}]
<1>1. q \in Parts /\ q.out \cup {note} \in SUBSET Notes
  BY DEF PartOK, Voiced, Parts
<1>2. u \in Parts /\ SameVoices(q, u)
  BY <1>1, SetOtherFields
<1> HIDE DEF u
<1>3. PartOK(u)
  BY <1>2, SameVoicesOK
<1>4. u.poly = q.poly /\ (IsMono(u) <=> IsMono(q)) /\ MonoVoices(u) = MonoVoices(q)
  BY <1>2 DEF SameVoices, IsMono, MonoVoices, AllVoices
<1>5. CASE note \notin q.scale
  BY <1>5 DEF InternalNoteOn
<1>6. CASE note \in q.scale /\ IsMono(q)
  BY <1>3, <1>4, <1>6, MonoNoteOnOK DEF InternalNoteOn, u
<1>7. CASE note \in q.scale /\ ~IsMono(q) /\ FindActive(q.poly, note) # NoVoice
  BY <1>3, <1>4, <1>7, PlayingNoteOnOK DEF InternalNoteOn, u
<1>8. CASE note \in q.scale /\ ~IsMono(q) /\ FindActive(q.poly, note) = NoVoice
  BY <1>3, <1>4, <1>8, GivenNoteOnOK DEF InternalNoteOn, u
<1> QED
  BY <1>5, <1>6, <1>7, <1>8

-----------------------------------------------------------------------------
\* InternalNoteOff likewise: the note may be any.
LEMMA MonoNoteOffOK ==
  ASSUME NEW q, PartOK(q), IsMono(q), NEW note
  PROVE  LET r == [q EXCEPT !.mono = Without(@, note)]
         IN  PartOK(IF r.mono = <<>> THEN Tell(r, MonoVoices(q), Silent)
                    ELSE IF TopOf(q.mono) = note
                    THEN Tell(r, MonoVoices(q), TopOf(r.mono))
                    ELSE r)
<1> DEFINE m == Without(q.mono, note)
           u == [q EXCEPT !.mono = m]
           r == IF m = <<>> THEN Tell(u, MonoVoices(q), Silent)
                ELSE IF TopOf(q.mono) = note THEN Tell(u, MonoVoices(q), TopOf(m))
                ELSE u
<1>1. q \in Parts /\ Voiced(q) /\ MonoOK(q) /\ q.mono \in NoteLists
  BY DEF PartOK, Voiced, Parts
<1>2. /\ m \in NoteLists
      /\ q.mono = <<>> => m = <<>>
      /\ q.mono # <<>> /\ Head(q.mono).note # note => m # <<>> /\ Head(m) = Head(q.mono)
  BY <1>1, WithoutStack DEF NoteLists
<1>3. m # <<>> => TopOf(m) \in Notes /\ (TopOf(q.mono) # note => TopOf(m) = TopOf(q.mono))
  <2> HIDE DEF m
  <2>1. m # <<>> => Head(m) \in [note : Notes]
    BY <1>2, StackElements DEF NoteLists
  <2>2. m # <<>> => TopOf(m) = Head(m).note /\ TopOf(m) \in Notes
    BY <2>1 DEF TopOf
  <2> QED
    BY <1>2, <2>2 DEF TopOf
<1>4. m # <<>> => q.mono # <<>>
  BY <1>2
<1> HIDE DEF m
<1>5. /\ u \in Parts /\ u.num = q.num /\ u.pmode = q.pmode
      /\ u.mono = m /\ u.poly = q.poly /\ u.voice = q.voice
  BY <1>1, <1>2, SetVoiceFields
<1> HIDE DEF u
<1>6. Voiced(u) /\ AllVoices(u) = AllVoices(q)
  BY <1>1, <1>5 DEF Voiced, AllVoices
<1>7. /\ Voiced(r) /\ r.num = q.num /\ r.pmode = q.pmode /\ r.mono = m /\ r.poly = q.poly
      /\ \A v \in AllVoices(q) :
           r.voice[v] = IF v \in MonoVoices(q) /\ m = <<>> THEN Silent
                        ELSE IF v \in MonoVoices(q) /\ TopOf(q.mono) = note THEN TopOf(m)
                        ELSE q.voice[v]
  BY <1>3, <1>5, <1>6, TellVoices
<1>8. PartOK(r)
  <2> HIDE DEF r
  <2>1. IsMono(r) /\ AllVoices(r) = AllVoices(q) /\ MonoVoices(r) = MonoVoices(q)
    BY <1>7 DEF IsMono, AllVoices, MonoVoices
  <2>2. MonoOK(r)
    BY <1>1, <1>3, <1>4, <1>7, <2>1 DEF MonoOK
  <2> QED
    BY <1>7, <2>1, <2>2 DEF PartOK
<1> QED
  BY <1>5, <1>8 DEF u, m

LEMMA PolyNoteOffOK ==
  ASSUME NEW q, PartOK(q), ~IsMono(q), NEW note
  PROVE  PartOK(Address([q EXCEPT !.poly = AfterNoteOff(@, note)],
                        Find(q.poly, note), note, Silent))
<1> DEFINE c == Find(q.poly, note)
           b == AfterNoteOff(q.poly, note)
           u == [q EXCEPT !.poly = b]
           s == IF q.poly.cyclic = NonCyclic THEN Off(note) ELSE On(MaxNote)
<1>1. q \in Parts /\ PolyOK(q) /\ Voiced(q) /\ WellFormed(q.poly) /\ IsPool(q.poly)
  BY DEF PartOK, PolyOK, WellFormed, Voiced
<1>2. /\ WellFormed(b) /\ SameKind(q.poly, b)
      /\ c = NoVoice => b = q.poly
      /\ c # NoVoice => c \in VoicesOf(q.poly) /\ b.pool = [q.poly.pool EXCEPT ![c] = s]
  <2> DEFINE a == q.poly
  <2>1. WellFormed(a)
    BY <1>1
  <2> HIDE DEF a
  <2>2. WellFormed(AfterNoteOff(a, note)) /\ SameKind(a, AfterNoteOff(a, note))
    BY <2>1, NoteOffWellFormed, ZenonT(60)
  <2>3. Find(a, note) = NoVoice => AfterNoteOff(a, note) = a
    BY <2>1, NoteOffWellFormed, ZenonT(60)
  <2>4. Find(a, note) # NoVoice =>
          /\ Find(a, note) \in VoicesOf(a)
          /\ AfterNoteOff(a, note).pool =
               [a.pool EXCEPT ![Find(a, note)] =
                  IF a.cyclic = NonCyclic THEN Off(note) ELSE On(MaxNote)]
    BY <2>1, NoteOffWellFormed, ZenonT(60)
  <2> QED
    BY <2>2, <2>3, <2>4 DEF a
<1>3. b \in Allocators
  BY <1>2, AllocatorIsPool DEF WellFormed
<1> HIDE DEF b, c
<1>4. /\ u \in Parts /\ u.num = q.num /\ u.pmode = q.pmode
      /\ u.poly = b /\ u.mono = q.mono /\ u.voice = q.voice
  BY <1>1, <1>3, SetVoiceFields
<1> HIDE DEF u
<1>5. Voiced(u)
  BY <1>1, <1>4 DEF Voiced, AllVoices
<1>6. CASE c = NoVoice
  <2>1. c \notin LocalSlots(u)
    <3>1. IsPool(b)
      BY <1>2 DEF WellFormed
    <3>2. \A v \in VoicesOf(u.poly) : v \in Nat /\ v <= 126
      BY <1>4, <3>1, PoolFields
    <3> QED
      BY <1>6, <3>2 DEF LocalSlots, NoVoice
  <2> DEFINE r == Address(u, c, note, Silent)
  <2>2. /\ Voiced(r) /\ r.num = q.num /\ r.pmode = q.pmode
        /\ r.mono = q.mono /\ r.poly = q.poly
        /\ \A v \in AllVoices(u) : r.voice[v] = q.voice[v]
    BY <1>2, <1>4, <1>5, <1>6, <2>1, Addressed
  <2> HIDE DEF r
  <2>3. r.voice = q.voice
    <3>1. AllVoices(r) = AllVoices(q) /\ AllVoices(u) = AllVoices(q)
      BY <1>4, <2>2 DEF AllVoices
    <3> QED
      BY <1>1, <2>2, <3>1 DEF Voiced
  <2>4. SameVoices(q, r) /\ r \in Parts
    BY <2>2, <2>3 DEF SameVoices, Voiced
  <2>5. PartOK(r)
    BY <2>4, SameVoicesOK
  <2> QED
    BY <2>5 DEF r, u, b, c
<1>7. CASE c # NoVoice
  <2>1. SlotMatches(q, Silent, s)
    BY <1>1 DEF SlotMatches, Off, On, PolyOK
  <2>2. ASSUME q.pmode = "CYCLIC" PROVE ActiveOnce(b)
    <3>1. s = On(MaxNote)
      BY <1>1, <2>2 DEF PolyOK
    <3>2. \A v \in VoicesOf(q.poly) : b.pool[v] = IF v = c THEN s ELSE q.poly.pool[v]
      BY <1>1, <1>2, <1>7, PoolFields
    <3>3. VoicesOf(b) = VoicesOf(q.poly) /\ ActiveOnce(q.poly)
      BY <1>1, <1>2, <2>2 DEF SameKind, PolyOK
    <3>4. s.note = MaxNote /\ s.active
      BY <3>1 DEF On
    <3> HIDE DEF s
    <3> QED
      BY <3>2, <3>3, <3>4 DEF ActiveOnce
  <2> HIDE DEF s
  <2>3. PartOK(Address(u, c, note, Silent))
    BY <1>2, <1>4, <1>5, <1>7, <2>1, <2>2, AddressedOK
  <2> QED
    BY <2>3 DEF u, b, c
<1> QED
  BY <1>6, <1>7

LEMMA InternalNoteOffOK ==
  ASSUME NEW q, PartOK(q), NEW note
  PROVE  PartOK(InternalNoteOff(q, note))
<1> DEFINE u == [q EXCEPT !.out = @ \ {note}]
<1>1. q \in Parts /\ q.out \ {note} \in SUBSET Notes
  BY DEF PartOK, Voiced, Parts
<1>2. u \in Parts /\ SameVoices(q, u)
  BY <1>1, SetOtherFields
<1> HIDE DEF u
<1>3. PartOK(u)
  BY <1>2, SameVoicesOK
<1>4. /\ u.poly = q.poly /\ u.mono = q.mono /\ (IsMono(u) <=> IsMono(q))
      /\ MonoVoices(u) = MonoVoices(q)
  BY <1>2 DEF SameVoices, IsMono, MonoVoices, AllVoices
<1>5. CASE note = NoNote
  BY <1>5 DEF InternalNoteOff
<1>6. CASE note # NoNote /\ IsMono(q)
  BY <1>3, <1>4, <1>6, MonoNoteOffOK DEF InternalNoteOff, u
<1>7. CASE note # NoNote /\ ~IsMono(q)
  BY <1>3, <1>4, <1>7, PolyNoteOffOK DEF InternalNoteOff, u
<1> QED
  BY <1>5, <1>6, <1>7

-----------------------------------------------------------------------------
\* The operations that silence the part.
Silenced(q) == Voiced(q) /\ \A v \in AllVoices(q) : q.voice[v] = Silent

\* What StopReleasesEverything asks for.
Emptied(q) ==
  /\ Silenced(q) /\ q.pressed = <<>> /\ q.mono = <<>>
  /\ IsPool(q.poly) /\ \A v \in VoicesOf(q.poly) : q.poly.pool[v] = Off(0)

LEMMA EmptyStacks == <<>> \in NoteLists /\ <<>> \in KeyStacks
<1>1. DOMAIN <<>> = {}
  OBVIOUS
<1>2. Distinct(<<>>)
  BY <1>1 DEF Distinct
<1> QED
  BY <1>2 DEF NoteLists, KeyStacks, Stacks

LEMMA NewPartPool ==
  ASSUME NEW q \in Parts, NEW b,
         b = IF IsMono(q) THEN NewPool(0, FALSE) ELSE NewPool(PolySize(q), q.pmode = "CYCLIC")
  PROVE  /\ b \in Allocators /\ WellFormed(b)
         /\ \A v \in VoicesOf(b) : b.pool[v] = Off(0)
         /\ ~IsMono(q) => /\ b.size = PolySize(q)
                          /\ b.cyclic = NonCyclic <=> q.pmode # "CYCLIC"
<1> DEFINE size == IF IsMono(q) THEN 0 ELSE PolySize(q)
           cyclic == ~IsMono(q) /\ q.pmode = "CYCLIC"
<1>1. size \in 0..127
  <2>1. \A n \in 1..6 : n \in 0..127 /\ 2 * n \in 0..127 /\ (n + 1) \div 2 \in 0..127
    OBVIOUS
  <2> QED
    BY <2>1 DEF PolySize, Parts
<1>2. b = NewPool(size, cyclic) /\ cyclic \in BOOLEAN
  OBVIOUS
<1>3. ~IsMono(q) => size = PolySize(q) /\ (cyclic <=> q.pmode = "CYCLIC")
  OBVIOUS
<1> HIDE DEF size, cyclic
<1>4. /\ WellFormed(b) /\ b.size = size
      /\ b.cyclic = NonCyclic <=> ~cyclic
      /\ b.pool = [v \in VoicesOf(b) |-> Off(0)]
  <2> DEFINE d == NewPool(size, cyclic)
  <2>1. /\ WellFormed(d) /\ d.size = size
        /\ d.cyclic = NonCyclic <=> ~cyclic
        /\ d.pool = [v \in VoicesOf(d) |-> Off(0)]
    BY <1>1, <1>2, NewPoolWellFormed
  <2> HIDE DEF d
  <2> QED
    BY <1>2, <2>1 DEF d
<1>5. \A v \in VoicesOf(b) : b.pool[v] = Off(0)
  BY <1>4
<1>6. b \in Allocators
  BY <1>4, AllocatorIsPool DEF WellFormed
<1> QED
  BY <1>3, <1>4, <1>5, <1>6

\* A part that is silent, with its containers cleared, is in order.
LEMMA EmptiedOK ==
  ASSUME NEW q, Silenced(q), q.mono = <<>>,
         IsMono(q) => q.poly = NewPool(0, FALSE),
         ~IsMono(q) => /\ WellFormed(q.poly) /\ q.poly.size = PolySize(q)
                       /\ q.poly.cyclic = NonCyclic <=> q.pmode # "CYCLIC"
                       /\ \A v \in VoicesOf(q.poly) : q.poly.pool[v] = Off(0)
  PROVE  PartOK(q)
<1>1. ASSUME IsMono(q) PROVE MonoOK(q)
  BY <1>1 DEF MonoOK, Silenced
<1>2. ASSUME ~IsMono(q) PROVE PolyOK(q)
  <2>1. ActiveOnce(q.poly)
    BY <1>2 DEF ActiveOnce, Off
  <2>2. ASSUME Disjoint(q), NEW i \in LocalSlots(q), NEW v \in SlotVoices(q, i)
        PROVE  SlotMatches(q, q.voice[v], q.poly.pool[i])
    <3>1. v \in AllVoices(q)
      BY <1>2, <2>2, SlotsAreApart DEF Silenced, Voiced
    <3>2. q.voice[v] = Silent /\ q.poly.pool[i] = Off(0)
      BY <1>2, <2>2, <3>1 DEF Silenced, LocalSlots
    <3> QED
      BY <3>2 DEF SlotMatches, Off
  <2>3. \A v \in AllVoices(q) : HasSlot(q, v)
    BY DEF HasSlot, Silenced
  <2> QED
    BY <1>2, <2>1, <2>2, <2>3 DEF PolyOK
<1> QED
  BY <1>1, <1>2 DEF PartOK, Silenced

LEMMA InitializeOK ==
  ASSUME NEW q, Silenced(q)
  PROVE  PartOK(InitializeAllocators(q))
<1> DEFINE b == IF IsMono(q) THEN NewPool(0, FALSE)
                ELSE NewPool(PolySize(q), q.pmode = "CYCLIC")
           r == InitializeAllocators(q)
<1>1. q \in Parts
  BY DEF Silenced, Voiced
<1>2. /\ b \in Allocators /\ WellFormed(b)
      /\ \A v \in VoicesOf(b) : b.pool[v] = Off(0)
      /\ ~IsMono(q) => b.size = PolySize(q) /\ (b.cyclic = NonCyclic <=> q.pmode # "CYCLIC")
  BY <1>1, NewPartPool
<1>3. IsMono(q) => b = NewPool(0, FALSE)
  OBVIOUS
<1>4. r = [q EXCEPT !.mono = <<>>, !.poly = b]
  BY DEF InitializeAllocators
<1> HIDE DEF b, r
<1>5. /\ r \in Parts /\ r.num = q.num /\ r.pmode = q.pmode
      /\ r.mono = <<>> /\ r.poly = b /\ r.voice = q.voice
  BY <1>1, <1>2, <1>4, EmptyStacks DEF Parts
<1>6. /\ AllVoices(r) = AllVoices(q) /\ PolySize(r) = PolySize(q)
      /\ IsMono(r) <=> IsMono(q)
  BY <1>5 DEF AllVoices, PolySize, IsMono
<1>7. Silenced(r)
  BY <1>5, <1>6 DEF Silenced, Voiced
<1>8. PartOK(r)
  BY <1>2, <1>3, <1>5, <1>6, <1>7, EmptiedOK
<1> QED
  BY <1>8 DEF r

LEMMA AllSoundOffSilences ==
  ASSUME NEW q, Voiced(q)
  PROVE  LET r == AllSoundOff(q)
         IN  /\ Silenced(r) /\ r.num = q.num /\ r.pmode = q.pmode
             /\ r.mono = <<>>
             /\ r.poly = IF IsMono(q) THEN q.poly ELSE AfterClear(q.poly)
<1> DEFINE b == IF IsMono(q) THEN q.poly ELSE AfterClear(q.poly)
           u == [q EXCEPT !.mono = <<>>, !.poly = b, !.pressed = <<>>]
           r == Tell(u, AllVoices(q), Silent)
<1>1. q \in Parts /\ q.poly \in Allocators
  BY DEF Voiced, Parts
<1>2. b \in Allocators
  BY <1>1, AllocatorIsPool, ClearFields
<1>3. AllSoundOff(q) = r
  BY DEF AllSoundOff
<1> HIDE DEF b
<1>4. /\ u \in Parts /\ u.num = q.num /\ u.pmode = q.pmode
      /\ u.mono = <<>> /\ u.poly = b /\ u.voice = q.voice
  BY <1>1, <1>2, EmptyStacks DEF Parts
<1> HIDE DEF u
<1>5. Voiced(u) /\ AllVoices(u) = AllVoices(q)
  BY <1>4 DEF Voiced, AllVoices
<1>6. /\ Voiced(r) /\ r.num = q.num /\ r.pmode = q.pmode
      /\ r.mono = <<>> /\ r.poly = b /\ AllVoices(r) = AllVoices(q)
      /\ \A v \in AllVoices(q) : r.voice[v] = Silent
  BY <1>4, <1>5, TellVoices
<1> HIDE DEF r
<1> QED
  BY <1>3, <1>6 DEF Silenced, b

LEMMA AllSoundOffOK ==
  ASSUME NEW q, PartOK(q)
  PROVE  PartOK(AllSoundOff(q))
<1> DEFINE r == AllSoundOff(q)
<1>1. /\ Silenced(r) /\ r.num = q.num /\ r.pmode = q.pmode /\ r.mono = <<>>
      /\ r.poly = IF IsMono(q) THEN q.poly ELSE AfterClear(q.poly)
  BY AllSoundOffSilences DEF PartOK
<1> HIDE DEF r
<1>2. (IsMono(r) <=> IsMono(q)) /\ PolySize(r) = PolySize(q)
  BY <1>1 DEF IsMono, PolySize
<1>3. IsMono(q) => r.poly = NewPool(0, FALSE)
  BY <1>1 DEF PartOK, MonoOK
<1>4. ASSUME ~IsMono(q)
      PROVE  /\ WellFormed(r.poly) /\ r.poly.size = PolySize(r)
             /\ r.poly.cyclic = NonCyclic <=> r.pmode # "CYCLIC"
             /\ \A v \in VoicesOf(r.poly) : r.poly.pool[v] = Off(0)
  <2>1. WellFormed(q.poly) /\ IsPool(q.poly) /\ PolyOK(q)
    BY <1>4 DEF PartOK, PolyOK, WellFormed
  <2>2. WellFormed(r.poly) /\ SameKind(q.poly, r.poly)
        /\ r.poly.pool = [v \in VoicesOf(q.poly) |-> Off(0)]
    BY <1>1, <1>4, <2>1, ClearWellFormed, ClearFields
  <2> QED
    BY <1>1, <1>2, <2>1, <2>2 DEF SameKind, PolyOK
<1>5. PartOK(r)
  BY <1>1, <1>2, <1>3, <1>4, EmptiedOK
<1> QED
  BY <1>5 DEF r

\* AllNotesOff does nothing under the pedal; otherwise it empties the part.
LEMMA AllNotesOffOK ==
  ASSUME NEW q, PartOK(q)
  PROVE  /\ PartOK(AllNotesOff(q))
         /\ ~q.ignore => Emptied(AllNotesOff(q))
<1> DEFINE b == IF IsMono(q) THEN q.poly ELSE AfterClearNotes(q.poly)
           out == IF q.dir = "CHORD" THEN q.out ELSE q.out \ {q.prev}
           u == [q EXCEPT !.mono = <<>>, !.poly = b, !.pressed = <<>>,
                          !.out = out, !.prev = NoNote]
           r == Tell(u, AllVoices(q), Silent)
<1>1. /\ q \in Parts /\ IsPool(q.poly) /\ Voiced(q)
      /\ IsMono(q) => q.poly = NewPool(0, FALSE)
      /\ ~IsMono(q) => WellFormed(q.poly) /\ PolyOK(q)
  BY AllocatorIsPool DEF PartOK, Voiced, Parts, MonoOK, PolyOK
<1>2. IsPool(b)
  BY <1>1, ClearFields
<1>3. \A v \in VoicesOf(b) : b.pool[v] = Off(0)
  <2>1. CASE IsMono(q)
    <3> DEFINE d == NewPool(0, FALSE)
    <3>0. 0 \in 0..127 /\ FALSE \in BOOLEAN
      OBVIOUS
    <3>1. d.pool = [v \in VoicesOf(d) |-> Off(0)]
      BY <3>0, NewPoolWellFormed
    <3> HIDE DEF d
    <3>2. \A v \in VoicesOf(d) : d.pool[v] = Off(0)
      BY <3>1
    <3> QED
      BY <1>1, <2>1, <3>2 DEF d
  <2>2. CASE ~IsMono(q)
    <3>1. b.pool = [v \in VoicesOf(q.poly) |-> Off(0)] /\ VoicesOf(b) = VoicesOf(q.poly)
      BY <1>1, <2>2, ClearFields DEF SameKind
    <3> HIDE DEF b
    <3> QED
      BY <3>1
  <2> QED
    BY <2>1, <2>2
<1>4. ~IsMono(q) => /\ WellFormed(b) /\ b.size = PolySize(q)
                    /\ b.cyclic = NonCyclic <=> q.pmode # "CYCLIC"
  BY <1>1, ClearWellFormed, ClearFields DEF SameKind, PolyOK
<1>5. IsMono(q) => b = NewPool(0, FALSE)
  BY <1>1
<1>6. b \in Allocators /\ out \in SUBSET Notes /\ NoNote \in GeneratedNotes
  BY <1>1, <1>2, AllocatorIsPool DEF Parts, GeneratedNotes
<1>7. AllNotesOff(q) = IF q.ignore THEN q ELSE r
  BY DEF AllNotesOff
<1> HIDE DEF b, out
<1>8. /\ u \in Parts /\ u.num = q.num /\ u.pmode = q.pmode
      /\ u.mono = <<>> /\ u.poly = b /\ u.voice = q.voice /\ u.pressed = <<>>
  BY <1>1, <1>6, EmptyStacks DEF Parts
<1> HIDE DEF u
<1>9. Voiced(u) /\ AllVoices(u) = AllVoices(q)
  BY <1>1, <1>8 DEF Voiced, AllVoices
<1>10. /\ Voiced(r) /\ r.num = q.num /\ r.pmode = q.pmode
       /\ r.mono = <<>> /\ r.poly = b /\ r.pressed = <<>> /\ AllVoices(r) = AllVoices(q)
       /\ \A v \in AllVoices(q) : r.voice[v] = Silent
  BY <1>8, <1>9, TellVoices
<1> HIDE DEF r
<1>11. Silenced(r) /\ (IsMono(r) <=> IsMono(q)) /\ PolySize(r) = PolySize(q)
  BY <1>10 DEF Silenced, IsMono, PolySize
<1>12. PartOK(r)
  BY <1>3, <1>4, <1>5, <1>10, <1>11, EmptiedOK
<1>13. Emptied(r)
  BY <1>2, <1>3, <1>10, <1>11 DEF Emptied
<1> QED
  BY <1>7, <1>12, <1>13

-----------------------------------------------------------------------------
\* A loop of calls passes through sets of states, when each call goes from one set
\* to the next.  The states of the loop are a recursive function: it exists, and
\* its values are in the sets, since there is no least index where it does not, or
\* where they are not.
LEMMA CallForEachReaches ==
  ASSUME NEW S, NEW q \in S[0], NEW what, NEW notes, Len(notes) \in Nat,
         \A i \in 1..Len(notes) : \A r \in S[i - 1] : Call(r, what, notes[i]) \in S[i]
  PROVE  CallForEach(q, what, notes) \in S[Len(notes)]
<1> DEFINE L == Len(notes)
           All == UNION {S[i] : i \in 0..L}
           Step(f, i) == IF i = 0 THEN q ELSE Call(f[i - 1], what, notes[i])
           Run(f, n) == /\ f \in [0..n -> All]
                        /\ \A i \in 0..n : f[i] = Step(f, i) /\ f[i] \in S[i]
           Short == {n \in 0..L : ~ \E f : Run(f, n)}
<1>1. L \in Nat
  OBVIOUS
<1>2. \A i \in 0..L : \A r \in S[i] : r \in All
  OBVIOUS
<1> HIDE DEF L, All
<1>3. Short = {}
  <2> SUFFICES ASSUME Short # {} PROVE FALSE
    OBVIOUS
  <2>1. Short \in SUBSET Nat
    BY <1>1
  <2>2. PICK m \in Short : \A n \in Short : m <= n
    BY <2>1, LeastExists
  <2>3. m \in 0..L /\ ~ \E f : Run(f, m)
    OBVIOUS
  <2>4. m # 0
    <3>1. Run([i \in 0..0 |-> q], 0)
      BY <1>1, <1>2
    <3> QED
      BY <2>3, <3>1
  <2>5. m - 1 \in 0..L /\ m - 1 \notin Short
    <3>1. m - 1 \in 0..L /\ ~ (m <= m - 1)
      BY <1>1, <2>3, <2>4
    <3> HIDE DEF Short
    <3> QED
      BY <2>2, <3>1
  <2>6. PICK f : Run(f, m - 1)
    BY <2>5
  <2> DEFINE last == Call(f[m - 1], what, notes[m])
             g == [i \in 0..m |-> IF i = m THEN last ELSE f[i]]
  <2>7. last \in S[m] /\ last \in All
    <3>1. m - 1 \in 0..(m - 1) /\ m \in 1..Len(notes)
      BY <1>1, <2>3, <2>4 DEF L
    <3>2. f[m - 1] \in S[m - 1]
      BY <2>6, <3>1
    <3> QED
      BY <1>2, <2>3, <3>1, <3>2
  <2>8. g \in [0..m -> All]
    BY <2>3, <2>6, <2>7
  <2>9. ASSUME NEW i \in 0..m PROVE g[i] = Step(g, i) /\ g[i] \in S[i]
    <3>1. CASE i = m
      <4>1. g[i] = last /\ g[i - 1] = f[i - 1] /\ i # 0
        BY <2>3, <2>4, <3>1
      <4> HIDE DEF g
      <4> QED
        BY <2>7, <3>1, <4>1
    <3>2. CASE i # m
      <4>1. i \in 0..(m - 1) /\ g[i] = f[i] /\ (i # 0 => g[i - 1] = f[i - 1])
        BY <2>3, <2>4, <3>2
      <4>2. f[i] = Step(f, i) /\ f[i] \in S[i]
        BY <2>6, <4>1
      <4> HIDE DEF g
      <4> QED
        BY <4>1, <4>2
    <3> QED
      BY <3>1, <3>2
  <2>10. Run(g, m)
    BY <2>8, <2>9
  <2> QED
    BY <2>3, <2>10
<1>4. PICK f : Run(f, L)
  <2>1. L \in 0..L
    BY <1>1
  <2> QED
    BY <1>3, <2>1
<1> DEFINE Loop(state) == state = [i \in 0..L |-> Step(state, i)]
<1>5. Loop(f)
  BY <1>4
<1> DEFINE state == CHOOSE h : Loop(h)
<1>6. Loop(state)
  BY <1>5
<1>7. CallForEach(q, what, notes) = state[L]
  BY DEF CallForEach, L
<1> HIDE DEF state
<1>8. \A i \in 0..L : state[i] = Step(state, i)
  BY <1>6
<1> DEFINE Outside == {i \in 0..L : state[i] \notin S[i]}
<1>9. Outside = {}
  <2> SUFFICES ASSUME Outside # {} PROVE FALSE
    OBVIOUS
  <2>1. Outside \in SUBSET Nat
    BY <1>1
  <2>2. PICK m \in Outside : \A n \in Outside : m <= n
    BY <2>1, LeastExists
  <2>3. m \in 0..L /\ state[m] \notin S[m] /\ state[m] = Step(state, m)
    BY <1>8
  <2>4. m # 0
    BY <2>3
  <2>5. m - 1 \in 0..L /\ m - 1 \notin Outside /\ m \in 1..Len(notes)
    BY <1>1, <2>2, <2>3, <2>4 DEF L
  <2>6. state[m - 1] \in S[m - 1]
    BY <2>5
  <2> QED
    BY <2>3, <2>4, <2>5, <2>6
<1> QED
  BY <1>1, <1>7, <1>9 DEF L

\* In particular it stays in a set that each call stays in.
LEMMA CallForEachKeeps ==
  ASSUME NEW S, NEW q \in S, NEW what, NEW notes, Len(notes) \in Nat,
         \A r \in S : \A i \in 1..Len(notes) : Call(r, what, notes[i]) \in S
  PROVE  CallForEach(q, what, notes) \in S
<1> DEFINE T == [i \in 0..Len(notes) |-> S]
<1>1. \A i \in 0..Len(notes) : T[i] = S
  OBVIOUS
<1> HIDE DEF T
<1>2. 0 \in 0..Len(notes) /\ Len(notes) \in 0..Len(notes)
      /\ \A i \in 1..Len(notes) : i \in 0..Len(notes) /\ i - 1 \in 0..Len(notes)
  OBVIOUS
<1>3. q \in T[0]
  BY <1>1, <1>2
<1>4. \A i \in 1..Len(notes) : \A r \in T[i - 1] : Call(r, what, notes[i]) \in T[i]
  BY <1>1, <1>2
<1>5. CallForEach(q, what, notes) \in T[Len(notes)]
  BY <1>3, <1>4, CallForEachReaches
<1> QED
  BY <1>1, <1>2, <1>5

-----------------------------------------------------------------------------
\* The keys, and the calls that the loops make.
LEMMA PressKeyOK ==
  ASSUME NEW q, PartOK(q), NEW note \in Notes
  PROVE  PartOK(PressKey(q, note))
<1> DEFINE E == [note : Notes, flagged : BOOLEAN]
           e == [note |-> note, flagged |-> FALSE]
           keys == Played(q.pressed, e, KeyCapacity)
<1>1. q \in Parts
  BY DEF PartOK, Voiced
<1>2. q.pressed \in Stacks(E) /\ e \in E /\ KeyStacks = Stacks(E) /\ KeyCapacity \in Nat \ {0}
  BY <1>1, PartOpsAssumption DEF Parts, KeyStacks
<1>3. PressKey(q, note) = [q EXCEPT !.pressed = keys]
  BY DEF PressKey
<1> HIDE DEF E, e
<1>4. keys \in KeyStacks
  BY <1>2, PlayedStack
<1> HIDE DEF keys
<1>5. \A x \in KeyStacks : [q EXCEPT !.pressed = x] \in Parts
                           /\ SameVoices(q, [q EXCEPT !.pressed = x])
  BY <1>1, SetOtherFields
<1>6. \A x \in KeyStacks : PartOK([q EXCEPT !.pressed = x])
  BY <1>5, SameVoicesOK
<1> QED
  BY <1>3, <1>4, <1>6

\* Flagging a key leaves the keys as they are otherwise.
LEMMA FlaggedStack ==
  ASSUME NEW s \in KeyStacks, NEW note \in Notes
  PROVE  LET r == Flagged(s, note)
         IN  /\ r \in KeyStacks /\ DOMAIN r = DOMAIN s /\ NotesOf(r) = NotesOf(s)
             /\ r = <<>> <=> s = <<>>
             /\ \A i \in DOMAIN s :
                  /\ r[i].note = s[i].note
                  /\ r[i].flagged <=> s[i].flagged \/ s[i].note = note
<1> DEFINE E == [note : Notes, flagged : BOOLEAN]
           r == Flagged(s, note)
<1>1. s \in Stacks(E) /\ KeyStacks = Stacks(E)
  BY DEF KeyStacks
<1>2. /\ s \in Seq(E) /\ Distinct(s) /\ Len(s) \in Nat /\ DOMAIN s = 1..Len(s)
      /\ \A i \in 1..Len(s) : s[i] \in E
  <2> HIDE DEF E
  <2> QED
    BY <1>1, StackElements
<1>3. r \in [1..Len(s) -> E]
  BY <1>2 DEF Flagged
<1>4. /\ \A i \in DOMAIN s : r[i].note = s[i].note
      /\ \A i \in DOMAIN s : r[i].flagged <=> s[i].flagged \/ s[i].note = note
  BY <1>2 DEF Flagged
<1> HIDE DEF r, E
<1>5. r \in Seq(E) /\ DOMAIN r = 1..Len(s)
  <2> DEFINE n == Len(s)
  <2>1. n \in Nat /\ r \in [1..n -> E]
    BY <1>2, <1>3
  <2> HIDE DEF n
  <2>2. r \in Seq(E) /\ DOMAIN r = 1..n
    BY <2>1
  <2> QED
    BY <2>2 DEF n
<1>6. DOMAIN r = DOMAIN s /\ Distinct(r)
  <2>1. DOMAIN r = DOMAIN s
    BY <1>2, <1>5
  <2>2. Distinct(s) /\ \A i \in DOMAIN s : r[i].note = s[i].note
    BY <1>2, <1>4
  <2> QED
    BY <2>1, <2>2 DEF Distinct
<1>7. r \in KeyStacks
  BY <1>1, <1>5, <1>6 DEF Stacks
<1>8. NotesOf(r) = NotesOf(s)
  <2>1. \A i \in DOMAIN s : r[i].note = s[i].note
    BY <1>4
  <2> QED
    BY <1>6, <2>1 DEF NotesOf
<1>9. r = <<>> <=> s = <<>>
  <2>1. Len(r) = Len(s)
    BY <1>2, <1>3
  <2> QED
    BY <1>2, <1>5, <2>1
<1> QED
  BY <1>4, <1>6, <1>7, <1>8, <1>9 DEF r

\* The keys without one of them, or with its entry flagged.
LEMMA KeyGoneOK ==
  ASSUME NEW q, PartOK(q), NEW note
  PROVE  /\ PartOK([q EXCEPT !.pressed = Without(@, note)])
         /\ note \in Notes => PartOK([q EXCEPT !.pressed = Flagged(@, note)])
<1>1. q \in Parts /\ q.pressed \in KeyStacks
  BY DEF PartOK, Voiced, Parts
<1>2. Without(q.pressed, note) \in KeyStacks
  <2> DEFINE E == [note : Notes, flagged : BOOLEAN]
  <2>1. q.pressed \in Stacks(E) /\ KeyStacks = Stacks(E)
    BY <1>1 DEF KeyStacks
  <2> HIDE DEF E
  <2> QED
    BY <2>1, WithoutNotes
<1>3. note \in Notes => Flagged(q.pressed, note) \in KeyStacks
  BY <1>1, FlaggedStack
<1>4. \A x \in KeyStacks : PartOK([q EXCEPT !.pressed = x])
  <2>1. \A x \in KeyStacks : [q EXCEPT !.pressed = x] \in Parts
                             /\ SameVoices(q, [q EXCEPT !.pressed = x])
    BY <1>1, SetOtherFields
  <2> QED
    BY <2>1, SameVoicesOK
<1> QED
  BY <1>2, <1>3, <1>4

LEMMA PartNoteOnOK ==
  ASSUME NEW q, PartOK(q), NEW note \in Notes
  PROVE  PartOK(PartNoteOn(q, note))
<1>1. PartOK(PressKey(q, note))
  BY PressKeyOK
<1>2. PartOK(InternalNoteOn(PressKey(q, note), note))
  BY <1>1, InternalNoteOnOK
<1>3. PartOK([q EXCEPT !.pressed = Without(@, note)])
  BY KeyGoneOK
<1> QED
  BY <1>1, <1>2, <1>3 DEF PartNoteOn

LEMMA PartNoteOffOK ==
  ASSUME NEW q, PartOK(q), NEW note \in Notes
  PROVE  PartOK(PartNoteOff(q, note))
<1> DEFINE u == [q EXCEPT !.pressed = Without(@, note)]
           w == [u EXCEPT !.ignore = FALSE]
<1>1. PartOK(u) /\ PartOK([q EXCEPT !.pressed = Flagged(@, note)])
  BY KeyGoneOK
<1> HIDE DEF u
<1>2. PartOK(w)
  <2>1. w \in Parts /\ SameVoices(u, w)
    BY <1>1, SetOtherFields DEF PartOK, Voiced
  <2> QED
    BY <1>1, <2>1, SameVoicesOK
<1>3. PartOK(InternalNoteOff(u, note))
  BY <1>1, InternalNoteOffOK
<1>4. PartOK(AllNotesOff(w))
  BY <1>2, AllNotesOffOK
<1> QED
  BY <1>1, <1>3, <1>4 DEF PartNoteOff, u

LEMMA CallForEachOK ==
  ASSUME NEW q, PartOK(q), NEW notes, Len(notes) \in Nat,
         \A i \in 1..Len(notes) : notes[i] \in Notes,
         NEW what \in {"NoteOff", "PressKey", "InternalNoteOn", "InternalNoteOff"}
  PROVE  PartOK(CallForEach(q, what, notes))
<1> DEFINE S == {r \in Parts : PartOK(r)}
<1>1. \A r : r \in S <=> PartOK(r)
  BY DEF PartOK, Voiced
<1>2. ASSUME NEW r \in S, NEW i \in 1..Len(notes) PROVE Call(r, what, notes[i]) \in S
  <2>1. PartOK(r) /\ notes[i] \in Notes
    OBVIOUS
  <2>2. PartOK(Call(r, what, notes[i]))
    BY <2>1, PartNoteOffOK, PressKeyOK, InternalNoteOnOK, InternalNoteOffOK DEF Call
  <2> QED
    BY <1>1, <2>2
<1> HIDE DEF S
<1>3. CallForEach(q, what, notes) \in S
  BY <1>1, <1>2, CallForEachKeeps
<1> QED
  BY <1>1, <1>3

-----------------------------------------------------------------------------
\* The operations of Part.tla, from the steps of the clock to the settings.
LEMMA SetOtherOK ==
  ASSUME NEW q, PartOK(q)
  PROVE  /\ \A x \in SequencerModes : PartOK([q EXCEPT !.amode = x])
         /\ \A x \in {"LINE", "CHORD"} : PartOK([q EXCEPT !.dir = x])
         /\ \A x \in SUBSET Notes : PartOK([q EXCEPT !.scale = x])
         /\ \A x \in BOOLEAN : PartOK([q EXCEPT !.ignore = x])
         /\ \A x \in NoteLists : PartOK([q EXCEPT !.chain = x])
         /\ \A x \in GeneratedNotes : PartOK([q EXCEPT !.prev = x])
         /\ \A x \in PolyphonyModes : PartOK([q EXCEPT !.next = x])
<1>1. q \in Parts
  BY DEF PartOK, Voiced
<1> QED
  BY <1>1, SetOtherFields, SameVoicesOK

LEMMA StartOK ==
  ASSUME NEW q, PartOK(q)
  PROVE  PartOK(Start(q))
<1> DEFINE r == Start(q)
<1>1. q \in Parts
  BY DEF PartOK, Voiced
<1>2. r \in Parts /\ SameVoices(q, r)
  BY <1>1 DEF Start, Parts, SameVoices, GeneratedNotes
<1> HIDE DEF r
<1>3. PartOK(r)
  BY <1>2, SameVoicesOK
<1> QED
  BY <1>3 DEF r

LEMMA SetPolyphonyModeOK ==
  ASSUME NEW q, PartOK(q), NEW m \in PolyphonyModes
  PROVE  PartOK(SetPolyphonyMode(q, m))
<1> DEFINE u == [q EXCEPT !.pmode = m]
<1>1. q \in Parts /\ Voiced(q)
  BY DEF PartOK, Voiced
<1>2. u \in Parts /\ u.num = q.num /\ u.voice = q.voice
  BY <1>1 DEF Parts
<1> HIDE DEF u
<1>3. Voiced(u)
  BY <1>1, <1>2 DEF Voiced, AllVoices
<1>4. Silenced(AllSoundOff(u))
  BY <1>3, AllSoundOffSilences
<1>5. PartOK(InitializeAllocators(AllSoundOff(u)))
  BY <1>4, InitializeOK
<1> QED
  BY <1>5 DEF SetPolyphonyMode, u

LEMMA AssignVoicesOK ==
  ASSUME NEW q, PartOK(q), NEW count \in 1..6
  PROVE  PartOK(AssignVoices(q, count))
<1> DEFINE voice == [v \in 0..(count - 1) |-> Silent]
           u == AllSoundOff(q)
           r == [u EXCEPT !.num = count, !.voice = voice]
<1>1. voice \in [0..(count - 1) -> Notes \cup {Silent}]
      /\ \A v \in 0..(count - 1) : voice[v] = Silent
  OBVIOUS
<1>2. voice \in Voicings
  BY <1>1 DEF Voicings
<1>3. u \in Parts
  BY AllSoundOffSilences DEF PartOK, Silenced, Voiced
<1> HIDE DEF u, voice
<1>4. r \in Parts /\ r.num = count /\ r.voice = voice
  BY <1>2, <1>3 DEF Parts
<1> HIDE DEF r
<1>5. Silenced(r)
  BY <1>1, <1>4 DEF Silenced, Voiced, AllVoices
<1>6. PartOK(InitializeAllocators(r))
  BY <1>5, InitializeOK
<1> QED
  BY <1>6 DEF AssignVoices, r, u, voice

\* The clock's steps.
LEMMA StepNoteSequenceOK ==
  ASSUME NEW q, PartOK(q), NEW gate, NEW legato, NEW note \in Notes
  PROVE  PartOK(StepNoteSequence(q, gate, legato, note))
<1>1. /\ PartOK(InternalNoteOff(q, q.prev))
      /\ PartOK(InternalNoteOn(InternalNoteOff(q, q.prev), note))
      /\ PartOK(InternalNoteOff(InternalNoteOn(q, note), q.prev))
  BY InternalNoteOnOK, InternalNoteOffOK
<1>2. NoNote \in GeneratedNotes /\ note \in GeneratedNotes
  BY DEF GeneratedNotes
<1>3. /\ PartOK([InternalNoteOff(q, q.prev) EXCEPT !.prev = NoNote])
      /\ PartOK([InternalNoteOn(InternalNoteOff(q, q.prev), note) EXCEPT !.prev = note])
      /\ PartOK([InternalNoteOff(InternalNoteOn(q, note), q.prev) EXCEPT !.prev = note])
  BY <1>1, <1>2, SetOtherOK
<1> QED
  BY <1>3 DEF StepNoteSequence

LEMMA StepChordSequenceOK ==
  ASSUME NEW q, PartOK(q), NEW chord \in Seq(Notes)
  PROVE  PartOK(StepChordSequence(q, chord))
<1>1. PartOK(AllNotesOff(q))
  BY AllNotesOffOK
<1>2. Len(chord) \in Nat /\ \A i \in 1..Len(chord) : chord[i] \in Notes
  OBVIOUS
<1> QED
  BY <1>1, <1>2, CallForEachOK DEF StepChordSequence

-----------------------------------------------------------------------------

LEMMA NotesAreFinite ==
  ASSUME NEW S \in SUBSET Notes
  PROVE  IsFiniteSet(S) /\ Cardinality(S) \in Nat
<1>1. MaxNote \in Nat /\ S \in SUBSET Nat /\ \A n \in S : n <= MaxNote
  BY MaxNoteAssumption DEF Notes
<1>2. IsFiniteSet(S)
  BY <1>1, FS_BoundedSetOfNaturals
<1> QED
  BY <1>2, FS_CardinalityType

\* The ranks of the arpeggiator: a set of notes has one of each rank.
LEMMA NoteOfRank ==
  ASSUME NEW S \in SUBSET Notes, NEW rank \in 1..Cardinality(S)
  PROVE  \E n \in S : Cardinality({m \in S : m < n}) = rank - 1
<1> DEFINE Below(n) == {m \in S : m < n}
           High == {n \in S : Cardinality(Below(n)) >= rank - 1}
<1>1. S \in SUBSET Nat /\ \A n \in S : n <= MaxNote
  BY MaxNoteAssumption DEF Notes
<1>2. IsFiniteSet(S) /\ Cardinality(S) \in Nat
  BY NotesAreFinite
<1>3. \A n : IsFiniteSet(Below(n)) /\ Cardinality(Below(n)) \in Nat
  <2> TAKE n
  <2>1. Below(n) \in SUBSET S
    OBVIOUS
  <2>2. IsFiniteSet(Below(n))
    BY <1>2, <2>1, FS_Subset
  <2> QED
    BY <2>2, FS_CardinalityType
<1>4. \A T \in SUBSET S : T # {} => \E x \in T : \A y \in T : y <= x
  <2>1. MaxNote + 1 \in Nat /\ S \in SUBSET (0..((MaxNote + 1) - 1))
    BY MaxNoteAssumption DEF Notes
  <2> QED
    BY <2>1, GreatestExists
<1>5. ASSUME NEW T \in SUBSET S, IsFiniteSet(T), NEW g \in T, \A y \in T : y <= g
      PROVE  /\ {m \in T : m < g} = T \ {g}
             /\ Cardinality({m \in T : m < g}) = Cardinality(T) - 1
  <2>1. {m \in T : m < g} = T \ {g}
    <3>1. \A y \in T : y \in Nat /\ g \in Nat /\ y <= g
      BY <1>1, <1>5
    <3> QED
      BY <3>1
  <2> QED
    BY <1>5, <2>1, FS_RemoveElement
<1>6. High # {}
  <2>1. rank \in Nat /\ rank <= Cardinality(S) /\ S # {}
    BY <1>2, FS_EmptySet
  <2>2. PICK g \in S : \A y \in S : y <= g
    BY <1>4, <2>1
  <2>3. Cardinality(Below(g)) = Cardinality(S) - 1
    BY <1>2, <1>5, <2>2
  <2> QED
    BY <1>2, <2>1, <2>3
<1>7. PICK x \in High : \A y \in High : x <= y
  <2>1. High \in SUBSET S
    OBVIOUS
  <2> HIDE DEF High
  <2>2. High \in SUBSET Nat
    BY <1>1, <2>1
  <2> QED
    BY <1>6, <2>2, LeastExists
<1>8. x \in S /\ Cardinality(Below(x)) >= rank - 1
  OBVIOUS
<1>9. ASSUME Cardinality(Below(x)) # rank - 1 PROVE FALSE
  <2> DEFINE B == Below(x)
  <2>1. Cardinality(B) \in Nat /\ Cardinality(B) >= rank /\ rank \in Nat /\ rank >= 1
        /\ IsFiniteSet(B)
    BY <1>2, <1>3, <1>8, <1>9
  <2>2. B # {} /\ B \in SUBSET S
    BY <2>1, FS_EmptySet
  <2>3. PICK y \in B : \A z \in B : z <= y
    BY <1>4, <2>2
  <2>4. Cardinality({m \in B : m < y}) = Cardinality(B) - 1
    BY <1>5, <2>1, <2>2, <2>3
  <2>5. x \in Nat /\ y \in Nat /\ y < x /\ y \in S
    BY <1>1, <1>8
  <2>6. Below(y) = {m \in B : m < y}
    <3>1. \A m \in S : m \in Nat /\ (m < y => m < x)
      BY <1>1, <2>5
    <3> QED
      BY <3>1
  <2>7. Cardinality(Below(y)) >= rank - 1
    BY <2>1, <2>4, <2>6
  <2>8. y \in High
    BY <2>5, <2>7
  <2>9. ~ (x <= y)
    BY <2>5
  <2> HIDE DEF High
  <2> QED
    BY <1>7, <2>8, <2>9
<1> QED
  BY <1>8, <1>9

LEMMA AscendingNotes ==
  ASSUME NEW keys \in KeyStacks
  PROVE  /\ Len(Ascending(keys)) \in Nat
         /\ \A i \in 1..Len(Ascending(keys)) : Ascending(keys)[i] \in NotesOf(keys) \cap Notes
<1> DEFINE S == NotesOf(keys)
           k == Cardinality(S)
           Ranked(i) == CHOOSE n \in S : Cardinality({m \in S : m < n}) = i - 1
<1>1. S \in SUBSET Notes
  <2> DEFINE E == [note : Notes, flagged : BOOLEAN]
  <2>1. keys \in Stacks(E) /\ \A e \in E : e.note \in Notes
    BY DEF KeyStacks
  <2> HIDE DEF E
  <2>2. \A i \in DOMAIN keys : keys[i] \in E
    BY <2>1, StackElements
  <2> QED
    BY <2>1, <2>2 DEF NotesOf
<1>2. k \in Nat
  BY <1>1, NotesAreFinite
<1>3. \A i \in 1..k : Ranked(i) \in S
  <2>1. \A i \in 1..k : \E n \in S : Cardinality({m \in S : m < n}) = i - 1
    BY <1>1, NoteOfRank
  <2> HIDE DEF S
  <2> QED
    BY <1>1, <2>1
<1>4. Ascending(keys) = [i \in 1..k |-> Ranked(i)]
  BY DEF Ascending
<1> HIDE DEF k, Ranked
<1> HIDE DEF S
<1>5. Ascending(keys) \in [1..k -> S]
  BY <1>3, <1>4
<1>6. Len(Ascending(keys)) = k /\ \A i \in 1..k : Ascending(keys)[i] \in S
  BY <1>2, <1>5
<1> QED
  BY <1>1, <1>2, <1>6 DEF S

LEMMA StepArpeggiatorOK ==
  ASSUME NEW q, PartOK(q), NEW hit, NEW note, q.pressed # <<>> => note \in Notes
  PROVE  PartOK(StepArpeggiator(q, hit, note))
<1> DEFINE chord == Ascending(q.pressed)
<1>1. PartOK(InternalNoteOff(q, q.prev))
  BY InternalNoteOffOK
<1>2. /\ PartOK(CallForEach(q, "InternalNoteOn", chord))
      /\ PartOK(CallForEach(q, "InternalNoteOff", chord))
  <2>1. q.pressed \in KeyStacks
    BY DEF PartOK, Voiced, Parts
  <2>2. Len(chord) \in Nat /\ \A i \in 1..Len(chord) : chord[i] \in Notes
    BY <2>1, AscendingNotes
  <2> HIDE DEF chord
  <2> QED
    BY <2>2, CallForEachOK
<1>3. NoNote \in GeneratedNotes /\ kAnyNote \in GeneratedNotes
      /\ \A n \in Notes : n \in GeneratedNotes
  BY DEF GeneratedNotes
<1>4. ASSUME q.pressed # <<>>
      PROVE  PartOK([InternalNoteOn(InternalNoteOff(q, q.prev), note) EXCEPT !.prev = note])
  <2>1. PartOK(InternalNoteOn(InternalNoteOff(q, q.prev), note))
    BY <1>1, <1>4, InternalNoteOnOK
  <2> QED
    BY <1>3, <1>4, <2>1, SetOtherOK
<1>5. /\ PartOK([InternalNoteOff(q, q.prev) EXCEPT !.prev = NoNote])
      /\ PartOK([CallForEach(q, "InternalNoteOn", chord) EXCEPT !.prev = kAnyNote])
      /\ PartOK([CallForEach(q, "InternalNoteOff", chord) EXCEPT !.prev = NoNote])
  BY <1>1, <1>2, <1>3, SetOtherOK
<1> QED
  BY <1>4, <1>5 DEF StepArpeggiator

\* What the pedal's release passes to its loop.
LEMMA PedalUpNotes ==
  ASSUME NEW q, PartOK(q), NEW order \in SetToSeqs(FlaggedNotes(q))
  PROVE  /\ Len(order) \in Nat
         /\ \A i \in 1..Len(order) : order[i] \in Notes
         /\ FlaggedNotes(q) = {order[i] : i \in 1..Len(order)}
<1> DEFINE S == FlaggedNotes(q)
           k == Cardinality(S)
<1>1. S \in SUBSET Notes
  <2> DEFINE E == [note : Notes, flagged : BOOLEAN]
  <2>1. q.pressed \in Stacks(E) /\ \A e \in E : e.note \in Notes
    BY DEF PartOK, Voiced, Parts, KeyStacks
  <2> HIDE DEF E
  <2>2. \A i \in DOMAIN q.pressed : q.pressed[i] \in E
    BY <2>1, StackElements
  <2> QED
    BY <2>1, <2>2 DEF FlaggedNotes
<1>2. order \in [1..k -> S] /\ \A i, j \in 1..k : i # j => order[i] # order[j]
  BY DEF SetToSeqs
<1> HIDE DEF S
<1>3. k \in Nat /\ IsFiniteSet(S)
  BY <1>1, NotesAreFinite
<1>4. Cardinality(1..k) = k
  <2>1. Cardinality(1..k) = IF 1 > k THEN 0 ELSE k - 1 + 1
    BY <1>3, FS_Interval
  <2> QED
    BY <1>3, <2>1
<1>5. order \in Injection(1..k, S)
  BY <1>2 DEF Injection, IsInjective
<1>6. order \in Surjection(1..k, S)
  BY <1>3, <1>4, <1>5, FS_Injection
<1> HIDE DEF k
<1>7. Len(order) = k /\ Len(order) \in Nat /\ \A i \in 1..Len(order) : order[i] \in S
  BY <1>2, <1>3
<1>8. S = {order[i] : i \in 1..Len(order)}
  BY <1>6, <1>7 DEF Surjection
<1> QED
  BY <1>1, <1>7, <1>8 DEF S

\* The pedal's release.
LEMMA PedalUpOK ==
  ASSUME NEW q, PartOK(q), NEW order \in SetToSeqs(FlaggedNotes(q))
  PROVE  PartOK(PedalUp(q, order))
<1>1. Len(order) \in Nat /\ \A i \in 1..Len(order) : order[i] \in Notes
  BY PedalUpNotes
<1>2. PartOK([q EXCEPT !.ignore = FALSE])
  BY SetOtherOK
<1> QED
  BY <1>1, <1>2, CallForEachOK DEF PedalUp

\* Stop empties the part even under the pedal.
LEMMA StopOK ==
  ASSUME NEW q, PartOK(q)
  PROVE  /\ PartOK(Stop(q)) /\ Emptied(Stop(q))
         /\ PartOK(NextUnitSilenced(Stop(q))) /\ Emptied(NextUnitSilenced(Stop(q)))
<1> DEFINE u == [q EXCEPT !.ignore = FALSE]
           r == Stop(q)
           s == NextUnitSilenced(r)
<1>1. PartOK(u) /\ ~u.ignore
  <2>1. PartOK(u)
    BY SetOtherOK
  <2> QED
    BY <2>1 DEF PartOK, Voiced, Parts
<1>2. PartOK(r) /\ Emptied(r)
  BY <1>1, AllNotesOffOK DEF Stop
<1> HIDE DEF r
<1>3. PartOK(s)
  BY <1>2, EmptyStacks, SetOtherOK DEF NextUnitSilenced
<1>4. /\ s \in Parts /\ s.num = r.num /\ s.voice = r.voice
      /\ s.mono = r.mono /\ s.poly = r.poly /\ s.pressed = r.pressed
  BY <1>2, EmptyStacks DEF NextUnitSilenced, PartOK, Voiced, Parts
<1>5. Emptied(s)
  <2> HIDE DEF s
  <2> QED
    BY <1>2, <1>3, <1>4 DEF Emptied, Silenced, AllVoices, PartOK
<1> QED
  BY <1>2, <1>3, <1>5 DEF r

-----------------------------------------------------------------------------
\* The inductive invariant.
PartInv == PartOK(p) /\ setup \in Setups

LEMMA SetupFields ==
  ASSUME NEW s \in Setups
  PROVE  /\ s.keys \in SUBSET Notes /\ s.scales \in SUBSET (SUBSET Notes)
         /\ s.voices \in SUBSET (1..6) /\ s.pmodes \in SUBSET PolyphonyModes
         /\ s.amodes \in SUBSET SequencerModes /\ s.directions \in SUBSET {"LINE", "CHORD"}
         /\ s.octaves \in SUBSET Nat /\ s.offsets \in SUBSET Int
         /\ s.chords \in SUBSET Seq(Notes)
BY PartAssumption DEF Setup, PolyphonyModes, SequencerModes

LEMMA NewPartSilenced ==
  ASSUME NEW n \in 1..6, NEW pm \in PolyphonyModes, NEW am \in SequencerModes,
         NEW d \in {"LINE", "CHORD"}, NEW s \in SUBSET Notes
  PROVE  Silenced([num |-> n, pmode |-> pm, amode |-> am, seen |-> am, scale |-> s,
                   dir |-> d, ignore |-> FALSE, pressed |-> <<>>, mono |-> <<>>,
                   poly |-> NewPool(0, FALSE), prev |-> NoNote,
                   voice |-> [v \in 0..(n - 1) |-> Silent],
                   chain |-> <<>>, next |-> "POLY", out |-> {}])
<1> DEFINE voice == [v \in 0..(n - 1) |-> Silent]
           b == NewPool(0, FALSE)
           q == [num |-> n, pmode |-> pm, amode |-> am, seen |-> am, scale |-> s,
                 dir |-> d, ignore |-> FALSE, pressed |-> <<>>, mono |-> <<>>,
                 poly |-> b, prev |-> NoNote, voice |-> voice,
                 chain |-> <<>>, next |-> "POLY", out |-> {}]
<1>1. voice \in [0..(n - 1) -> Notes \cup {Silent}] /\ \A v \in 0..(n - 1) : voice[v] = Silent
  OBVIOUS
<1>2. voice \in Voicings
  BY <1>1 DEF Voicings
<1>3. b \in Allocators
  <2>1. WellFormed(b)
    <3>1. 0 \in 0..127 /\ FALSE \in BOOLEAN
      OBVIOUS
    <3> QED
      BY <3>1, NewPoolWellFormed
  <2> QED
    BY <2>1, AllocatorIsPool DEF WellFormed
<1>4. "POLY" \in PolyphonyModes /\ NoNote \in GeneratedNotes
  BY DEF PolyphonyModes, GeneratedNotes
<1> HIDE DEF voice, b
<1>5. q \in Parts
  BY <1>2, <1>3, <1>4, EmptyStacks DEF Parts
<1>6. q.voice = voice /\ AllVoices(q) = 0..(n - 1)
  BY DEF AllVoices
<1> HIDE DEF q
<1>7. Silenced(q)
  BY <1>1, <1>5, <1>6 DEF Silenced, Voiced
<1> QED
  BY <1>7 DEF q, b, voice

LEMMA PartInit == Init => PartInv
<1> SUFFICES ASSUME Init PROVE PartInv
  OBVIOUS
<1>1. PICK n \in setup.voices, pm \in setup.pmodes, am \in setup.amodes,
           d \in setup.directions, s \in setup.scales :
        p = InitializeAllocators(
              [num |-> n, pmode |-> pm, amode |-> am, seen |-> am, scale |-> s,
               dir |-> d, ignore |-> FALSE, pressed |-> <<>>, mono |-> <<>>,
               poly |-> NewPool(0, FALSE), prev |-> NoNote,
               voice |-> [v \in 0..(n - 1) |-> Silent],
               chain |-> <<>>, next |-> "POLY", out |-> {}])
  BY DEF Init
<1>2. /\ setup \in Setups
      /\ n \in 1..6 /\ pm \in PolyphonyModes /\ am \in SequencerModes
      /\ d \in {"LINE", "CHORD"} /\ s \in SUBSET Notes
  BY SetupFields DEF Init
<1>3. PartOK(p)
  BY <1>1, <1>2, NewPartSilenced, InitializeOK
<1> QED
  BY <1>2, <1>3 DEF PartInv

LEMMA EditPolyphonyModeOK ==
  ASSUME NEW q, PartOK(q), NEW m \in PolyphonyModes
  PROVE  PartOK(EditPolyphonyMode(q, m))
<1>1. RemappedMode(m) \in PolyphonyModes
  BY DEF RemappedMode, PolyphonyModes
<1> QED
  BY <1>1, SetPolyphonyModeOK, SetOtherOK DEF EditPolyphonyMode

LEMMA LoadSettingsOK ==
  ASSUME NEW q, PartOK(q), NEW pm \in PolyphonyModes, NEW am \in SequencerModes,
         NEW d \in {"LINE", "CHORD"}, NEW s \in SUBSET Notes
  PROVE  PartOK(LoadSettings(q, pm, am, d, s))
<1> DEFINE t == [q EXCEPT !.amode = am]
           u == [t EXCEPT !.dir = d]
           w == [u EXCEPT !.scale = s]
<1>1. PartOK(t)
  BY SetOtherOK
<1>2. PartOK(u)
  <2> HIDE DEF t
  <2> QED
    BY <1>1, SetOtherOK
<1>3. PartOK(w)
  <2> HIDE DEF u
  <2> QED
    BY <1>2, SetOtherOK
<1>4. w = [q EXCEPT !.amode = am, !.dir = d, !.scale = s]
  BY DEF PartOK, Voiced, Parts
<1> HIDE DEF w
<1> QED
  BY <1>3, <1>4, SetPolyphonyModeOK DEF LoadSettings

LEMMA ClipIsNote ==
  ASSUME NEW n \in Int
  PROVE  Clip(n) \in Notes
BY MaxNoteAssumption DEF Clip, Notes


LEMMA ClockOK ==
  ASSUME PartInv, Clock
  PROVE  PartOK(p')
<1> DEFINE q == IF p.amode # p.seen THEN Start(p) ELSE p
<1>0. PICK r \in SequencerSteps(q), hit \in BOOLEAN :
        \E note \in ArpeggioNotes(r) : p' = StepArpeggiator(r, hit, note)
  BY DEF Clock
<1>1. PICK note \in ArpeggioNotes(r) : p' = StepArpeggiator(r, hit, note)
  BY <1>0
<1>2. PartOK(q)
  BY StartOK DEF PartInv
<1> HIDE DEF q
<1>3. q.pressed \in KeyStacks /\ setup \in Setups
  BY <1>2 DEF PartInv, PartOK, Voiced, Parts
<1>4. PartOK(r)
  <2>1. CASE r = q
    BY <2>1, <1>2
  <2>2. ASSUME q.pressed # <<>>, NEW gate \in BOOLEAN, NEW legato \in BOOLEAN,
               NEW o \in setup.offsets,
               r = StepNoteSequence(q, gate, legato, Clip(TopOf(q.pressed) + o))
        PROVE  PartOK(r)
    <3>1. TopOf(q.pressed) \in Notes
      <4> DEFINE E == [note : Notes, flagged : BOOLEAN]
      <4>1. q.pressed \in Stacks(E) /\ \A e \in E : e.note \in Notes
        BY <1>3 DEF KeyStacks
      <4> HIDE DEF E
      <4>2. Head(q.pressed) \in E
        BY <2>2, <4>1, StackElements
      <4> QED
        BY <2>2, <4>1, <4>2 DEF TopOf
    <3>2. TopOf(q.pressed) + o \in Int
      BY <1>3, <3>1, SetupFields, MaxNoteAssumption DEF Notes
    <3> QED
      BY <1>2, <2>2, <3>2, ClipIsNote, StepNoteSequenceOK
  <2>3. ASSUME NEW c \in setup.chords, r = StepChordSequence(q, c) PROVE PartOK(r)
    BY <1>2, <1>3, <2>3, SetupFields, StepChordSequenceOK
  <2> QED
    BY <1>0, <2>1, <2>2, <2>3 DEF SequencerSteps
<1>5. r.pressed # <<>> => note \in Notes
  BY <1>1 DEF ArpeggioNotes
<1> QED
  BY <1>1, <1>4, <1>5, StepArpeggiatorOK

\* Every step keeps the invariant.
LEMMA PartNext == PartInv /\ [Next]_vars => PartInv'
<1> SUFFICES ASSUME PartInv, [Next]_vars PROVE PartInv'
  OBVIOUS
<1>0. PartOK(p) /\ setup \in Setups
  BY DEF PartInv
<1>1. SUFFICES PartOK(p')
  <2>1. setup' = setup
    BY DEF Next, vars, Press, Release, PressPedal, ReleasePedal, ReceiveAllSoundOff,
           ReceiveAllNotesOff, ReceiveResetAllControllers, ChangePolyphonyMode,
           ChangeSequencerMode, ChangeDirection, ChangeRaga, ChangeKeyRange, LoadProgram,
           ReassignVoices, StartClock, StopClock, StopIdleClock, Clock
  <2> QED
    BY <1>0, <2>1 DEF PartInv
<1>2. ASSUME NEW k \in Keys, Press(k) PROVE PartOK(p')
  <2> DEFINE q == IF running THEN p ELSE Start(p)
  <2>1. k \in Notes
    BY <1>0, <1>2, SetupFields DEF Press
  <2>2. PartOK(q)
    BY <1>0, StartOK
  <2>3. p' = IF k \in range THEN PartNoteOn(q, k) ELSE q
    BY <1>2 DEF Press
  <2> QED
    BY <2>1, <2>2, <2>3, PartNoteOnOK
<1>3. ASSUME NEW k \in Keys, Release(k) PROVE PartOK(p')
  <2>1. k \in Notes
    <3>1. PICK s \in Setups : k \in s.keys
      BY DEF Keys
    <3> QED
      BY <3>1, SetupFields
  <2> QED
    BY <1>0, <1>3, <2>1, PartNoteOffOK DEF Release
<1>4. CASE PressPedal
  <2>1. TRUE \in BOOLEAN
    OBVIOUS
  <2> QED
    BY <1>0, <1>4, <2>1, SetOtherOK DEF PressPedal, PedalDown
<1>5. CASE ReleasePedal
  BY <1>0, <1>5, PedalUpOK DEF ReleasePedal
<1>6. CASE ReceiveAllSoundOff
  <2>1. PartOK(AllSoundOff(p))
    BY <1>0, AllSoundOffOK
  <2> QED
    BY <1>6, <2>1, EmptyStacks, SetOtherOK DEF ReceiveAllSoundOff, NextUnitSilenced
<1>7. CASE ReceiveAllNotesOff
  <2>1. PartOK(AllNotesOff(p))
    BY <1>0, AllNotesOffOK
  <2>2. PartOK(NextUnitSilenced(AllNotesOff(p)))
    BY <2>1, EmptyStacks, SetOtherOK DEF NextUnitSilenced
  <2> QED
    BY <1>0, <1>7, <2>2 DEF ReceiveAllNotesOff
<1>8. CASE ReceiveResetAllControllers
  <2>1. FALSE \in BOOLEAN
    OBVIOUS
  <2> QED
    BY <1>0, <1>8, <2>1, SetOtherOK DEF ReceiveResetAllControllers, ResetAllControllers
<1>9. CASE ChangePolyphonyMode
  BY <1>0, <1>9, SetupFields, EditPolyphonyModeOK DEF ChangePolyphonyMode
<1>10. CASE ChangeSequencerMode
  <2>1. PICK m \in setup.amodes : p' = [p EXCEPT !.amode = m]
    BY <1>10 DEF ChangeSequencerMode
  <2>2. m \in SequencerModes
    BY <1>0, <2>1, SetupFields
  <2> QED
    BY <1>0, <2>1, <2>2, SetOtherOK
<1>11. CASE ChangeDirection
  <2>1. PICK d \in setup.directions : p' = [p EXCEPT !.dir = d]
    BY <1>11 DEF ChangeDirection
  <2>2. d \in {"LINE", "CHORD"}
    BY <1>0, <2>1, SetupFields
  <2> QED
    BY <1>0, <2>1, <2>2, SetOtherOK
<1>12. CASE ChangeRaga
  <2>1. PICK s \in setup.scales : p' = [p EXCEPT !.scale = s]
    BY <1>12 DEF ChangeRaga
  <2>2. s \in SUBSET Notes
    BY <1>0, <2>1, SetupFields
  <2> QED
    BY <1>0, <2>1, <2>2, SetOtherOK
<1>13. CASE ChangeKeyRange
  BY <1>0, <1>13 DEF ChangeKeyRange
<1>14. CASE LoadProgram
  BY <1>0, <1>14, SetupFields, LoadSettingsOK DEF LoadProgram
<1>15. CASE ReassignVoices
  BY <1>0, <1>15, SetupFields, AssignVoicesOK DEF ReassignVoices
<1>16. CASE StartClock
  BY <1>0, <1>16, StartOK DEF StartClock
<1>17. CASE StopClock
  BY <1>0, <1>17, StopOK DEF StopClock
<1>18. CASE StopIdleClock
  BY <1>0, <1>18, StopOK DEF StopIdleClock
<1>19. CASE Clock
  BY <1>19, ClockOK
<1>20. CASE UNCHANGED vars
  BY <1>0, <1>20 DEF vars
<1> QED
  BY <1>2, <1>3, <1>4, <1>5, <1>6, <1>7, <1>8, <1>9, <1>10, <1>11, <1>12, <1>13,
     <1>14, <1>15, <1>16, <1>17, <1>18, <1>19, <1>20 DEF Next

LEMMA PartInductive == Spec => []PartInv
BY PartInit, PartNext, PTL DEF Spec

-----------------------------------------------------------------------------
\* What the invariant gives.

\* Every voice of the part is one of a slot of this unit.
LEMMA VoiceHasSlot ==
  ASSUME NEW q \in Parts, ~IsMono(q), q.poly.size = PolySize(q), NEW v \in AllVoices(q)
  PROVE  /\ \E i \in LocalSlots(q) : v \in SlotVoices(q, i)
         /\ q.pmode # "UNISON_2X" => v \in LocalSlots(q) /\ SlotVoices(q, v) = {v}
<1> DEFINE n == q.num
<1>0. n \in 1..6 /\ v \in 0..(n - 1)
  BY DEF Parts, AllVoices
<1>1. CASE q.pmode = "UNISON_2X"
  <2>1. PICK i \in 0..2 : v = 2 * i \/ v = 2 * i + 1
    BY <1>0
  <2>2. i <= ((n + 1) \div 2) - 1
    <3>1. i < (n + 1) \div 2
      BY <1>0, <2>1
    <3> QED
      BY <1>0, <3>1
  <2>3. i \in LocalSlots(q)
    BY <1>0, <1>1, <2>1, <2>2 DEF LocalSlots, VoicesOf, PolySize
  <2>4. v \in SlotVoices(q, i)
    BY <1>0, <1>1, <2>1 DEF SlotVoices, GetNextVoice
  <2> QED
    BY <1>1, <2>3, <2>4
<1>2. CASE q.pmode # "UNISON_2X"
  <2>1. SlotVoices(q, v) = {v}
    BY <1>2 DEF SlotVoices
  <2>2. v \in LocalSlots(q)
    <3>1. CASE q.pmode = "CHAIN"
      <4>1. q.poly.size = 2 * n /\ (2 * n) \div 2 = n
        BY <1>0, <3>1 DEF PolySize
      <4> QED
        BY <1>0, <3>1, <4>1 DEF LocalSlots, VoicesOf
    <3>2. CASE q.pmode # "CHAIN"
      BY <1>0, <1>2, <3>2 DEF PolySize, LocalSlots, VoicesOf
    <3> QED
      BY <3>1, <3>2
  <2> QED
    BY <2>1, <2>2
<1> QED
  BY <1>1, <1>2

\* So a note that sounds is active on a slot of the voice that sounds it.
LEMMA SoundingIsActive ==
  ASSUME NEW q, PartOK(q), ~IsMono(q), Disjoint(q), NEW v \in AllVoices(q),
         q.voice[v] # Silent
  PROVE  /\ q.voice[v] \in Notes
         /\ \E i \in LocalSlots(q) :
              v \in SlotVoices(q, i) /\ q.poly.pool[i] = On(q.voice[v])
<1>1. q \in Parts /\ PolyOK(q) /\ q.poly.size = PolySize(q)
  BY DEF PartOK, Voiced, PolyOK
<1>2. q.voice[v] \in Notes
  BY DEF PartOK, Voiced
<1>3. PICK i \in LocalSlots(q) : v \in SlotVoices(q, i)
  BY <1>1, VoiceHasSlot
<1>4. q.poly.pool[i] = On(q.voice[v])
  BY <1>1, <1>3 DEF PolyOK, SlotMatches
<1> QED
  BY <1>2, <1>3, <1>4

LEMMA MonoVoicesSoundTop == PartInv => MonoSoundsTop
BY DEF PartInv, PartOK, MonoOK, MonoSoundsTop

LEMMA SoundingVoices ==
  ASSUME PartInv
  PROVE  Sounding = {p.voice[v] : v \in AllVoices(p)} \ {Silent}
<1>1. DOMAIN p.voice = AllVoices(p)
  BY DEF PartInv, PartOK, Voiced
<1> QED
  BY <1>1 DEF Sounding

LEMMA AgreedVoices == PartInv => VoicesMatchAllocator
<1> SUFFICES ASSUME PartInv, ~IsMono(p), SlotsAreDisjoint
             PROVE  /\ \A i \in LocalSlots(p) : \A v \in SlotVoices(p, i) :
                         /\ p.voice[v] # Silent => p.poly.pool[i] = On(p.voice[v])
                         /\ p.poly.pool[i].active
                            /\ (p.pmode = "CYCLIC" => p.poly.pool[i].note # MaxNote)
                            => p.voice[v] = p.poly.pool[i].note
                    /\ p.pmode # "CYCLIC" =>
                         \A n \in Sounding :
                           AftertouchVoices(p, n) = {v \in AllVoices(p) : p.voice[v] = n}
  BY DEF VoicesMatchAllocator
<1>1. /\ PartOK(p) /\ PolyOK(p) /\ Disjoint(p)
      /\ p \in Parts /\ WellFormed(p.poly) /\ p.poly.size = PolySize(p)
      /\ p.pmode # "CYCLIC" => p.poly.cyclic = NonCyclic
  BY DEF PartInv, PartOK, Voiced, PolyOK, Disjoint, SlotsAreDisjoint
<1>2. ASSUME NEW i \in LocalSlots(p), NEW v \in SlotVoices(p, i)
      PROVE  SlotMatches(p, p.voice[v], p.poly.pool[i])
  BY <1>1 DEF PolyOK
<1>3. ASSUME p.pmode # "CYCLIC", NEW n \in Sounding
      PROVE  AftertouchVoices(p, n) = {v \in AllVoices(p) : p.voice[v] = n}
  <2>1. PICK v \in AllVoices(p) : p.voice[v] = n /\ n # Silent
    BY SoundingVoices
  <2>2. PICK i \in LocalSlots(p) : p.poly.pool[i] = On(n)
    BY <1>1, <2>1, SoundingIsActive
  <2>3. n \in Notes
    BY <1>1, <2>1, SoundingIsActive
  <2>4. \A j \in LocalSlots(p) : p.poly.pool[j] = On(n) => j = Find(p.poly, n)
    BY <1>1, <1>3, <2>3, FindFindsActive DEF LocalSlots
  <2>5. i = Find(p.poly, n) /\ i < p.poly.size
    <3>1. i \in VoicesOf(p.poly) /\ p.poly.size \in Nat
      BY <1>1, PoolFields DEF LocalSlots, WellFormed
    <3> QED
      BY <2>2, <2>4, <3>1 DEF VoicesOf
  <2>6. AftertouchVoices(p, n) = SlotVoices(p, i)
    BY <1>3, <2>5 DEF AftertouchVoices
  <2>7. ASSUME NEW w \in SlotVoices(p, i) PROVE w \in AllVoices(p) /\ p.voice[w] = n
    <3>1. w \in AllVoices(p)
      BY <1>1, SlotsAreApart
    <3>2. SlotMatches(p, p.voice[w], On(n))
      BY <1>2, <2>2
    <3> QED
      BY <1>3, <3>1, <3>2 DEF SlotMatches, On
  <2>8. ASSUME NEW w \in AllVoices(p), p.voice[w] = n PROVE w \in SlotVoices(p, i)
    <3>1. PICK j \in LocalSlots(p) : w \in SlotVoices(p, j) /\ p.poly.pool[j] = On(n)
      BY <1>1, <2>1, <2>8, SoundingIsActive
    <3> QED
      BY <2>4, <2>5, <3>1
  <2> QED
    BY <2>6, <2>7, <2>8
<1> QED
  BY <1>2, <1>3 DEF SlotMatches

LEMMA EachNoteSoundsOnce == PartInv => NoteOnOneVoice
<1> SUFFICES ASSUME PartInv, p.pmode \in {"POLY", "CYCLIC", "CHAIN"},
                    NEW v \in AllVoices(p), NEW w \in AllVoices(p),
                    p.voice[v] = p.voice[w], p.voice[v] # Silent,
                    p.pmode = "CYCLIC" => p.voice[v] # MaxNote
             PROVE  v = w
  BY DEF NoteOnOneVoice
<1> DEFINE n == p.voice[v]
<1>1. ~IsMono(p) /\ Disjoint(p) /\ p.pmode # "UNISON_2X"
  BY DEF IsMono, Disjoint
<1>2. /\ PartOK(p) /\ PolyOK(p) /\ p \in Parts
      /\ WellFormed(p.poly) /\ p.poly.size = PolySize(p)
      /\ p.pmode # "CYCLIC" => p.poly.cyclic = NonCyclic
  BY <1>1 DEF PartInv, PartOK, Voiced, PolyOK
<1>3. \A u \in AllVoices(p) : u \in LocalSlots(p) /\ SlotVoices(p, u) = {u}
  BY <1>1, <1>2, VoiceHasSlot
<1>4. n \in Notes
  BY <1>1, <1>2, SoundingIsActive
<1>5. \A u \in AllVoices(p) : p.voice[u] = n => p.poly.pool[u] = On(n)
  BY <1>1, <1>2, <1>3 DEF PolyOK, SlotMatches
<1>6. v \in VoicesOf(p.poly) /\ w \in VoicesOf(p.poly)
  BY <1>3 DEF LocalSlots
<1>7. p.poly.pool[v] = On(n) /\ p.poly.pool[w] = On(n)
  BY <1>5
<1>8. CASE p.pmode = "CYCLIC"
  BY <1>2, <1>6, <1>7, <1>8 DEF PolyOK, ActiveOnce, On
<1>9. CASE p.pmode # "CYCLIC"
  <2>1. Find(p.poly, n) = v
    BY <1>2, <1>4, <1>6, <1>7, <1>9, FindFindsActive
  <2>2. Find(p.poly, n) = w
    BY <1>2, <1>4, <1>6, <1>7, <1>9, FindFindsActive
  <2> QED
    BY <2>1, <2>2
<1> QED
  BY <1>8, <1>9

\* Only a stop of the clock makes running FALSE, and it empties the part.
LEMMA StopEmpties ==
  ASSUME PartInv, Next, running, ~running'
  PROVE  Emptied(p')
<1>1. StopClock \/ StopIdleClock
  BY DEF Next, Press, Release, PressPedal, ReleasePedal, ReceiveAllSoundOff,
         ReceiveAllNotesOff, ReceiveResetAllControllers, ChangePolyphonyMode,
         ChangeSequencerMode, ChangeDirection, ChangeRaga, ChangeKeyRange, LoadProgram,
         ReassignVoices, StartClock, Clock
<1>2. PartOK(p)
  BY DEF PartInv
<1> QED
  BY <1>1, <1>2, StopOK DEF StopClock, StopIdleClock

-----------------------------------------------------------------------------
\* The notes a part remembers as being on: those of the stack in the monophonic
\* modes, in the others those active on a slot.  (In CYCLIC mode MaxNote is the note
\* of the freed slots.)
NotesOn(q) ==
  IF IsMono(q) THEN NotesOf(q.mono)
  ELSE {n \in Notes : /\ \E i \in VoicesOf(q.poly) : q.poly.pool[i] = On(n)
                      /\ q.pmode = "CYCLIC" => n # MaxNote}

\* In CYCLIC mode, the notes of the free slots are neither accepted nor on.
Tellable(q) ==
  q.pmode = "CYCLIC" =>
    /\ 0 \notin q.scale /\ MaxNote \notin q.scale
    /\ 0 \notin NotesOn(q)
    /\ \A v \in AllVoices(q) : q.voice[v] # MaxNote

\* The fields that the note path does not write.
SameSettings(q, r) ==
  /\ r.num = q.num /\ r.amode = q.amode /\ r.seen = q.seen
  /\ r.scale = q.scale /\ r.dir = q.dir

SameRest(q, r) ==
  /\ SameSettings(q, r) /\ r.pmode = q.pmode /\ r.ignore = q.ignore
  /\ r.pressed = q.pressed /\ r.prev = q.prev

LEMMA TellFrame ==
  ASSUME NEW q \in Parts, NEW targets, NEW what
  PROVE  LET r == Tell(q, targets, what)
         IN  /\ SameRest(q, r) /\ r.out = q.out /\ r.chain = q.chain
             /\ r.mono = q.mono /\ r.poly = q.poly
BY DEF Tell, Parts, SameRest, SameSettings

LEMMA AddressFrame ==
  ASSUME NEW q \in Parts, NEW c, NEW note, NEW what
  PROVE  LET r == Address(q, c, note, what)
         IN  /\ SameRest(q, r) /\ r.out = q.out
             /\ r.mono = q.mono /\ r.poly = q.poly
             /\ q.pmode # "CHAIN" => r.chain = q.chain
<1> DEFINE chain == IF what = Silent THEN Without(q.chain, note) ELSE Forwarded(q.chain, note)
<1>1. CASE c \in LocalSlots(q)
  BY <1>1, TellFrame DEF Address
<1>2. CASE c \notin LocalSlots(q) /\ q.pmode # "CHAIN"
  BY <1>2 DEF Address, SameRest, SameSettings
<1>3. CASE c \notin LocalSlots(q) /\ q.pmode = "CHAIN"
  <2>1. Address(q, c, note, what) = [q EXCEPT !.chain = chain]
    BY <1>3 DEF Address
  <2> HIDE DEF chain
  <2> QED
    BY <1>3, <2>1 DEF Parts, SameRest, SameSettings
<1> QED
  BY <1>1, <1>2, <1>3

\* What InternalNoteOn does to the containers.
LEMMA NoteOnFields ==
  ASSUME NEW q, PartOK(q), NEW note \in Notes, note \in q.scale
  PROVE  LET r == InternalNoteOn(q, note)
         IN  /\ SameRest(q, r) /\ r.out = q.out \cup {note}
             /\ q.pmode # "CHAIN" => r.chain = q.chain
             /\ IsMono(q) => r.mono = Played(q.mono, [note |-> note], MonoCapacity)
             /\ ~IsMono(q) =>
                  r.poly = IF FindActive(q.poly, note) # NoVoice THEN q.poly
                           ELSE AfterNoteOn(q.poly, note)
<1> DEFINE u == [q EXCEPT !.out = @ \cup {note}]
           m == Played(q.mono, [note |-> note], MonoCapacity)
           b == AfterNoteOn(q.poly, note)
           r == InternalNoteOn(q, note)
<1>1. q \in Parts /\ q.out \cup {note} \in SUBSET Notes
  BY DEF PartOK, Voiced, Parts
<1>2. /\ u \in Parts /\ SameRest(q, u) /\ u.out = q.out \cup {note}
      /\ u.chain = q.chain /\ u.mono = q.mono /\ u.poly = q.poly
      /\ MonoVoices(u) = MonoVoices(q)
  <2>1. u \in Parts
    BY <1>1, SetOtherFields
  <2> QED
    BY <1>1, <2>1 DEF SameRest, SameSettings, Parts, MonoVoices, AllVoices
<1>3. r = IF IsMono(q) THEN Tell([u EXCEPT !.mono = m], MonoVoices(q), note)
          ELSE IF FindActive(q.poly, note) # NoVoice
          THEN Address(u, FindActive(q.poly, note), note, note)
          ELSE Address([u EXCEPT !.poly = b], NoteOnVoice(q.poly, note), note, note)
  BY <1>2 DEF InternalNoteOn, MonoVoices, AllVoices
<1> HIDE DEF r, u, b, m
<1>4. CASE IsMono(q)
  <2> DEFINE w == [u EXCEPT !.mono = m]
  <2>1. m \in NoteLists
    <3>1. q.mono \in NoteLists /\ [note |-> note] \in [note : Notes]
      BY <1>1 DEF Parts
    <3> QED
      BY <3>1, PlayedStack, PartOpsAssumption DEF NoteLists, m
  <2>2. w \in Parts /\ SameRest(u, w) /\ w.out = u.out /\ w.chain = u.chain /\ w.mono = m
    BY <1>2, <2>1 DEF Parts, SameRest, SameSettings
  <2> HIDE DEF w
  <2>3. r = Tell(w, MonoVoices(q), note)
    BY <1>3, <1>4 DEF w
  <2>4. SameRest(w, r) /\ r.out = w.out /\ r.chain = w.chain /\ r.mono = w.mono
    BY <2>2, <2>3, TellFrame
  <2> QED
    BY <1>2, <1>4, <2>2, <2>4 DEF SameRest, SameSettings, r, m
<1>5. CASE ~IsMono(q) /\ FindActive(q.poly, note) # NoVoice
  <2>1. SameRest(u, r) /\ r.out = u.out /\ r.poly = u.poly
        /\ (u.pmode # "CHAIN" => r.chain = u.chain)
    BY <1>2, <1>3, <1>5, AddressFrame
  <2> QED
    BY <1>2, <1>5, <2>1 DEF SameRest, SameSettings, r
<1>6. CASE ~IsMono(q) /\ FindActive(q.poly, note) = NoVoice
  <2> DEFINE w == [u EXCEPT !.poly = b]
  <2>1. b \in Allocators
    <3>1. WellFormed(q.poly)
      BY <1>6 DEF PartOK, PolyOK
    <3>2. WellFormed(b)
      BY <3>1, NoteOnWellFormed DEF b
    <3> QED
      BY <3>2, AllocatorIsPool DEF WellFormed
  <2>2. w \in Parts /\ SameRest(u, w) /\ w.out = u.out /\ w.chain = u.chain /\ w.poly = b
    BY <1>2, <2>1 DEF Parts, SameRest, SameSettings
  <2> HIDE DEF w
  <2>3. r = Address(w, NoteOnVoice(q.poly, note), note, note)
    BY <1>3, <1>6 DEF w
  <2>4. SameRest(w, r) /\ r.out = w.out /\ r.poly = w.poly
        /\ (w.pmode # "CHAIN" => r.chain = w.chain)
    BY <2>2, <2>3, AddressFrame
  <2> QED
    BY <1>2, <1>6, <2>2, <2>4 DEF SameRest, SameSettings, r, b
<1> QED
  BY <1>4, <1>5, <1>6

\* What InternalNoteOff does to the containers.
LEMMA NoteOffFields ==
  ASSUME NEW q, PartOK(q), NEW note, note # NoNote
  PROVE  LET r == InternalNoteOff(q, note)
         IN  /\ SameRest(q, r) /\ r.out = q.out \ {note}
             /\ q.pmode # "CHAIN" => r.chain = q.chain
             /\ IsMono(q) => r.mono = Without(q.mono, note)
             /\ ~IsMono(q) => r.poly = AfterNoteOff(q.poly, note)
<1> DEFINE u == [q EXCEPT !.out = @ \ {note}]
           m == Without(q.mono, note)
           b == AfterNoteOff(q.poly, note)
           r == InternalNoteOff(q, note)
<1>1. q \in Parts /\ q.out \ {note} \in SUBSET Notes
  BY DEF PartOK, Voiced, Parts
<1>2. /\ u \in Parts /\ SameRest(q, u) /\ u.out = q.out \ {note}
      /\ u.chain = q.chain /\ u.mono = q.mono /\ u.poly = q.poly
  <2>1. u \in Parts
    BY <1>1, SetOtherFields
  <2> QED
    BY <1>1, <2>1 DEF SameRest, SameSettings, Parts
<1> DEFINE w == [u EXCEPT !.mono = m]
           d == [u EXCEPT !.poly = b]
<1>3. m \in NoteLists
  BY <1>1, WithoutStack DEF Parts, NoteLists
<1> HIDE DEF m
<1>4. w \in Parts /\ SameRest(u, w) /\ w.out = u.out /\ w.chain = u.chain /\ w.mono = m
  BY <1>2, <1>3 DEF Parts, SameRest, SameSettings
<1>5. \/ /\ IsMono(q)
         /\ \/ r = w \/ r = Tell(w, MonoVoices(q), Silent)
            \/ r = Tell(w, MonoVoices(q), TopOf(w.mono))
      \/ ~IsMono(q) /\ r = Address(d, Find(q.poly, note), note, Silent)
  BY <1>2 DEF InternalNoteOff, m
<1> HIDE DEF r, u, b, w
<1>6. CASE IsMono(q)
  <2>1. SameRest(w, r) /\ r.out = w.out /\ r.chain = w.chain /\ r.mono = w.mono
    <3>1. SameRest(w, w)
      BY DEF SameRest, SameSettings
    <3> QED
      BY <1>4, <1>5, <1>6, <3>1, TellFrame
  <2> QED
    BY <1>2, <1>4, <1>6, <2>1 DEF SameRest, SameSettings, r, m
<1>7. CASE ~IsMono(q)
  <2>1. b \in Allocators
    <3> DEFINE a == q.poly
    <3>1. WellFormed(a)
      BY <1>7 DEF PartOK, PolyOK
    <3> HIDE DEF a
    <3>2. WellFormed(AfterNoteOff(a, note))
      BY <3>1, NoteOffWellFormed, ZenonT(60)
    <3> QED
      BY <3>2, AllocatorIsPool DEF WellFormed, a, b
  <2>2. d \in Parts /\ SameRest(u, d) /\ d.out = u.out /\ d.chain = u.chain /\ d.poly = b
    BY <1>2, <2>1 DEF Parts, SameRest, SameSettings
  <2> HIDE DEF d
  <2>3. r = Address(d, Find(q.poly, note), note, Silent)
    BY <1>5, <1>7
  <2>4. SameRest(d, r) /\ r.out = d.out /\ r.poly = d.poly
        /\ (d.pmode # "CHAIN" => r.chain = d.chain)
    BY <2>2, <2>3, AddressFrame
  <2> QED
    BY <1>2, <1>7, <2>2, <2>4 DEF SameRest, SameSettings, r, b
<1> QED
  BY <1>6, <1>7
\* What they tell the voices of a polyphonic part.
LEMMA NoteVoices ==
  ASSUME NEW q, PartOK(q), ~IsMono(q), NEW note
  PROVE  /\ note \in Notes =>
              \A v \in AllVoices(q) : InternalNoteOn(q, note).voice[v] \in {q.voice[v], note}
         /\ \A v \in AllVoices(q) : InternalNoteOff(q, note).voice[v] \in {q.voice[v], Silent}
<1>1. q \in Parts /\ Voiced(q) /\ WellFormed(q.poly) /\ q.out \in SUBSET Notes
  BY DEF PartOK, PolyOK, Voiced, Parts
<1> DEFINE With(out, b) == [[q EXCEPT !.out = out] EXCEPT !.poly = b]
<1>2. ASSUME NEW b \in Allocators, NEW out \in SUBSET Notes, NEW c,
             NEW what \in Notes \cup {Silent}, what # Silent => note \in Notes,
             NEW v \in AllVoices(q)
      PROVE  Address(With(out, b), c, note, what).voice[v] \in {q.voice[v], what}
  <2> DEFINE w == With(out, b)
             r == Address(w, c, note, what)
  <2>1. w \in Parts /\ w.num = q.num /\ w.voice = q.voice
    BY <1>1 DEF Parts
  <2> HIDE DEF w
  <2>2. Voiced(w) /\ AllVoices(w) = AllVoices(q)
    BY <1>1, <2>1 DEF Voiced, AllVoices
  <2>3. r.voice[v] = IF c \in LocalSlots(w) /\ v \in SlotVoices(w, c) THEN what
                     ELSE w.voice[v]
    BY <1>2, <2>2, Addressed
  <2> HIDE DEF r
  <2>4. r.voice[v] \in {q.voice[v], what}
    BY <2>1, <2>2, <2>3
  <2> QED
    BY <2>4 DEF w, r
<1>3. ASSUME note \in Notes, NEW v \in AllVoices(q)
      PROVE  InternalNoteOn(q, note).voice[v] \in {q.voice[v], note}
  <2> DEFINE out == q.out \cup {note}
             u == [q EXCEPT !.out = out]
             b == AfterNoteOn(q.poly, note)
             c == FindActive(q.poly, note)
  <2>1. out \in SUBSET Notes /\ q.poly \in Allocators /\ note # Silent
    BY <1>1, <1>3, MaxNoteAssumption DEF Parts, Notes, Silent
  <2>2. b \in Allocators
    BY <1>1, <1>3, NoteOnWellFormed, AllocatorIsPool DEF WellFormed
  <2>3. InternalNoteOn(q, note) =
          IF note \notin q.scale THEN q
          ELSE IF c # NoVoice THEN Address(With(out, q.poly), c, note, note)
          ELSE Address(With(out, b), NoteOnVoice(q.poly, note), note, note)
    <3>1. [u EXCEPT !.poly = q.poly] = u
      <4>1. u \in Parts /\ u.poly = q.poly
        BY <1>1, <2>1 DEF Parts
      <4> QED
        BY <4>1 DEF Parts
    <3>2. u = [q EXCEPT !.out = @ \cup {note}]
      OBVIOUS
    <3> HIDE DEF u
    <3> QED
      BY <1>1, <3>1, <3>2 DEF InternalNoteOn
  <2> HIDE DEF out, b, c, With
  <2>4. /\ Address(With(out, q.poly), c, note, note).voice[v] \in {q.voice[v], note}
        /\ Address(With(out, b), NoteOnVoice(q.poly, note), note, note).voice[v]
             \in {q.voice[v], note}
    BY <1>2, <1>3, <2>1, <2>2
  <2> QED
    BY <2>3, <2>4
<1>4. ASSUME NEW v \in AllVoices(q)
      PROVE  InternalNoteOff(q, note).voice[v] \in {q.voice[v], Silent}
  <2> DEFINE out == q.out \ {note}
             b == AfterNoteOff(q.poly, note)
  <2>1. out \in SUBSET Notes
    BY <1>1
  <2>2. b \in Allocators
    <3> DEFINE a == q.poly
    <3>1. WellFormed(a)
      BY <1>1
    <3> HIDE DEF a
    <3>2. WellFormed(AfterNoteOff(a, note))
      BY <3>1, NoteOffWellFormed, ZenonT(60)
    <3> QED
      BY <3>2, AllocatorIsPool DEF WellFormed, a
  <2>3. InternalNoteOff(q, note) =
          IF note = NoNote THEN q
          ELSE Address(With(out, b), Find(q.poly, note), note, Silent)
    BY <1>1 DEF InternalNoteOff, Parts
  <2> HIDE DEF out, b, With
  <2>4. Address(With(out, b), Find(q.poly, note), note, Silent).voice[v]
          \in {q.voice[v], Silent}
    BY <1>2, <2>1, <2>2
  <2> QED
    BY <2>3, <2>4
<1> QED
  BY <1>3, <1>4

-----------------------------------------------------------------------------
\* A note-on adds the note to those that are on, a note-off takes it out.
LEMMA NoteOnAdds ==
  ASSUME NEW q, PartOK(q), Tellable(q), NEW note \in Notes
  PROVE  LET r == InternalNoteOn(q, note)
         IN  /\ NotesOn(r) \subseteq NotesOn(q) \cup {note}
             /\ Tellable(r)
<1> DEFINE r == InternalNoteOn(q, note)
<1>1. CASE note \notin q.scale
  BY <1>1 DEF InternalNoteOn
<1>2. CASE note \in q.scale
  <2>1. /\ SameRest(q, r)
        /\ IsMono(q) => r.mono = Played(q.mono, [note |-> note], MonoCapacity)
        /\ ~IsMono(q) => r.poly = IF FindActive(q.poly, note) # NoVoice THEN q.poly
                                  ELSE AfterNoteOn(q.poly, note)
    BY <1>2, NoteOnFields
  <2>2. ~IsMono(q) => \A v \in AllVoices(q) : r.voice[v] \in {q.voice[v], note}
    BY NoteVoices
  <2> HIDE DEF r
  <2>3. (IsMono(r) <=> IsMono(q)) /\ AllVoices(r) = AllVoices(q) /\ r.pmode = q.pmode
        /\ r.scale = q.scale
    BY <2>1 DEF SameRest, SameSettings, IsMono, AllVoices
  <2>4. NotesOn(r) \subseteq NotesOn(q) \cup {note}
    <3>1. CASE IsMono(q)
      <4> DEFINE e == [note |-> note]
                 E == [note : Notes]
      <4>1. q.mono \in Stacks(E) /\ e \in E /\ e.note = note /\ MonoCapacity \in Nat \ {0}
        BY PartOpsAssumption DEF PartOK, Voiced, Parts, NoteLists
      <4>2. r.mono = Played(q.mono, e, MonoCapacity)
        BY <2>1, <3>1
      <4> HIDE DEF e, E
      <4>3. NotesOf(r.mono) \subseteq NotesOf(q.mono) \cup {e.note}
        BY <4>1, <4>2, PlayedStack
      <4> QED
        BY <2>3, <3>1, <4>1, <4>3 DEF NotesOn
    <3>2. CASE ~IsMono(q) /\ FindActive(q.poly, note) # NoVoice
      BY <2>1, <2>3, <3>2 DEF NotesOn
    <3>3. CASE ~IsMono(q) /\ FindActive(q.poly, note) = NoVoice
      <4> DEFINE c == ChosenVoice(q.poly, note)
      <4>1. WellFormed(q.poly) /\ IsPool(q.poly) /\ r.poly = AfterNoteOn(q.poly, note)
        BY <2>1, <3>3 DEF PartOK, PolyOK, WellFormed
      <4>2. VoicesOf(r.poly) = VoicesOf(q.poly)
        <5>1. SameKind(q.poly, AfterNoteOn(q.poly, note))
          BY <4>1, NoteOnWellFormed, ZenonT(60)
        <5> QED
          BY <4>1, <5>1 DEF SameKind
      <4>3. \A i \in VoicesOf(q.poly) : r.poly.pool[i] \in {q.poly.pool[i], On(note)}
        <5>1. CASE q.poly.size = 0
          BY <4>1, <5>1, NoteOnWellFormed
        <5>2. CASE q.poly.size # 0
          <6>1. c \in VoicesOf(q.poly) /\ r.poly.pool = [q.poly.pool EXCEPT ![c] = On(note)]
            BY <4>1, <5>2, NoteOnWellFormed
          <6> HIDE DEF c
          <6> QED
            BY <4>1, <6>1, PoolFields
        <5> QED
          BY <5>1, <5>2
      <4>4. \A n : On(n) = On(note) => n = note
        BY DEF On
      <4> QED
        BY <2>3, <3>3, <4>2, <4>3, <4>4 DEF NotesOn
    <3> QED
      BY <3>1, <3>2, <3>3
  <2>5. Tellable(r)
    <3> SUFFICES ASSUME r.pmode = "CYCLIC" PROVE Tellable(r)
      BY DEF Tellable
    <3>1. /\ ~IsMono(q) /\ 0 \notin q.scale /\ MaxNote \notin q.scale
          /\ 0 \notin NotesOn(q) /\ \A v \in AllVoices(q) : q.voice[v] # MaxNote
      BY <2>3 DEF IsMono, Tellable
    <3>2. note # 0 /\ note # MaxNote
      BY <1>2, <3>1
    <3> QED
      BY <2>2, <2>3, <2>4, <3>1, <3>2 DEF Tellable
  <2> QED
    BY <2>4, <2>5 DEF r
<1> QED
  BY <1>1, <1>2

LEMMA NoteOffRemoves ==
  ASSUME NEW q, PartOK(q), Tellable(q), NEW note
  PROVE  LET r == InternalNoteOff(q, note)
         IN  /\ NotesOn(r) \subseteq NotesOn(q) \ {note}
             /\ Tellable(r)
<1> DEFINE r == InternalNoteOff(q, note)
<1>0. NotesOn(q) \subseteq Notes
  <2>1. CASE IsMono(q)
    <3> DEFINE E == [note : Notes]
    <3>1. q.mono \in Stacks(E) /\ \A e \in E : e.note \in Notes
      BY DEF PartOK, Voiced, Parts, NoteLists
    <3> HIDE DEF E
    <3>2. \A i \in DOMAIN q.mono : q.mono[i] \in E
      BY <3>1, StackElements
    <3> QED
      BY <2>1, <3>1, <3>2 DEF NotesOn, NotesOf
  <2> QED
    BY <2>1 DEF NotesOn
<1>1. CASE note = NoNote
  <2>1. NoNote \notin Notes
    BY MaxNoteAssumption DEF NoNote, Notes
  <2> QED
    BY <1>0, <1>1, <2>1 DEF InternalNoteOff
<1>2. CASE note # NoNote
  <2>1. /\ SameRest(q, r)
        /\ IsMono(q) => r.mono = Without(q.mono, note)
        /\ ~IsMono(q) => r.poly = AfterNoteOff(q.poly, note)
    BY <1>2, NoteOffFields
  <2>2. ~IsMono(q) => \A v \in AllVoices(q) : r.voice[v] \in {q.voice[v], Silent}
    BY NoteVoices
  <2> HIDE DEF r
  <2>3. (IsMono(r) <=> IsMono(q)) /\ AllVoices(r) = AllVoices(q) /\ r.pmode = q.pmode
        /\ r.scale = q.scale
    BY <2>1 DEF SameRest, SameSettings, IsMono, AllVoices
  <2>4. NotesOn(r) \subseteq NotesOn(q) \ {note}
    <3>1. CASE IsMono(q)
      <4>1. q.mono \in NoteLists
        BY DEF PartOK, Voiced, Parts
      <4>2. NotesOf(r.mono) = NotesOf(q.mono) \ {note}
        BY <2>1, <3>1, <4>1, WithoutNotes DEF NoteLists
      <4> QED
        BY <2>3, <3>1, <4>2 DEF NotesOn
    <3>2. CASE ~IsMono(q)
      <4> DEFINE a == q.poly
                 b == r.poly
                 c == Find(a, note)
                 s == IF a.cyclic = NonCyclic THEN Off(note) ELSE On(MaxNote)
      <4>1. /\ WellFormed(a) /\ IsPool(a) /\ b = AfterNoteOff(a, note)
            /\ a.cyclic = NonCyclic <=> q.pmode # "CYCLIC"
            /\ q.pmode = "CYCLIC" => ActiveOnce(a)
        BY <2>1, <3>2 DEF PartOK, PolyOK, WellFormed
      <4> HIDE DEF a, b, c
      <4>2. VoicesOf(b) = VoicesOf(a)
        BY <4>1, NoteOffWellFormed, ZenonT(60) DEF SameKind
      <4>3. CASE c = NoVoice
        <5>1. b = a
          BY <4>1, <4>3, NoteOffWellFormed, ZenonT(60) DEF c
        <5>2. \A i \in VoicesOf(a) : a.pool[i].note # note
          BY <4>1, <4>3, FindIsFirst DEF c
        <5>3. NotesOn(r) = NotesOn(q)
          BY <2>3, <5>1, <3>2 DEF NotesOn, a, b
        <5>4. note \notin NotesOn(q)
          <6>1. \A i \in VoicesOf(a) : a.pool[i] # On(note)
            BY <5>2 DEF On
          <6> QED
            BY <3>2, <6>1 DEF NotesOn, a
        <5> QED
          BY <5>3, <5>4
      <4>4. CASE c # NoVoice
        <5>1. b.pool = [a.pool EXCEPT ![c] = s]
          BY <4>1, <4>4, NoteOffWellFormed, ZenonT(60) DEF c
        <5>2. c \in VoicesOf(a) /\ a.pool[c].note = note
          BY <4>1, <4>4, FindIsFirst DEF c
        <5>3. \A i \in VoicesOf(a) : b.pool[i] = IF i = c THEN s ELSE a.pool[i]
          BY <4>1, <5>1, PoolFields
        <5>4. a.pool[c] \in VoiceState /\ note \in Notes
          BY <4>1, <5>2, PoolFields DEF VoiceState
        <5>5. ASSUME NEW n \in NotesOn(r) PROVE n \in NotesOn(q) /\ n # note
          <6>1. PICK i \in VoicesOf(a) : b.pool[i] = On(n) /\ n \in Notes
            BY <2>3, <3>2, <4>2, <5>5 DEF NotesOn, b
          <6>2. q.pmode = "CYCLIC" => n # MaxNote
            BY <2>3, <3>2, <5>5 DEF NotesOn
          <6>3. i # c
            <7>1. CASE a.cyclic = NonCyclic
              BY <5>3, <6>1, <7>1 DEF On, Off
            <7>2. CASE a.cyclic # NonCyclic
              BY <4>1, <5>3, <6>1, <6>2, <7>2 DEF On
            <7> QED
              BY <7>1, <7>2
          <6>4. a.pool[i] = On(n)
            BY <5>3, <6>1, <6>3
          <6>5. n \in NotesOn(q)
            BY <3>2, <6>1, <6>2, <6>4 DEF NotesOn, a
          <6>6. n # note
            <7>1. CASE a.cyclic = NonCyclic
              BY <4>1, <6>1, <6>3, <6>4, <7>1, FindFindsActive DEF c
            <7>2. CASE a.cyclic # NonCyclic
              <8>1. 0 \notin NotesOn(q) /\ ActiveOnce(a)
                BY <4>1, <7>2 DEF Tellable
              <8>2. SUFFICES ASSUME n = note PROVE FALSE
                OBVIOUS
              <8>3. a.pool[c] # Off(0)
                BY <5>2, <6>5, <8>1, <8>2 DEF Off
              <8>4. a.pool[c].active
                BY <5>2, <8>1, <8>3 DEF ActiveOnce
              <8>5. a.pool[c] = On(n)
                BY <5>2, <5>4, <8>2, <8>4 DEF VoiceState, On
              <8>6. a.pool[c].note # MaxNote
                BY <4>1, <5>2, <6>2, <7>2, <8>2
              <8> QED
                BY <5>2, <6>3, <6>4, <8>1, <8>4, <8>5, <8>6 DEF ActiveOnce
            <7> QED
              BY <7>1, <7>2
          <6> QED
            BY <6>5, <6>6
        <5> QED
          BY <5>5
      <4> QED
        BY <4>3, <4>4
    <3> QED
      BY <3>1, <3>2
  <2>5. Tellable(r)
    <3> SUFFICES ASSUME r.pmode = "CYCLIC" PROVE Tellable(r)
      BY DEF Tellable
    <3>1. /\ ~IsMono(q) /\ 0 \notin q.scale /\ MaxNote \notin q.scale
          /\ 0 \notin NotesOn(q) /\ \A v \in AllVoices(q) : q.voice[v] # MaxNote
      BY <2>3 DEF IsMono, Tellable
    <3>2. Silent # MaxNote
      BY MaxNoteAssumption DEF Silent
    <3> QED
      BY <2>2, <2>3, <2>4, <3>1, <3>2 DEF Tellable
  <2> QED
    BY <2>4, <2>5 DEF r
<1> QED
  BY <1>1, <1>2
\* What a voice sounds is on.
LEMMA VoicesAreOn ==
  ASSUME NEW q, PartOK(q), Tellable(q), NEW v \in AllVoices(q), q.voice[v] # Silent
  PROVE  q.voice[v] \in NotesOn(q)
<1>1. CASE IsMono(q)
  <2>1. q.mono # <<>> /\ q.voice[v] = TopOf(q.mono)
    BY <1>1 DEF PartOK, MonoOK
  <2>2. q.mono \in NoteLists
    BY DEF PartOK, Voiced, Parts
  <2>3. 1 \in DOMAIN q.mono /\ Head(q.mono) = q.mono[1]
    BY <2>1, <2>2, StackElements DEF NoteLists
  <2> QED
    BY <1>1, <2>1, <2>3 DEF NotesOn, NotesOf, TopOf
<1>2. CASE ~IsMono(q)
  <2>1. PICK i \in LocalSlots(q) : q.poly.pool[i] = On(q.voice[v])
    BY <1>2 DEF PartOK, PolyOK, HasSlot
  <2>2. i \in VoicesOf(q.poly)
    BY DEF LocalSlots
  <2>3. q.voice[v] \in Notes
    BY DEF PartOK, Voiced
  <2> QED
    BY <1>2, <2>1, <2>2, <2>3 DEF NotesOn, Tellable
<1> QED
  BY <1>1, <1>2

\* What is on depends on the containers only.
LEMMA SameOn ==
  ASSUME NEW q, NEW r, SameVoices(q, r), r.scale = q.scale
  PROVE  NotesOn(r) = NotesOn(q) /\ (Tellable(r) <=> Tellable(q))
<1>1. NotesOn(r) = NotesOn(q)
  BY DEF NotesOn, IsMono, SameVoices
<1> QED
  BY <1>1 DEF Tellable, SameVoices, AllVoices

LEMMA NothingOn ==
  ASSUME NEW q, q.mono = <<>>,
         ~IsMono(q) => \A i \in VoicesOf(q.poly) : q.poly.pool[i] = Off(0)
  PROVE  NotesOn(q) = {}
<1>1. CASE IsMono(q)
  <2>1. DOMAIN <<>> = {}
    OBVIOUS
  <2> QED
    BY <1>1, <2>1 DEF NotesOn, NotesOf
<1>2. CASE ~IsMono(q)
  BY <1>2 DEF NotesOn, On, Off
<1> QED
  BY <1>1, <1>2

\* A part where nothing is on and no voice sounds.
Quiet(q) == Silenced(q) /\ NotesOn(q) = {}

\* What an operation of the note path makes of a part q: r is in order, the settings
\* are those of q.
Moved(q, r) ==
  /\ PartOK(r) /\ Tellable(r)
  /\ SameSettings(q, r) /\ r.pmode = q.pmode
  /\ q.pmode # "CHAIN" => r.chain \in {q.chain, <<>>}

LEMMA MovedTwice ==
  ASSUME NEW q, NEW r, NEW s, Moved(q, r), Moved(r, s)
  PROVE  Moved(q, s)
BY DEF Moved, SameSettings

LEMMA NotMoved ==
  ASSUME NEW q, PartOK(q), Tellable(q)
  PROVE  Moved(q, q)
BY DEF Moved, SameSettings

\* An assignment to these fields leaves what is on alone.
LEMMA SetOtherMoved ==
  ASSUME NEW q, PartOK(q), Tellable(q)
  PROVE  /\ \A x \in KeyStacks :
              LET r == [q EXCEPT !.pressed = x]
              IN  /\ Moved(q, r) /\ SameVoices(q, r) /\ NotesOn(r) = NotesOn(q)
                  /\ r.pressed = x /\ r.ignore = q.ignore /\ r.prev = q.prev /\ r.out = q.out
                  /\ r.chain = q.chain
         /\ \A x \in BOOLEAN :
              LET r == [q EXCEPT !.ignore = x]
              IN  /\ Moved(q, r) /\ SameVoices(q, r) /\ NotesOn(r) = NotesOn(q)
                  /\ r.pressed = q.pressed /\ r.ignore = x /\ r.prev = q.prev /\ r.out = q.out
                  /\ r.chain = q.chain
         /\ \A x \in GeneratedNotes :
              LET r == [q EXCEPT !.prev = x]
              IN  /\ Moved(q, r) /\ SameVoices(q, r) /\ NotesOn(r) = NotesOn(q)
                  /\ r.pressed = q.pressed /\ r.ignore = q.ignore /\ r.prev = x /\ r.out = q.out
                  /\ r.chain = q.chain
<1>1. q \in Parts
  BY DEF PartOK, Voiced
<1>2. ASSUME NEW r \in Parts, SameVoices(q, r), r.chain = q.chain, SameSettings(q, r)
      PROVE  Moved(q, r) /\ NotesOn(r) = NotesOn(q)
  <2>1. r.scale = q.scale
    BY <1>2 DEF SameSettings
  <2>2. PartOK(r) /\ NotesOn(r) = NotesOn(q) /\ Tellable(r)
    BY <1>2, <2>1, SameVoicesOK, SameOn
  <2> QED
    BY <1>2, <2>2 DEF Moved, SameVoices
<1>3. ASSUME NEW x \in KeyStacks
      PROVE  LET r == [q EXCEPT !.pressed = x]
             IN  /\ r \in Parts /\ SameVoices(q, r) /\ r.chain = q.chain /\ SameSettings(q, r)
                 /\ r.pressed = x /\ r.ignore = q.ignore /\ r.prev = q.prev /\ r.out = q.out
  BY <1>1, <1>3 DEF Parts, SameVoices, SameSettings
<1>4. ASSUME NEW x \in BOOLEAN
      PROVE  LET r == [q EXCEPT !.ignore = x]
             IN  /\ r \in Parts /\ SameVoices(q, r) /\ r.chain = q.chain /\ SameSettings(q, r)
                 /\ r.pressed = q.pressed /\ r.ignore = x /\ r.prev = q.prev /\ r.out = q.out
  BY <1>1, <1>4 DEF Parts, SameVoices, SameSettings
<1>5. ASSUME NEW x \in GeneratedNotes
      PROVE  LET r == [q EXCEPT !.prev = x]
             IN  /\ r \in Parts /\ SameVoices(q, r) /\ r.chain = q.chain /\ SameSettings(q, r)
                 /\ r.pressed = q.pressed /\ r.ignore = q.ignore /\ r.prev = x /\ r.out = q.out
  BY <1>1, <1>5 DEF Parts, SameVoices, SameSettings
<1> QED
  BY <1>2, <1>3, <1>4, <1>5

LEMMA NoteOnMoved ==
  ASSUME NEW q, PartOK(q), Tellable(q), NEW note \in Notes
  PROVE  LET r == InternalNoteOn(q, note)
         IN  /\ Moved(q, r) /\ NotesOn(r) \subseteq NotesOn(q) \cup {note}
             /\ r.out \subseteq q.out \cup {note}
             /\ r.pressed = q.pressed /\ r.ignore = q.ignore /\ r.prev = q.prev
<1>1. CASE note \notin q.scale
  BY <1>1, NotMoved DEF InternalNoteOn
<1>2. CASE note \in q.scale
  <2> DEFINE r == InternalNoteOn(q, note)
  <2>1. SameRest(q, r) /\ r.out = q.out \cup {note} /\ (q.pmode # "CHAIN" => r.chain = q.chain)
    BY <1>2, NoteOnFields
  <2>2. PartOK(r) /\ Tellable(r) /\ NotesOn(r) \subseteq NotesOn(q) \cup {note}
    BY InternalNoteOnOK, NoteOnAdds
  <2> HIDE DEF r
  <2> QED
    BY <2>1, <2>2 DEF Moved, SameRest, r
<1> QED
  BY <1>1, <1>2

LEMMA NoteOffMoved ==
  ASSUME NEW q, PartOK(q), Tellable(q), NEW note
  PROVE  LET r == InternalNoteOff(q, note)
         IN  /\ Moved(q, r) /\ NotesOn(r) \subseteq NotesOn(q) \ {note}
             /\ r.out = q.out \ {note}
             /\ r.pressed = q.pressed /\ r.ignore = q.ignore /\ r.prev = q.prev
<1>1. CASE note = NoNote
  <2>1. NoNote \notin q.out
    <3>1. NoNote \notin Notes
      BY MaxNoteAssumption DEF NoNote, Notes
    <3>2. q.out \in SUBSET Notes
      BY DEF PartOK, Voiced, Parts
    <3> QED
      BY <3>1, <3>2
  <2>2. NotesOn(q) \subseteq NotesOn(q) \ {note}
    <3>1. InternalNoteOff(q, note) = q
      BY <1>1 DEF InternalNoteOff
    <3> QED
      BY <3>1, NoteOffRemoves
  <2> QED
    BY <1>1, <2>1, <2>2, NotMoved DEF InternalNoteOff
<1>2. CASE note # NoNote
  <2> DEFINE r == InternalNoteOff(q, note)
  <2>1. SameRest(q, r) /\ r.out = q.out \ {note} /\ (q.pmode # "CHAIN" => r.chain = q.chain)
    BY <1>2, NoteOffFields
  <2>2. PartOK(r) /\ Tellable(r) /\ NotesOn(r) \subseteq NotesOn(q) \ {note}
    BY InternalNoteOffOK, NoteOffRemoves
  <2> HIDE DEF r
  <2> QED
    BY <2>1, <2>2 DEF Moved, SameRest, r
<1> QED
  BY <1>1, <1>2

-----------------------------------------------------------------------------
\* The operations that silence the part leave nothing on.
LEMMA QuietTellable ==
  ASSUME NEW r, Quiet(r),
         r.pmode = "CYCLIC" => 0 \notin r.scale /\ MaxNote \notin r.scale
  PROVE  Tellable(r)
<1>1. Silent # MaxNote
  BY MaxNoteAssumption DEF Silent
<1> QED
  BY <1>1 DEF Quiet, Silenced, Tellable

LEMMA EmptiedQuiet ==
  ASSUME NEW r, Emptied(r)
  PROVE  Quiet(r)
<1>1. Silenced(r) /\ r.mono = <<>> /\ \A i \in VoicesOf(r.poly) : r.poly.pool[i] = Off(0)
  BY DEF Emptied
<1> QED
  BY <1>1, NothingOn DEF Quiet

LEMMA AllSoundOffFrame ==
  ASSUME NEW q \in Parts
  PROVE  LET r == AllSoundOff(q)
         IN  /\ SameSettings(q, r) /\ r.pmode = q.pmode /\ r.ignore = q.ignore
             /\ r.prev = q.prev /\ r.out = q.out /\ r.chain = q.chain /\ r.pressed = <<>>
<1> DEFINE b == IF IsMono(q) THEN q.poly ELSE AfterClear(q.poly)
           u == [q EXCEPT !.mono = <<>>, !.poly = b, !.pressed = <<>>]
<1>1. b \in Allocators
  BY AllocatorIsPool, ClearFields DEF Parts
<1>2. AllSoundOff(q) = Tell(u, AllVoices(q), Silent)
  BY DEF AllSoundOff
<1> HIDE DEF b
<1>3. /\ u \in Parts /\ SameSettings(q, u) /\ u.pmode = q.pmode /\ u.ignore = q.ignore
      /\ u.prev = q.prev /\ u.out = q.out /\ u.chain = q.chain /\ u.pressed = <<>>
  BY <1>1, EmptyStacks DEF Parts, SameSettings
<1> HIDE DEF u
<1> DEFINE r == Tell(u, AllVoices(q), Silent)
<1>4. SameRest(u, r) /\ r.out = u.out /\ r.chain = u.chain
  BY <1>3, TellFrame
<1> HIDE DEF r
<1>5. /\ SameSettings(q, r) /\ r.pmode = q.pmode /\ r.ignore = q.ignore
      /\ r.prev = q.prev /\ r.out = q.out /\ r.chain = q.chain /\ r.pressed = <<>>
  BY <1>3, <1>4 DEF SameRest, SameSettings
<1> QED
  BY <1>2, <1>5 DEF r

LEMMA AllSoundOffQuiets ==
  ASSUME NEW q, PartOK(q), Tellable(q)
  PROVE  LET r == AllSoundOff(q)
         IN  /\ Moved(q, r) /\ Quiet(r) /\ r.pressed = <<>>
             /\ r.ignore = q.ignore /\ r.prev = q.prev /\ r.out = q.out
<1> DEFINE r == AllSoundOff(q)
<1>1. /\ SameSettings(q, r) /\ r.pmode = q.pmode /\ r.ignore = q.ignore
      /\ r.prev = q.prev /\ r.out = q.out /\ r.chain = q.chain /\ r.pressed = <<>>
  BY AllSoundOffFrame DEF PartOK, Voiced
<1>2. /\ Silenced(r) /\ r.mono = <<>>
      /\ r.poly = IF IsMono(q) THEN q.poly ELSE AfterClear(q.poly)
  BY AllSoundOffSilences DEF PartOK
<1>3. PartOK(r)
  BY AllSoundOffOK
<1> HIDE DEF r
<1>4. NotesOn(r) = {}
  <2>1. ASSUME ~IsMono(r), NEW i \in VoicesOf(r.poly) PROVE r.poly.pool[i] = Off(0)
    <3>1. ~IsMono(q) /\ r.poly = AfterClear(q.poly)
      BY <1>1, <1>2, <2>1 DEF IsMono
    <3>2. IsPool(q.poly)
      BY <3>1 DEF PartOK, PolyOK, WellFormed
    <3>3. VoicesOf(r.poly) = VoicesOf(q.poly)
          /\ r.poly.pool = [v \in VoicesOf(q.poly) |-> Off(0)]
      BY <3>1, <3>2, ClearFields DEF SameKind
    <3> QED
      BY <2>1, <3>3
  <2> QED
    BY <1>2, <2>1, NothingOn
<1>5. Quiet(r) /\ Tellable(r)
  <2>1. Quiet(r)
    BY <1>2, <1>4 DEF Quiet
  <2> QED
    BY <1>1, <2>1, QuietTellable DEF Tellable, SameSettings
<1> QED
  BY <1>1, <1>3, <1>5 DEF Moved, r

LEMMA AllNotesOffQuiets ==
  ASSUME NEW q, PartOK(q), Tellable(q), ~q.ignore
  PROVE  LET r == AllNotesOff(q)
         IN  /\ Moved(q, r) /\ Quiet(r) /\ r.pressed = <<>>
             /\ r.ignore = q.ignore /\ r.prev = NoNote /\ r.chain = q.chain
             /\ r.out = IF q.dir = "CHORD" THEN q.out ELSE q.out \ {q.prev}
<1> DEFINE b == IF IsMono(q) THEN q.poly ELSE AfterClearNotes(q.poly)
           out == IF q.dir = "CHORD" THEN q.out ELSE q.out \ {q.prev}
           u == [q EXCEPT !.mono = <<>>, !.poly = b, !.pressed = <<>>,
                          !.out = out, !.prev = NoNote]
           r == AllNotesOff(q)
<1>1. q \in Parts
  BY DEF PartOK, Voiced
<1>2. r = Tell(u, AllVoices(q), Silent)
  BY DEF AllNotesOff
<1>3. b \in Allocators
  BY <1>1, AllocatorIsPool, ClearFields DEF Parts
<1>4. out \in SUBSET Notes /\ NoNote \in GeneratedNotes
  BY <1>1 DEF Parts, GeneratedNotes
<1> HIDE DEF b, out
<1>5. /\ u \in Parts /\ SameSettings(q, u) /\ u.pmode = q.pmode /\ u.ignore = q.ignore
      /\ u.prev = NoNote /\ u.out = out /\ u.chain = q.chain /\ u.pressed = <<>>
  BY <1>1, <1>3, <1>4, EmptyStacks DEF Parts, SameSettings
<1>6. PartOK(r) /\ Emptied(r)
  BY AllNotesOffOK
<1> HIDE DEF u, r
<1>7. SameRest(u, r) /\ r.out = u.out /\ r.chain = u.chain
  BY <1>2, <1>5, TellFrame
<1>8. /\ SameSettings(q, r) /\ r.pmode = q.pmode /\ r.ignore = q.ignore
      /\ r.prev = NoNote /\ r.out = out /\ r.chain = q.chain
  BY <1>5, <1>7 DEF SameRest, SameSettings
<1>9. Quiet(r) /\ r.pressed = <<>>
  BY <1>6, EmptiedQuiet DEF Emptied
<1>10. Tellable(r)
  BY <1>8, <1>9, QuietTellable DEF Tellable, SameSettings
<1> QED
  BY <1>6, <1>8, <1>9, <1>10 DEF Moved, r, out

LEMMA NextUnitMoved ==
  ASSUME NEW q, PartOK(q), Tellable(q)
  PROVE  LET r == NextUnitSilenced(q)
         IN  /\ Moved(q, r) /\ NotesOn(r) = NotesOn(q) /\ (Quiet(q) => Quiet(r))
             /\ r.pressed = q.pressed /\ r.ignore = q.ignore
             /\ r.prev = q.prev /\ r.out = q.out /\ r.chain = <<>>
<1> DEFINE r == NextUnitSilenced(q)
<1>1. q \in Parts
  BY DEF PartOK, Voiced
<1>2. /\ r \in Parts /\ SameVoices(q, r) /\ SameSettings(q, r)
      /\ r.pressed = q.pressed /\ r.ignore = q.ignore
      /\ r.prev = q.prev /\ r.out = q.out /\ r.chain = <<>>
  BY <1>1, EmptyStacks DEF NextUnitSilenced, Parts, SameVoices, SameSettings
<1> HIDE DEF r
<1>3. r.scale = q.scale
  BY <1>2 DEF SameSettings
<1>4. PartOK(r) /\ NotesOn(r) = NotesOn(q) /\ Tellable(r)
  BY <1>2, <1>3, SameVoicesOK, SameOn
<1>5. Quiet(q) => Quiet(r)
  BY <1>2, <1>4 DEF Quiet, Silenced, Voiced, SameVoices, AllVoices
<1> QED
  BY <1>2, <1>4, <1>5 DEF Moved, SameVoices, r

LEMMA StopQuiets ==
  ASSUME NEW q, PartOK(q), Tellable(q)
  PROVE  LET r == Stop(q)
         IN  /\ Moved(q, r) /\ Quiet(r) /\ r.pressed = <<>>
             /\ ~r.ignore /\ r.prev = NoNote /\ r.chain = q.chain
             /\ r.out = IF q.dir = "CHORD" THEN q.out ELSE q.out \ {q.prev}
<1> DEFINE u == [q EXCEPT !.ignore = FALSE]
           r == AllNotesOff(u)
<1>0. FALSE \in BOOLEAN
  OBVIOUS
<1>1. Moved(q, u) /\ u.ignore = FALSE /\ u.out = q.out /\ u.prev = q.prev /\ u.chain = q.chain
  BY <1>0, SetOtherMoved
<1> HIDE DEF u
<1>2. /\ Moved(u, r) /\ Quiet(r) /\ r.pressed = <<>> /\ r.ignore = u.ignore /\ r.prev = NoNote
      /\ r.chain = u.chain
      /\ r.out = IF u.dir = "CHORD" THEN u.out ELSE u.out \ {u.prev}
  BY <1>1, AllNotesOffQuiets DEF Moved
<1>3. Stop(q) = r
  BY DEF Stop, u
<1> HIDE DEF r
<1>4. u.dir = q.dir /\ Moved(q, r)
  BY <1>1, <1>2, MovedTwice DEF Moved, SameSettings
<1> QED
  BY <1>1, <1>2, <1>3, <1>4

LEMMA InitializeQuiets ==
  ASSUME NEW q, Silenced(q)
  PROVE  LET r == InitializeAllocators(q)
         IN  /\ PartOK(r) /\ Quiet(r) /\ SameRest(q, r) /\ r.out = q.out /\ r.chain = q.chain
<1> DEFINE b == IF IsMono(q) THEN NewPool(0, FALSE)
                ELSE NewPool(PolySize(q), q.pmode = "CYCLIC")
           r == InitializeAllocators(q)
<1>1. PartOK(r)
  BY InitializeOK
<1>2. q \in Parts
  BY DEF Silenced, Voiced
<1>3. b \in Allocators /\ \A v \in VoicesOf(b) : b.pool[v] = Off(0)
  BY <1>2, NewPartPool
<1>4. r = [q EXCEPT !.mono = <<>>, !.poly = b]
  BY DEF InitializeAllocators
<1> HIDE DEF b, r
<1>5. /\ SameRest(q, r) /\ r.out = q.out /\ r.chain = q.chain /\ r.mono = <<>> /\ r.poly = b
      /\ r.voice = q.voice
  BY <1>2, <1>4 DEF Parts, SameRest, SameSettings
<1>6. NotesOn(r) = {}
  BY <1>3, <1>5, NothingOn
<1>7. Silenced(r)
  BY <1>1, <1>5 DEF Silenced, PartOK, SameRest, SameSettings, AllVoices
<1> QED
  BY <1>1, <1>5, <1>6, <1>7 DEF Quiet, r

LEMMA SetPolyphonyModeQuiets ==
  ASSUME NEW q, PartOK(q), NEW m \in PolyphonyModes, m # q.pmode
  PROVE  LET r == SetPolyphonyMode(q, m)
         IN  /\ PartOK(r) /\ Quiet(r) /\ r.pressed = <<>> /\ r.pmode = m
             /\ SameSettings(q, r) /\ r.ignore = q.ignore /\ r.prev = q.prev
             /\ r.out = q.out /\ r.chain = q.chain
<1> DEFINE u == [q EXCEPT !.pmode = m]
           w == AllSoundOff(u)
           r == InitializeAllocators(w)
<1>1. q \in Parts /\ Voiced(q)
  BY DEF PartOK, Voiced
<1>2. /\ u \in Parts /\ u.num = q.num /\ u.voice = q.voice /\ u.pmode = m
      /\ SameSettings(q, u) /\ u.ignore = q.ignore /\ u.prev = q.prev /\ u.out = q.out
      /\ u.chain = q.chain
  BY <1>1 DEF Parts, SameSettings
<1>3. SetPolyphonyMode(q, m) = r
  BY DEF SetPolyphonyMode
<1> HIDE DEF u
<1>4. Voiced(u)
  BY <1>1, <1>2 DEF Voiced, AllVoices
<1>5. /\ Silenced(w) /\ SameSettings(u, w) /\ w.pmode = u.pmode /\ w.ignore = u.ignore
      /\ w.prev = u.prev /\ w.out = u.out /\ w.chain = u.chain /\ w.pressed = <<>>
  BY <1>2, <1>4, AllSoundOffSilences, AllSoundOffFrame
<1> HIDE DEF w
<1>6. PartOK(r) /\ Quiet(r) /\ SameRest(w, r) /\ r.out = w.out /\ r.chain = w.chain
  BY <1>5, InitializeQuiets
<1> HIDE DEF r
<1>7. /\ SameSettings(q, r) /\ r.pmode = m /\ r.pressed = <<>> /\ r.ignore = q.ignore
      /\ r.prev = q.prev /\ r.out = q.out /\ r.chain = q.chain
  BY <1>2, <1>5, <1>6 DEF SameRest, SameSettings
<1> QED
  BY <1>3, <1>6, <1>7

-----------------------------------------------------------------------------
\* The keys: what pressing and releasing them does to pressed_keys_.
LEMMA PressedNotes ==
  ASSUME NEW s \in KeyStacks
  PROVE  /\ NotesOf(s) \in SUBSET Notes
         /\ s = <<>> <=> NotesOf(s) = {}
<1> DEFINE E == [note : Notes, flagged : BOOLEAN]
<1>1. s \in Stacks(E) /\ \A e \in E : e.note \in Notes
  BY DEF KeyStacks
<1> HIDE DEF E
<1>2. DOMAIN s = 1..Len(s) /\ Len(s) \in Nat /\ s \in Seq(E)
      /\ \A i \in 1..Len(s) : s[i] \in E
  BY <1>1, StackElements
<1>3. NotesOf(s) \in SUBSET Notes
  BY <1>1, <1>2 DEF NotesOf
<1>4. s = <<>> <=> DOMAIN s = {}
  <2> DEFINE L == Len(s)
  <2>1. L \in Nat /\ DOMAIN s = 1..L /\ (s = <<>> <=> L = 0)
    <3>1. s \in Seq(E) /\ DOMAIN s = 1..Len(s)
      BY <1>2
    <3> QED
      BY <3>1
  <2> HIDE DEF L
  <2> QED
    BY <2>1
<1> QED
  BY <1>3, <1>4 DEF NotesOf

LEMMA WithoutKey ==
  ASSUME NEW s \in KeyStacks, NEW note
  PROVE  /\ Without(s, note) \in KeyStacks
         /\ NotesOf(Without(s, note)) = NotesOf(s) \ {note}
         /\ \A i \in DOMAIN Without(s, note) : \E j \in DOMAIN s : Without(s, note)[i] = s[j]
<1> DEFINE E == [note : Notes, flagged : BOOLEAN]
<1>1. s \in Stacks(E) /\ KeyStacks = Stacks(E)
  BY DEF KeyStacks
<1> HIDE DEF E
<1>2. Without(s, note) \in Stacks(E) /\ NotesOf(Without(s, note)) = NotesOf(s) \ {note}
  BY <1>1, WithoutNotes
<1>3. s \in Seq(E) /\ DOMAIN s = 1..Len(s) /\ Len(s) \in Nat
  BY <1>1, StackElements
<1>4. ASSUME NEW k \in 1..Len(s), Without(s, note) = RemoveAt(s, k)
      PROVE  \A i \in DOMAIN Without(s, note) : \E j \in DOMAIN s : Without(s, note)[i] = s[j]
  <2> DEFINE r == RemoveAt(s, k)
             L == Len(s)
  <2>0. s \in Seq(E) /\ k \in 1..Len(s)
    BY <1>3
  <2>1. r \in Seq(E) /\ Len(r) = L - 1
    BY <2>0, RemoveAtElements
  <2>2. \A i \in 1..(L - 1) : r[i] = IF i < k THEN s[i] ELSE s[i + 1]
    BY <2>0, RemoveAtElements
  <2>3. L \in Nat
    BY <1>3
  <2> HIDE DEF r, L
  <2>4. DOMAIN r = 1..(L - 1)
    BY <2>1, <2>3
  <2>5. \A i \in 1..(L - 1) : i \in 1..L /\ i + 1 \in 1..L
    BY <2>3
  <2>6. \A i \in DOMAIN r : \E j \in 1..L : r[i] = s[j]
    BY <2>2, <2>4, <2>5
  <2> QED
    BY <1>3, <1>4, <2>6 DEF r, L
<1>5. \A i \in DOMAIN Without(s, note) : \E j \in DOMAIN s : Without(s, note)[i] = s[j]
  BY <1>3, <1>4, WithoutCases
<1> QED
  BY <1>1, <1>2, <1>5

\* A stack has as many entries as notes.
LEMMA StackIsAsLong ==
  ASSUME NEW S, NEW s \in Stacks(S)
  PROVE  IsFiniteSet(NotesOf(s)) /\ Cardinality(NotesOf(s)) = Len(s)
<1> DEFINE L == Len(s)
           f == [i \in 1..L |-> s[i].note]
<1>1. L \in Nat /\ DOMAIN s = 1..L /\ Distinct(s)
  BY StackElements
<1> HIDE DEF L
<1>2. IsFiniteSet(1..L) /\ Cardinality(1..L) = L
  <2>1. IsFiniteSet(1..L) /\ Cardinality(1..L) = IF 1 > L THEN 0 ELSE L - 1 + 1
    BY <1>1, FS_Interval
  <2> QED
    BY <1>1, <2>1
<1>3. f \in [1..L -> NotesOf(s)]
  BY <1>1 DEF NotesOf
<1>4. f \in Bijection(1..L, NotesOf(s))
  <2>1. \A i, j \in 1..L : f[i] = f[j] => i = j
    BY <1>1 DEF Distinct
  <2>2. \A n \in NotesOf(s) : \E i \in 1..L : f[i] = n
    BY <1>1 DEF NotesOf
  <2> HIDE DEF f
  <2> QED
    BY <1>3, <2>1, <2>2 DEF Bijection, Injection, Surjection, IsInjective
<1>5. ExistsBijection(1..L, NotesOf(s))
  BY <1>4 DEF ExistsBijection
<1> QED
  BY <1>2, <1>5, FS_Bijection DEF L

\* A key pressed when there is room for those of the player is remembered with the
\* others.
LEMMA PlayedFits ==
  ASSUME NEW s \in KeyStacks, NEW note \in Notes, NEW K \in SUBSET Notes,
         NotesOf(s) \cup {note} \subseteq K, Cardinality(K) <= KeyCapacity
  PROVE  LET r == Played(s, [note |-> note, flagged |-> FALSE], KeyCapacity)
         IN  NotesOf(r) = NotesOf(s) \cup {note}
<1> DEFINE E == [note : Notes, flagged : BOOLEAN]
           e == [note |-> note, flagged |-> FALSE]
           t == Pushed(s, e)
           w == Without(s, note)
<1>1. s \in Stacks(E) /\ e \in E /\ e.note = note
  BY DEF KeyStacks
<1>3. t = <<e>> \o w
  BY DEF Pushed
<1> HIDE DEF E, e, t, w
<1>4. t \in Stacks(E) /\ NotesOf(t) = NotesOf(s) \cup {note} /\ t \in Seq(E)
  <2>1. t \in Stacks(E) /\ NotesOf(t) = NotesOf(s) \cup {note}
    BY <1>1, PushedStack DEF t
  <2> QED
    BY <2>1, StackElements
<1>5. Len(t) <= KeyCapacity
  <2>1. Cardinality(NotesOf(t)) = Len(t) /\ Len(t) \in Nat
    BY <1>4, StackIsAsLong, StackElements
  <2>2. IsFiniteSet(K) /\ Cardinality(K) \in Nat
    BY NotesAreFinite
  <2>3. Cardinality(NotesOf(t)) <= Cardinality(K)
    BY <1>4, <2>2, FS_Subset
  <2> QED
    BY <2>1, <2>2, <2>3, PartOpsAssumption
<1>6. Played(s, e, KeyCapacity) = t
  <2>1. ~ (Len(t) > KeyCapacity)
    BY <1>4, <1>5, PartOpsAssumption
  <2>2. Played(s, e, KeyCapacity) = IF Len(t) > KeyCapacity THEN SubSeq(t, 1, KeyCapacity) ELSE t
    BY <1>1, <1>3 DEF Played, w
  <2> QED
    BY <2>1, <2>2
<1> QED
  BY <1>4, <1>6 DEF e

-----------------------------------------------------------------------------
\* The order of a stack: the notes played after a note.
Above(s, n) ==
  {m \in NotesOf(s) : \E i, j \in DOMAIN s : i < j /\ s[i].note = m /\ s[j].note = n}

\* The stack as it is when an entry is played, before the oldest goes.
LEMMA PushedElements ==
  ASSUME NEW S, NEW s \in Stacks(S), NEW e \in S
  PROVE  LET w == Without(s, e.note)
             t == Pushed(s, e)
         IN  /\ Len(w) \in Nat /\ DOMAIN w = 1..Len(w)
             /\ Len(t) = Len(w) + 1 /\ DOMAIN t = 1..(Len(w) + 1)
             /\ t[1] = e /\ \A k \in 2..(Len(w) + 1) : t[k] = w[k - 1]
<1> DEFINE w == Without(s, e.note)
           t == <<e>> \o w
<1>1. w \in Seq(S) /\ Len(w) \in Nat /\ DOMAIN w = 1..Len(w)
  BY WithoutNotes DEF Stacks
<1> HIDE DEF w
<1>2. /\ t \in Seq(S) /\ Len(t) = Len(w) + 1 /\ t[1] = e /\ DOMAIN t = 1..(Len(w) + 1)
      /\ \A k \in 2..(Len(w) + 1) : t[k] = w[k - 1]
  BY <1>1
<1> QED
  BY <1>1, <1>2 DEF w, Pushed

\* Playing keeps the first entries of the stack.
LEMMA PlayedFront ==
  ASSUME NEW S, NEW s \in Stacks(S), NEW e \in S, NEW capacity \in Nat \ {0}
  PROVE  LET t == Pushed(s, e)
             r == Played(s, e, capacity)
         IN  /\ r \in Seq(S) /\ Len(t) \in Nat
             /\ Len(r) = IF Len(t) > capacity THEN capacity ELSE Len(t)
             /\ DOMAIN r = 1..Len(r) /\ DOMAIN t = 1..Len(t)
             /\ \A k \in DOMAIN r : k \in DOMAIN t /\ r[k] = t[k]
<1> DEFINE t == Pushed(s, e)
           r == Played(s, e, capacity)
<1>1. t \in Seq(S) /\ Len(t) \in Nat /\ DOMAIN t = 1..Len(t)
  BY PushedStack DEF Stacks
<1>2. r = IF Len(t) > capacity THEN SubSeq(t, 1, capacity) ELSE t
  BY DEF Played, Pushed
<1> HIDE DEF t, r
<1>3. CASE Len(t) > capacity
  <2> DEFINE u == SubSeq(t, 1, capacity)
  <2>1. u \in Seq(S) /\ Len(u) = capacity /\ \A k \in 1..capacity : u[k] = t[k]
    BY <1>1, <1>3
  <2>2. r = u
    BY <1>2, <1>3
  <2> HIDE DEF u
  <2>3. DOMAIN r = 1..capacity
    BY <2>1, <2>2
  <2> QED
    BY <1>1, <1>3, <2>1, <2>2, <2>3 DEF t, r
<1>4. CASE ~ (Len(t) > capacity)
  <2>1. r = t
    BY <1>2, <1>4
  <2> QED
    BY <1>1, <1>4, <2>1 DEF t, r
<1> QED
  BY <1>3, <1>4

\* Taking a note out keeps the order of the others.
LEMMA WithoutOrder ==
  ASSUME NEW S, NEW s \in Stacks(S), NEW note, NEW n, n # note
  PROVE  Above(Without(s, note), n) \subseteq Above(s, n) \ {note}
<1>1. s \in Seq(S) /\ Len(s) \in Nat /\ DOMAIN s = 1..Len(s) /\ Distinct(s)
  BY StackElements
<1>2. CASE Without(s, note) = s /\ \A i \in 1..Len(s) : s[i].note # note
  BY <1>1, <1>2 DEF Above
<1>3. ASSUME NEW i \in 1..Len(s), s[i].note = note, Without(s, note) = RemoveAt(s, i)
      PROVE  Above(Without(s, note), n) \subseteq Above(s, n) \ {note}
  <2> DEFINE r == RemoveAt(s, i)
             L == Len(s)
             f(x) == IF x < i THEN x ELSE x + 1
  <2>0. s \in Seq(S) /\ i \in 1..Len(s)
    BY <1>1
  <2>1. r \in Seq(S) /\ Len(r) = L - 1 /\ L \in Nat /\ i \in 1..L
    <3>1. r \in Seq(S) /\ Len(r) = L - 1
      BY <2>0, RemoveAtElements
    <3> QED
      BY <1>1, <2>0, <3>1
  <2>2. \A k \in 1..(L - 1) : r[k] = IF k < i THEN s[k] ELSE s[k + 1]
    BY <2>0, RemoveAtElements
  <2>3. DOMAIN r = 1..(L - 1) /\ DOMAIN s = 1..L
    BY <1>1, <2>1
  <2> HIDE DEF r, L
  <2>4. \A k \in 1..(L - 1) : r[k] = s[f(k)] /\ f(k) \in 1..L /\ f(k) # i
    BY <2>1, <2>2
  <2>5. \A a, b \in 1..(L - 1) : a < b => f(a) < f(b)
    BY <2>1
  <2> HIDE DEF f
  <2>6. \A j \in 1..L : s[j].note = note => j = i
    BY <1>1, <1>3 DEF L, Distinct
  <2>7. ASSUME NEW a \in 1..(L - 1), NEW b \in 1..(L - 1), a < b, r[b].note = n
        PROVE  r[a].note \in Above(s, n) \ {note}
    <3>1. /\ f(a) \in 1..L /\ f(b) \in 1..L /\ f(a) < f(b) /\ f(a) # i
          /\ s[f(a)].note = r[a].note /\ s[f(b)].note = n
      BY <2>4, <2>5, <2>7
    <3>2. s[f(a)].note # note /\ s[f(a)].note \in NotesOf(s)
      BY <2>3, <2>6, <3>1 DEF NotesOf
    <3> QED
      BY <2>3, <3>1, <3>2 DEF Above
  <2> QED
    BY <1>3, <2>3, <2>7 DEF Above, r
<1> QED
  BY <1>1, <1>2, <1>3, WithoutCases

\* What is played goes above the others, and nothing above it.
LEMMA PlayedOrder ==
  ASSUME NEW S, NEW s \in Stacks(S), NEW e \in S, NEW capacity \in Nat \ {0}
  PROVE  LET r == Played(s, e, capacity)
         IN  /\ Above(r, e.note) = {}
             /\ \A n : n # e.note => Above(r, n) \subseteq Above(s, n) \cup {e.note}
<1> DEFINE w == Without(s, e.note)
           t == Pushed(s, e)
           r == Played(s, e, capacity)
           L == Len(w)
<1>1. /\ L \in Nat /\ DOMAIN w = 1..L /\ DOMAIN t = 1..(L + 1)
      /\ t[1] = e /\ \A k \in 2..(L + 1) : t[k] = w[k - 1]
  BY PushedElements
<1>2. \A k \in DOMAIN r : k \in DOMAIN t /\ r[k] = t[k]
  BY PlayedFront
<1>3. Distinct(t)
  BY PushedStack DEF Stacks
<1>4. \A n : n # e.note => Above(w, n) \subseteq Above(s, n) \ {e.note}
  BY WithoutOrder
<1> HIDE DEF w, t, r, L
<1>5. ASSUME NEW i \in DOMAIN r, NEW j \in DOMAIN r, i < j
      PROVE  /\ r[j].note # e.note
             /\ r[i].note = e.note \/ r[i].note \in Above(w, r[j].note)
  <2>1. i \in 1..(L + 1) /\ j \in 2..(L + 1) /\ r[i] = t[i] /\ r[j] = t[j] /\ j # 1
        /\ 1 \in DOMAIN t
    BY <1>1, <1>2, <1>5
  <2>2. r[j].note # e.note
    BY <1>1, <1>3, <2>1 DEF Distinct
  <2>3. CASE i = 1
    BY <1>1, <2>1, <2>2, <2>3
  <2>4. CASE i # 1
    <3>1. /\ i - 1 \in 1..L /\ j - 1 \in 1..L /\ i - 1 < j - 1
          /\ r[i] = w[i - 1] /\ r[j] = w[j - 1]
      BY <1>1, <1>5, <2>1, <2>4
    <3> QED
      BY <1>1, <2>2, <3>1 DEF Above, NotesOf
  <2> QED
    BY <2>3, <2>4
<1>6. Above(r, e.note) = {}
  BY <1>5 DEF Above
<1>7. ASSUME NEW n, n # e.note, NEW m \in Above(r, n) PROVE m \in Above(s, n) \cup {e.note}
  <2>1. PICK i, j \in DOMAIN r : i < j /\ r[i].note = m /\ r[j].note = n
    BY <1>7 DEF Above
  <2> QED
    BY <1>4, <1>5, <1>7, <2>1
<1> QED
  BY <1>6, <1>7 DEF r

\* A note goes when as many others as there is room for have been played after it.
LEMMA PlayedDrops ==
  ASSUME NEW S, NEW s \in Stacks(S), NEW e \in S, NEW capacity \in Nat \ {0},
         NEW n \in NotesOf(s), n # e.note, n \notin NotesOf(Played(s, e, capacity))
  PROVE  /\ IsFiniteSet(Above(s, n) \ {e.note})
         /\ Cardinality(Above(s, n) \ {e.note}) >= capacity - 1
<1> DEFINE w == Without(s, e.note)
           t == Pushed(s, e)
           r == Played(s, e, capacity)
           L == Len(w)
           A == Above(s, n) \ {e.note}
           c == capacity - 1
           f == [k \in 1..c |-> w[k].note]
<1>1. /\ L \in Nat /\ DOMAIN w = 1..L /\ DOMAIN t = 1..(L + 1) /\ Len(t) = L + 1
      /\ t[1] = e /\ \A k \in 2..(L + 1) : t[k] = w[k - 1]
  BY PushedElements
<1>2. /\ Len(r) = IF Len(t) > capacity THEN capacity ELSE Len(t)
      /\ DOMAIN r = 1..Len(r)
      /\ \A k \in DOMAIN r : k \in DOMAIN t /\ r[k] = t[k]
  BY PlayedFront
<1>3. Distinct(w) /\ NotesOf(w) = NotesOf(s) \ {e.note}
  BY WithoutNotes DEF Stacks
<1>4. Above(w, n) \subseteq A
  BY WithoutOrder
<1>5. n \notin NotesOf(r)
  OBVIOUS
<1> HIDE DEF w, t, r, L, A
<1>6. PICK x \in 1..L : w[x].note = n
  <2>1. n \in NotesOf(w)
    BY <1>3
  <2> QED
    BY <1>1, <2>1 DEF NotesOf
<1>7. x > c
  <2> SUFFICES ASSUME x <= c PROVE FALSE
    BY <1>6
  <2>1. x + 1 \in 2..(L + 1) /\ x + 1 \in 1..Len(r) /\ (x + 1) - 1 = x
    BY <1>1, <1>2, <1>6
  <2>2. r[x + 1] = w[x]
    BY <1>1, <1>2, <2>1
  <2> QED
    BY <1>2, <1>5, <1>6, <2>1, <2>2 DEF NotesOf
<1>8. f \in [1..c -> A]
  <2>1. ASSUME NEW k \in 1..c PROVE w[k].note \in A
    <3>1. k \in 1..L /\ k < x
      BY <1>1, <1>6, <1>7
    <3> QED
      BY <1>1, <1>4, <1>6, <3>1 DEF Above, NotesOf
  <2> QED
    BY <2>1
<1>9. \A i, j \in 1..c : f[i] = f[j] => i = j
  <2>1. \A i \in 1..c : i \in DOMAIN w
    BY <1>1, <1>6, <1>7
  <2> QED
    BY <1>3, <2>1 DEF Distinct
<1> HIDE DEF f
<1>10. f \in Injection(1..c, A)
  BY <1>8, <1>9 DEF Injection, IsInjective
<1>11. IsFiniteSet(A)
  <2>1. A \subseteq NotesOf(s)
    BY DEF A, Above
  <2>2. IsFiniteSet(NotesOf(s))
    BY StackIsAsLong
  <2> QED
    BY <2>1, <2>2, FS_Subset
<1>12. Cardinality(1..c) <= Cardinality(A) /\ Cardinality(A) \in Nat
  BY <1>10, <1>11, FS_Injection, FS_CardinalityType
<1>13. Cardinality(1..c) = c
  <2>1. Cardinality(1..c) = IF 1 > c THEN 0 ELSE c - 1 + 1
    BY FS_Interval
  <2> QED
    BY <2>1
<1> QED
  BY <1>11, <1>12, <1>13 DEF A

\* What is remembered after a key is pressed was, or is the key.
LEMMA PlayedElements ==
  ASSUME NEW s \in KeyStacks, NEW note \in Notes
  PROVE  LET e == [note |-> note, flagged |-> FALSE]
             r == Played(s, e, KeyCapacity)
         IN  /\ \A i \in DOMAIN r : r[i] = e \/ \E j \in DOMAIN s : r[i] = s[j]
             /\ NotesOf(r) \subseteq NotesOf(s) \cup {note}
<1> DEFINE E == [note : Notes, flagged : BOOLEAN]
           e == [note |-> note, flagged |-> FALSE]
           w == Without(s, e.note)
           t == Pushed(s, e)
           r == Played(s, e, KeyCapacity)
           L == Len(w)
<1>0. s \in Stacks(E) /\ e \in E /\ e.note = note /\ KeyCapacity \in Nat \ {0}
  BY PartOpsAssumption DEF KeyStacks
<1> HIDE DEF E, e
<1>1. /\ L \in Nat /\ DOMAIN w = 1..L /\ DOMAIN t = 1..(L + 1)
      /\ t[1] = e /\ \A k \in 2..(L + 1) : t[k] = w[k - 1]
  BY <1>0, PushedElements
<1>2. \A k \in DOMAIN r : k \in DOMAIN t /\ r[k] = t[k]
  BY <1>0, PlayedFront
<1>3. \A i \in DOMAIN w : \E j \in DOMAIN s : w[i] = s[j]
  BY <1>0, WithoutKey
<1> HIDE DEF w, t, r, L
<1>4. ASSUME NEW i \in DOMAIN r PROVE r[i] = e \/ \E j \in DOMAIN s : r[i] = s[j]
  <2>1. i \in 1..(L + 1) /\ r[i] = t[i]
    BY <1>1, <1>2
  <2>2. CASE i = 1
    BY <1>1, <2>1, <2>2
  <2>3. CASE i # 1
    <3>1. i \in 2..(L + 1) /\ i - 1 \in DOMAIN w
      BY <1>1, <2>1, <2>3
    <3> QED
      BY <1>1, <1>3, <2>1, <3>1
  <2> QED
    BY <2>2, <2>3
<1>5. NotesOf(r) \subseteq NotesOf(s) \cup {note}
  BY <1>0, <1>4 DEF NotesOf
<1> QED
  BY <1>4, <1>5 DEF r, e

-----------------------------------------------------------------------------
\* The notes of a stack are the most recent ones of another.
Prefix(m, s) == Len(m) <= Len(s) /\ \A i \in 1..Len(m) : m[i].note = s[i].note

LEMMA PrefixNotes ==
  ASSUME NEW S, NEW m \in Stacks(S), NEW T, NEW s \in Stacks(T), Prefix(m, s)
  PROVE  NotesOf(m) \subseteq NotesOf(s)
<1>1. /\ DOMAIN m = 1..Len(m) /\ DOMAIN s = 1..Len(s) /\ Len(m) \in Nat /\ Len(s) \in Nat
  BY StackElements
<1>2. \A i \in 1..Len(m) : i \in 1..Len(s) /\ m[i].note = s[i].note
  BY <1>1 DEF Prefix
<1> QED
  BY <1>1, <1>2 DEF NotesOf

LEMMA WithoutElements ==
  ASSUME NEW S, NEW s \in Seq(S), NEW note
  PROVE  \/ Without(s, note) = s /\ \A i \in 1..Len(s) : s[i].note # note
         \/ \E i \in 1..Len(s) :
              /\ s[i].note = note /\ Len(Without(s, note)) = Len(s) - 1
              /\ \A k \in 1..(Len(s) - 1) :
                   Without(s, note)[k] = IF k < i THEN s[k] ELSE s[k + 1]
<1>1. ASSUME NEW i \in 1..Len(s), s[i].note = note, Without(s, note) = RemoveAt(s, i)
      PROVE  /\ Len(Without(s, note)) = Len(s) - 1
             /\ \A k \in 1..(Len(s) - 1) :
                  Without(s, note)[k] = IF k < i THEN s[k] ELSE s[k + 1]
  <2> DEFINE r == RemoveAt(s, i)
  <2>1. Len(r) = Len(s) - 1
    BY <1>1, RemoveAtElements
  <2>2. \A k \in 1..(Len(s) - 1) : r[k] = IF k < i THEN s[k] ELSE s[k + 1]
    BY <1>1, RemoveAtElements
  <2> HIDE DEF r
  <2>3. Without(s, note) = r
    BY <1>1 DEF r
  <2> QED
    BY <2>1, <2>2, <2>3
<1> QED
  BY <1>1, WithoutCases

LEMMA PrefixWithout ==
  ASSUME NEW S, NEW m \in Stacks(S), NEW T, NEW s \in Stacks(T), Prefix(m, s), NEW note
  PROVE  Prefix(Without(m, note), Without(s, note))
<1> DEFINE M == Len(m)
           L == Len(s)
           u == Without(m, note)
           v == Without(s, note)
<1> SUFFICES Prefix(u, v)
  OBVIOUS
<1>0. m \in Seq(S) /\ s \in Seq(T)
  BY StackElements
<1>1. /\ m \in Seq(S) /\ s \in Seq(T) /\ M \in Nat /\ L \in Nat
      /\ DOMAIN m = 1..M /\ DOMAIN s = 1..L /\ Distinct(m) /\ Distinct(s)
  BY StackElements
<1>2. M <= L /\ \A i \in 1..M : m[i].note = s[i].note
  BY DEF Prefix
<1>3. \/ u = m /\ \A i \in 1..M : m[i].note # note
      \/ \E i \in 1..M : /\ m[i].note = note /\ Len(u) = M - 1
                         /\ \A k \in 1..(M - 1) : u[k] = IF k < i THEN m[k] ELSE m[k + 1]
  BY <1>0, WithoutElements
<1>4. \/ v = s /\ \A i \in 1..L : s[i].note # note
      \/ \E i \in 1..L : /\ s[i].note = note /\ Len(v) = L - 1
                         /\ \A k \in 1..(L - 1) : v[k] = IF k < i THEN s[k] ELSE s[k + 1]
  BY <1>0, WithoutElements
<1> HIDE DEF u, v
<1>5. CASE u = m /\ \A i \in 1..M : m[i].note # note
  <2>1. CASE v = s
    BY <1>2, <1>5, <2>1 DEF Prefix
  <2>2. ASSUME NEW i \in 1..L, s[i].note = note, Len(v) = L - 1,
               \A k \in 1..(L - 1) : v[k] = IF k < i THEN s[k] ELSE s[k + 1]
        PROVE  Prefix(u, v)
    <3>1. i > M
      BY <1>1, <1>2, <1>5, <2>2
    <3>2. M <= L - 1 /\ \A k \in 1..M : k \in 1..(L - 1) /\ k < i
      BY <1>1, <3>1
    <3> HIDE DEF L
    <3>3. \A k \in 1..M : v[k] = s[k]
      BY <2>2, <3>2
    <3> QED
      BY <1>2, <1>5, <2>2, <3>2, <3>3 DEF Prefix
  <2> QED
    BY <1>4, <2>1, <2>2
<1>6. ASSUME NEW i \in 1..M, m[i].note = note, Len(u) = M - 1,
             \A k \in 1..(M - 1) : u[k] = IF k < i THEN m[k] ELSE m[k + 1]
      PROVE  Prefix(u, v)
  <2>1. i \in 1..L /\ s[i].note = note
    BY <1>1, <1>2, <1>6
  <2>2. Len(v) = L - 1 /\ \A k \in 1..(L - 1) : v[k] = IF k < i THEN s[k] ELSE s[k + 1]
    <3>1. \A j \in 1..L : s[j].note = note => j = i
      BY <1>1, <2>1 DEF Distinct
    <3> QED
      BY <1>4, <2>1, <3>1
  <2>3. \A k \in 1..(M - 1) : k \in 1..(L - 1) /\ k \in 1..M /\ k + 1 \in 1..M
    BY <1>1, <1>2
  <2>4. M - 1 <= L - 1
    BY <1>1, <1>2
  <2> HIDE DEF M, L
  <2>5. \A k \in 1..(M - 1) : u[k].note = v[k].note
    BY <1>2, <1>6, <2>2, <2>3
  <2> QED
    BY <1>6, <2>2, <2>4, <2>5 DEF Prefix
<1> QED
  BY <1>3, <1>5, <1>6

LEMMA PrefixPlayed ==
  ASSUME NEW S, NEW m \in Stacks(S), NEW T, NEW s \in Stacks(T), Prefix(m, s),
         NEW d \in S, NEW e \in T, d.note = e.note,
         NEW few \in Nat \ {0}, NEW many \in Nat \ {0}, few <= many
  PROVE  Prefix(Played(m, d, few), Played(s, e, many))
<1> DEFINE wm == Without(m, d.note)
           ws == Without(s, e.note)
           tm == Pushed(m, d)
           ts == Pushed(s, e)
           rm == Played(m, d, few)
           rs == Played(s, e, many)
           M  == Len(wm)
           L  == Len(ws)
<1>1. /\ M \in Nat /\ Len(tm) = M + 1 /\ tm[1] = d
      /\ \A k \in 2..(M + 1) : tm[k] = wm[k - 1]
  BY PushedElements
<1>2. /\ L \in Nat /\ Len(ts) = L + 1 /\ ts[1] = e
      /\ \A k \in 2..(L + 1) : ts[k] = ws[k - 1]
  BY PushedElements
<1>3. M <= L /\ \A k \in 1..M : wm[k].note = ws[k].note
  BY PrefixWithout DEF Prefix
<1>4. /\ Len(rm) = IF Len(tm) > few THEN few ELSE Len(tm)
      /\ \A k \in 1..Len(rm) : rm[k] = tm[k]
  BY PlayedFront
<1>5. /\ Len(rs) = IF Len(ts) > many THEN many ELSE Len(ts)
      /\ \A k \in 1..Len(rs) : rs[k] = ts[k]
  BY PlayedFront
<1> HIDE DEF wm, ws, tm, ts, rm, rs, M, L
<1>6. Len(rm) <= Len(rs) /\ Len(rm) <= M + 1 /\ Len(rs) <= L + 1
      /\ Len(rm) \in Nat /\ Len(rs) \in Nat
  BY <1>1, <1>2, <1>3, <1>4, <1>5
<1>7. ASSUME NEW k \in 1..Len(rm) PROVE rm[k].note = rs[k].note
  <2>1. k \in 1..Len(rs) /\ rm[k] = tm[k] /\ rs[k] = ts[k]
    BY <1>4, <1>5, <1>6
  <2>2. CASE k = 1
    BY <1>1, <1>2, <2>1, <2>2
  <2>3. CASE k # 1
    <3>1. k \in 2..(M + 1) /\ k \in 2..(L + 1) /\ k - 1 \in 1..M
      BY <1>1, <1>2, <1>3, <1>6, <2>3
    <3> QED
      BY <1>1, <1>2, <1>3, <2>1, <3>1
  <2> QED
    BY <2>2, <2>3
<1> QED
  BY <1>6, <1>7 DEF Prefix, rm, rs

-----------------------------------------------------------------------------
\* The notes on voices that are given before the voice of a note.
GivenSooner(q, n) ==
  {m \in NotesOn(q) : \E v, w \in VoicesOf(q.poly) :
     q.poly.pool[v] = On(n) /\ q.poly.pool[w] = On(m) /\ w \in Sooner(q.poly, v)}

\* A note-on puts its note last in that order; the note it steals was before all the
\* others.
LEMMA NoteOnGiven ==
  ASSUME NEW q, PartOK(q), ~IsMono(q), NEW k \in Notes, q.pmode = "CYCLIC" => k # MaxNote,
         NEW r, r.pmode = q.pmode,
         r.poly = IF FindActive(q.poly, k) # NoVoice THEN q.poly ELSE AfterNoteOn(q.poly, k)
  PROVE  /\ r.poly.size = q.poly.size /\ k \in NotesOn(r)
         /\ \A n \in NotesOn(r) \ {k} :
              /\ n \in NotesOn(q)
              /\ GivenSooner(r, n) \subseteq GivenSooner(q, n)
              /\ NotesOn(q) \ NotesOn(r) \subseteq GivenSooner(q, n)
<1> DEFINE a == q.poly
           b == r.poly
           V == VoicesOf(a)
           c == ChosenVoice(a, k)
           Heard(n) == n \in Notes /\ (q.pmode = "CYCLIC" => n # MaxNote)
<1>1. WellFormed(a) /\ IsPool(a) /\ a.size # 0 /\ a.size = PolySize(q)
  <2>1. WellFormed(a) /\ a.size = PolySize(q) /\ q.num \in 1..6
    BY DEF PartOK, PolyOK, Voiced, Parts
  <2>2. PolySize(q) # 0
    BY <2>1 DEF PolySize
  <2> QED
    BY <2>1, <2>2 DEF WellFormed
<1>2. /\ ~IsMono(r)
      /\ \A n : n \in NotesOn(q) <=> Heard(n) /\ \E i \in V : a.pool[i] = On(n)
      /\ \A n : n \in NotesOn(r) <=> Heard(n) /\ \E i \in VoicesOf(b) : b.pool[i] = On(n)
  BY DEF NotesOn, IsMono
<1>3. Heard(k)
  OBVIOUS
<1>4. CASE FindActive(a, k) # NoVoice
  <2>1. b = a
    BY <1>4
  <2>2. NotesOn(r) = NotesOn(q)
    BY <1>2, <2>1
  <2>3. k \in NotesOn(r)
    BY <1>1, <1>2, <1>3, <1>4, <2>1, FindActiveIsFirst
  <2> QED
    BY <2>1, <2>2, <2>3 DEF GivenSooner
<1>5. CASE FindActive(a, k) = NoVoice
  <2>1. b = AfterNoteOn(a, k)
    BY <1>5
  <2>2. /\ c \in V /\ VoicesOf(b) = V /\ b.size = a.size
        /\ b.pool = [a.pool EXCEPT ![c] = On(k)]
    <3>1. SameKind(a, AfterNoteOn(a, k))
      BY <1>1, NoteOnWellFormed, ZenonT(60)
    <3>2. c \in V /\ AfterNoteOn(a, k).pool = [a.pool EXCEPT ![c] = On(k)]
      BY <1>1, NoteOnWellFormed, ZenonT(60)
    <3> QED
      BY <2>1, <3>1, <3>2 DEF SameKind
  <2>3. \A v \in V : v # c => Sooner(b, v) \subseteq Sooner(a, v) \ {c}
    BY <1>1, <2>1, NoteOnSooner
  <2>4. a.pool[c].active => \A v \in V : v # c => c \in Sooner(a, v)
    BY <1>1, <1>5, ChosenIsSooner
  <2> HIDE DEF a, b, V, c, Heard
  <2>5. \A i \in V : b.pool[i] = IF i = c THEN On(k) ELSE a.pool[i]
    BY <1>1, <2>2, PoolFields DEF V
  <2>6. \A n : On(n) = On(k) => n = k
    BY DEF On
  <2>7. k \in NotesOn(r)
    BY <1>2, <1>3, <2>2, <2>5
  <2>8. ASSUME NEW n, n # k, NEW v \in V, b.pool[v] = On(n)
        PROVE  v # c /\ a.pool[v] = On(n)
    BY <2>5, <2>6, <2>8
  <2>9. ASSUME NEW n \in NotesOn(r) \ {k}
        PROVE  /\ n \in NotesOn(q)
               /\ GivenSooner(r, n) \subseteq GivenSooner(q, n)
               /\ NotesOn(q) \ NotesOn(r) \subseteq GivenSooner(q, n)
    <3>1. PICK x \in V : b.pool[x] = On(n) /\ Heard(n)
      BY <1>2, <2>2, <2>9
    <3>2. n \in NotesOn(q)
      BY <1>2, <2>8, <2>9, <3>1
    <3>3. ASSUME NEW m \in GivenSooner(r, n) PROVE m \in GivenSooner(q, n)
      <4>1. PICK v, w \in V : b.pool[v] = On(n) /\ b.pool[w] = On(m) /\ w \in Sooner(b, v)
        BY <2>2, <3>3 DEF GivenSooner, b, V
      <4>2. m \in NotesOn(r)
        BY <3>3 DEF GivenSooner
      <4>3. v # c /\ a.pool[v] = On(n)
        BY <2>8, <2>9, <4>1
      <4>4. w \in Sooner(a, v) /\ w # c
        BY <2>3, <4>1, <4>3
      <4>5. a.pool[w] = On(m)
        BY <2>5, <4>1, <4>4
      <4>6. m \in NotesOn(q)
        BY <1>2, <4>2, <4>5
      <4> QED
        BY <4>3, <4>4, <4>5, <4>6 DEF GivenSooner, a, V
    <3>4. ASSUME NEW m \in NotesOn(q), m \notin NotesOn(r) PROVE m \in GivenSooner(q, n)
      <4>1. PICK i \in V : a.pool[i] = On(m) /\ Heard(m)
        BY <1>2, <3>4
      <4>2. i = c
        BY <1>2, <2>2, <2>5, <3>4, <4>1
      <4>3. a.pool[c].active
        BY <4>1, <4>2 DEF On
      <4>4. x # c /\ a.pool[x] = On(n)
        BY <2>8, <2>9, <3>1
      <4>5. c \in Sooner(a, x)
        BY <2>4, <4>3, <4>4
      <4> QED
        BY <3>4, <4>1, <4>2, <4>4, <4>5 DEF GivenSooner, a, V
    <3> QED
      BY <3>2, <3>3, <3>4
  <2> QED
    BY <2>2, <2>7, <2>9 DEF a, b
<1> QED
  BY <1>4, <1>5

\* A note-off takes its note out of it.
LEMMA NoteOffGiven ==
  ASSUME NEW q, PartOK(q), ~IsMono(q), NEW k, NEW r, r.pmode = q.pmode,
         r.poly = AfterNoteOff(q.poly, k), NotesOn(r) \subseteq NotesOn(q) \ {k}
  PROVE  /\ r.poly.size = q.poly.size /\ NotesOn(r) = NotesOn(q) \ {k}
         /\ \A n \in NotesOn(r) : GivenSooner(r, n) \subseteq GivenSooner(q, n)
<1> DEFINE a == q.poly
           b == r.poly
           V == VoicesOf(a)
           c == Find(a, k)
           s == IF a.cyclic = NonCyclic THEN Off(k) ELSE On(MaxNote)
           Heard(n) == n \in Notes /\ (q.pmode = "CYCLIC" => n # MaxNote)
<1>1. /\ WellFormed(a) /\ IsPool(a) /\ b = AfterNoteOff(a, k)
      /\ a.cyclic = NonCyclic <=> q.pmode # "CYCLIC"
  BY DEF PartOK, PolyOK, WellFormed
<1>2. /\ \A n : n \in NotesOn(q) <=> Heard(n) /\ \E i \in V : a.pool[i] = On(n)
      /\ \A n : n \in NotesOn(r) <=> Heard(n) /\ \E i \in VoicesOf(b) : b.pool[i] = On(n)
  BY DEF NotesOn, IsMono
<1> HIDE DEF a, b
<1>3. VoicesOf(b) = V /\ b.size = a.size
  BY <1>1, NoteOffWellFormed, ZenonT(60) DEF SameKind
<1>4. CASE c = NoVoice
  <2>1. b = a
    BY <1>1, <1>4, NoteOffWellFormed, ZenonT(60)
  <2>2. \A i \in V : a.pool[i].note # k
    BY <1>1, <1>4, FindIsFirst
  <2>3. NotesOn(r) = NotesOn(q)
    BY <1>2, <2>1
  <2>4. k \notin NotesOn(q)
    <3>1. \A i \in V : a.pool[i] # On(k)
      BY <2>2 DEF On
    <3> QED
      BY <1>2, <3>1
  <2> QED
    BY <1>3, <2>1, <2>3, <2>4 DEF GivenSooner, a, b
<1>5. CASE c # NoVoice
  <2>1. b.pool = [a.pool EXCEPT ![c] = s]
    BY <1>1, <1>5, NoteOffWellFormed, ZenonT(60)
  <2>2. c \in V /\ a.pool[c].note = k
    BY <1>1, <1>5, FindIsFirst
  <2>3. \A v \in V : v # c => Sooner(b, v) \subseteq Sooner(a, v)
    BY <1>1, <1>5, NoteOffSooner
  <2> HIDE DEF c, V
  <2>4. \A i \in V : b.pool[i] = IF i = c THEN s ELSE a.pool[i]
    BY <1>1, <2>1, PoolFields DEF V
  <2>5. ASSUME NEW n, Heard(n) PROVE s # On(n)
    <3>1. CASE a.cyclic = NonCyclic
      BY <3>1 DEF On, Off
    <3>2. CASE a.cyclic # NonCyclic
      BY <1>1, <2>5, <3>2 DEF On
    <3> QED
      BY <3>1, <3>2
  <2> HIDE DEF s, Heard
  <2>6. ASSUME NEW m \in NotesOn(q), m # k PROVE m \in NotesOn(r)
    <3>1. PICK i \in V : a.pool[i] = On(m) /\ Heard(m)
      BY <1>2, <2>6
    <3>2. i # c
      BY <2>2, <2>6, <3>1 DEF On
    <3> QED
      BY <1>2, <1>3, <2>4, <3>1, <3>2
  <2>7. ASSUME NEW n \in NotesOn(r), NEW m \in GivenSooner(r, n) PROVE m \in GivenSooner(q, n)
    <3>1. PICK v, w \in V : b.pool[v] = On(n) /\ b.pool[w] = On(m) /\ w \in Sooner(b, v)
      BY <1>3, <2>7 DEF GivenSooner, b
    <3>2. Heard(n) /\ Heard(m) /\ m \in NotesOn(q)
      BY <1>2, <2>7 DEF GivenSooner
    <3>3. v # c /\ w # c
      BY <2>4, <2>5, <3>1, <3>2
    <3>4. a.pool[v] = On(n) /\ a.pool[w] = On(m) /\ w \in Sooner(a, v)
      BY <2>3, <2>4, <3>1, <3>3
    <3> QED
      BY <3>2, <3>4 DEF GivenSooner, a, V
  <2> QED
    BY <1>3, <2>6, <2>7 DEF a, b
<1> QED
  BY <1>4, <1>5

-----------------------------------------------------------------------------
\* The notes that may go, of those remembered or on, before a note that is on does:
\* those played later that are not on any more, and those whose voice is given
\* before its own.
Rivals(q, n) == ((Above(q.pressed, n) \ NotesOn(q)) \cup GivenSooner(q, n)) \ {n}

\* KeysCoverVoices, said of any part.
Covering(q) == 2 * q.poly.size - 1 <= KeyCapacity /\ MonoCapacity <= KeyCapacity

\* What is on is remembered, and will be until its voice is given to another note.
Covered(q) ==
  /\ IsMono(q) => Prefix(q.mono, q.pressed)
  /\ ~IsMono(q) =>
       \A n \in NotesOn(q) :
         n \in NotesOf(q.pressed) /\ Cardinality(Rivals(q, n)) < q.poly.size

\* No more notes are on than there are slots.
LEMMA NotesOnFit ==
  ASSUME NEW q, PartOK(q), ~IsMono(q)
  PROVE  /\ NotesOn(q) \in SUBSET Notes /\ q.poly.size \in Nat
         /\ IsFiniteSet(NotesOn(q)) /\ Cardinality(NotesOn(q)) \in Nat
         /\ Cardinality(NotesOn(q)) <= q.poly.size
<1> DEFINE a == q.poly
           V == VoicesOf(a)
           f == [n \in NotesOn(q) |-> CHOOSE i \in V : a.pool[i] = On(n)]
<1>1. IsPool(a) /\ a.size \in Nat /\ V = 0..(a.size - 1)
  BY PoolFields DEF PartOK, PolyOK, WellFormed
<1>2. NotesOn(q) \in SUBSET Notes /\ \A n \in NotesOn(q) : \E i \in V : a.pool[i] = On(n)
  BY DEF NotesOn
<1>3. IsFiniteSet(NotesOn(q)) /\ Cardinality(NotesOn(q)) \in Nat
  BY <1>2, NotesAreFinite
<1> HIDE DEF a, V
<1>4. \A n \in NotesOn(q) : f[n] \in V /\ a.pool[f[n]] = On(n)
  BY <1>2
<1> HIDE DEF f
<1>5. \A n, m \in NotesOn(q) : f[n] = f[m] => n = m
  <2>1. \A n, m : On(n) = On(m) => n = m
    BY DEF On
  <2> QED
    BY <1>4, <2>1
<1>6. f \in [NotesOn(q) -> V]
  BY <1>4 DEF f
<1>7. f \in Injection(NotesOn(q), V)
  BY <1>5, <1>6 DEF Injection, IsInjective
<1>8. IsFiniteSet(V) /\ Cardinality(V) = a.size
  <2> DEFINE n == a.size
  <2>1. V = 0..(n - 1) /\ n \in Nat
    BY <1>1
  <2> HIDE DEF n
  <2>2. IsFiniteSet(0..(n - 1)) /\ Cardinality(0..(n - 1)) = IF 0 > n - 1 THEN 0 ELSE (n - 1) - 0 + 1
    BY <2>1, FS_Interval
  <2>3. (IF 0 > n - 1 THEN 0 ELSE (n - 1) - 0 + 1) = n
    BY <2>1
  <2> QED
    BY <2>1, <2>2, <2>3 DEF n
<1>9. Cardinality(NotesOn(q)) <= Cardinality(V)
  BY <1>7, <1>8, FS_Injection
<1> QED
  BY <1>1, <1>2, <1>3, <1>8, <1>9 DEF a

\* A set with no more than x elements next to one with y.
LEMMA UnionFits ==
  ASSUME NEW S \in SUBSET Notes, NEW T \in SUBSET Notes, NEW U \in SUBSET (S \cup T)
  PROVE  /\ Cardinality(S) \in Nat /\ Cardinality(T) \in Nat /\ Cardinality(U) \in Nat
         /\ Cardinality(U) <= Cardinality(S) + Cardinality(T)
<1>1. IsFiniteSet(S) /\ Cardinality(S) \in Nat /\ IsFiniteSet(T) /\ Cardinality(T) \in Nat
  BY NotesAreFinite
<1>2. S \cup T \in SUBSET Notes /\ U \in SUBSET Notes /\ S \cap T \in SUBSET Notes
  OBVIOUS
<1>3. IsFiniteSet(S \cup T) /\ Cardinality(S \cup T) \in Nat /\ Cardinality(U) \in Nat
      /\ Cardinality(S \cap T) \in Nat
  BY <1>2, NotesAreFinite
<1>4. Cardinality(S \cup T) = Cardinality(S) + Cardinality(T) - Cardinality(S \cap T)
  BY <1>1, FS_Union
<1>5. Cardinality(U) <= Cardinality(S \cup T)
  BY <1>3, FS_Subset
<1> QED
  BY <1>1, <1>3, <1>4, <1>5

LEMMA RivalsAreNotes ==
  ASSUME NEW q, PartOK(q), ~IsMono(q), NEW n
  PROVE  Rivals(q, n) \in SUBSET Notes /\ n \notin Rivals(q, n)
<1>1. q.pressed \in KeyStacks
  BY DEF PartOK, Voiced, Parts
<1>2. NotesOf(q.pressed) \subseteq Notes
  BY <1>1, PressedNotes
<1> QED
  BY <1>2, NotesOnFit DEF Rivals, Above, GivenSooner

LEMMA CoveredNotes ==
  ASSUME NEW q, PartOK(q), Covered(q)
  PROVE  NotesOn(q) \subseteq NotesOf(q.pressed)
<1>1. CASE IsMono(q)
  <2> DEFINE E == [note : Notes, flagged : BOOLEAN]
             D == [note : Notes]
  <2>1. q.pressed \in Stacks(E) /\ q.mono \in Stacks(D)
    BY DEF PartOK, Voiced, Parts, KeyStacks, NoteLists
  <2> HIDE DEF E, D
  <2>2. NotesOf(q.mono) \subseteq NotesOf(q.pressed)
    BY <1>1, <2>1, PrefixNotes DEF Covered
  <2> QED
    BY <1>1, <2>2 DEF NotesOn
<1>2. CASE ~IsMono(q)
  BY <1>2 DEF Covered
<1> QED
  BY <1>1, <1>2

\* The arithmetic of a stack that holds 2 * size - 1 keys.
LEMMA EnoughKeys ==
  ASSUME NEW size \in Nat, NEW capacity \in Nat, 2 * size - 1 <= capacity,
         NEW gone \in Nat, NEW rivals \in Nat, NEW on \in Nat,
         rivals < size, on <= size - 2, gone <= rivals + on
  PROVE  gone < capacity - 1
OBVIOUS

\* A note that is played covers itself, and the notes that stay on are still covered.
LEMMA NoteOnCovers ==
  ASSUME NEW q, PartOK(q), ~IsMono(q), Covering(q), Covered(q),
         NEW k \in Notes, q.pmode = "CYCLIC" => k # MaxNote,
         NEW r, PartOK(r), r.pmode = q.pmode,
         r.poly = IF FindActive(q.poly, k) # NoVoice THEN q.poly ELSE AfterNoteOn(q.poly, k),
         r.pressed = Played(q.pressed, [note |-> k, flagged |-> FALSE], KeyCapacity)
  PROVE  Covered(r)
<1> DEFINE E == [note : Notes, flagged : BOOLEAN]
           e == [note |-> k, flagged |-> FALSE]
           s == q.pressed
           size == q.poly.size
<1>1. s \in Stacks(E) /\ e \in E /\ e.note = k /\ r.pressed = Played(s, e, KeyCapacity)
      /\ s \in KeyStacks
  BY DEF PartOK, Voiced, Parts, KeyStacks
<1>2. KeyCapacity \in Nat \ {0} /\ 2 * size - 1 <= KeyCapacity
  BY PartOpsAssumption DEF Covering
<1> HIDE DEF E, e
<1>3. /\ Above(r.pressed, k) = {} /\ k \in NotesOf(r.pressed)
      /\ \A n : n # k => Above(r.pressed, n) \subseteq Above(s, n) \cup {k}
  <2>1. /\ Above(r.pressed, e.note) = {}
        /\ \A n : n # e.note => Above(r.pressed, n) \subseteq Above(s, n) \cup {e.note}
    <3> DEFINE t == Played(s, e, KeyCapacity)
    <3>1. Above(t, e.note) = {}
      BY <1>1, <1>2, PlayedOrder
    <3>2. \A n : n # e.note => Above(t, n) \subseteq Above(s, n) \cup {e.note}
      BY <1>1, <1>2, PlayedOrder
    <3>3. r.pressed = t
      BY <1>1
    <3> HIDE DEF t, s
    <3> QED
      BY <3>1, <3>2, <3>3
  <2>2. e.note \in NotesOf(r.pressed)
    BY <1>1, <1>2, PlayedStack
  <2> QED
    BY <1>1, <2>1, <2>2
<1>4. /\ r.poly.size = size /\ k \in NotesOn(r)
      /\ \A n \in NotesOn(r) \ {k} :
           /\ n \in NotesOn(q)
           /\ GivenSooner(r, n) \subseteq GivenSooner(q, n)
           /\ NotesOn(q) \ NotesOn(r) \subseteq GivenSooner(q, n)
  BY NoteOnGiven
<1>5. ~IsMono(r)
  BY DEF IsMono
<1>6. /\ NotesOn(r) \in SUBSET Notes /\ size \in Nat
      /\ IsFiniteSet(NotesOn(r)) /\ Cardinality(NotesOn(r)) \in Nat
      /\ Cardinality(NotesOn(r)) <= size
  BY <1>4, <1>5, NotesOnFit
<1>7. \A n \in NotesOn(q) : n \in NotesOf(s) /\ Cardinality(Rivals(q, n)) < size
  BY DEF Covered
<1>8. Above(s, k) \subseteq Notes /\ \A n : Above(s, n) \subseteq Notes
  BY <1>1, PressedNotes DEF Above
<1> HIDE DEF s, size
<1>9. k \in NotesOf(r.pressed) /\ Cardinality(Rivals(r, k)) < size
  <2>1. Rivals(r, k) \subseteq NotesOn(r) \ {k}
    BY <1>3 DEF Rivals, GivenSooner
  <2>2. /\ IsFiniteSet(NotesOn(r) \ {k}) /\ Cardinality(NotesOn(r) \ {k}) \in Nat
        /\ Cardinality(NotesOn(r) \ {k}) = Cardinality(NotesOn(r)) - 1
    BY <1>4, <1>6, FS_RemoveElement, NotesAreFinite
  <2>3. Cardinality(Rivals(r, k)) <= Cardinality(NotesOn(r) \ {k})
        /\ Cardinality(Rivals(r, k)) \in Nat
    BY <1>5, <2>1, <2>2, FS_Subset, RivalsAreNotes, NotesAreFinite
  <2> QED
    BY <1>3, <1>6, <2>2, <2>3
<1>10. ASSUME NEW n \in NotesOn(r), n # k
       PROVE  n \in NotesOf(r.pressed) /\ Cardinality(Rivals(r, n)) < size
  <2>1. /\ n \in NotesOn(q) /\ n \in NotesOf(s)
        /\ GivenSooner(r, n) \subseteq GivenSooner(q, n)
        /\ NotesOn(q) \ NotesOn(r) \subseteq GivenSooner(q, n)
        /\ Cardinality(Rivals(q, n)) < size
    BY <1>4, <1>7, <1>10
  <2>2. Rivals(q, n) \in SUBSET Notes /\ Cardinality(Rivals(q, n)) \in Nat
    BY RivalsAreNotes, NotesAreFinite
  <2>3. Rivals(r, n) \subseteq Rivals(q, n)
    BY <1>3, <1>4, <1>10, <2>1 DEF Rivals, s
  <2>4. Cardinality(Rivals(r, n)) <= Cardinality(Rivals(q, n))
        /\ Cardinality(Rivals(r, n)) \in Nat
    BY <2>2, <2>3, FS_Subset, NotesAreFinite
  <2>5. n \in NotesOf(r.pressed)
    <3> DEFINE A == Above(s, n) \ {k}
               O == (NotesOn(r) \ {k}) \ {n}
    <3>1. SUFFICES ASSUME n \notin NotesOf(r.pressed) PROVE FALSE
      OBVIOUS
    <3>2. Cardinality(A) >= KeyCapacity - 1
      <4>1. n # e.note /\ n \notin NotesOf(Played(s, e, KeyCapacity))
        BY <1>1, <1>10, <3>1
      <4>2. Cardinality(Above(s, n) \ {e.note}) >= KeyCapacity - 1
        BY <1>1, <1>2, <2>1, <4>1, PlayedDrops
      <4> QED
        BY <1>1, <4>2
    <3>3. n \notin Above(s, n)
      BY <1>1, StackElements DEF Above, Distinct
    <3>4. A \subseteq Rivals(q, n) \cup O
      BY <2>1, <3>3 DEF Rivals, s
    <3>5. O \in SUBSET Notes /\ Cardinality(O) \in Nat
          /\ Cardinality(O) = Cardinality(NotesOn(r)) - 2
      <4>1. /\ IsFiniteSet(NotesOn(r) \ {k}) /\ Cardinality(NotesOn(r) \ {k}) \in Nat
            /\ Cardinality(NotesOn(r) \ {k}) = Cardinality(NotesOn(r)) - 1
        BY <1>4, <1>6, FS_RemoveElement, NotesAreFinite
      <4>2. n \in NotesOn(r) \ {k}
        BY <1>10
      <4>3. Cardinality(O) = Cardinality(NotesOn(r) \ {k}) - 1
        BY <4>1, <4>2, FS_RemoveElement
      <4>4. O \in SUBSET Notes
        BY <1>6
      <4> HIDE DEF O
      <4> QED
        BY <1>6, <4>1, <4>3, <4>4, NotesAreFinite
    <3>6. A \in SUBSET (Rivals(q, n) \cup O)
      BY <3>4
    <3> HIDE DEF A, O
    <3>7. Cardinality(A) \in Nat /\ Cardinality(A) <= Cardinality(Rivals(q, n)) + Cardinality(O)
      BY <2>2, <3>5, <3>6, UnionFits
    <3>8. Cardinality(O) <= size - 2
      BY <1>6, <3>5
    <3>9. Cardinality(A) < KeyCapacity - 1
      BY <1>2, <1>6, <2>1, <2>2, <3>5, <3>7, <3>8, EnoughKeys
    <3> QED
      BY <1>2, <3>2, <3>7, <3>9
  <2> QED
    BY <1>6, <2>1, <2>2, <2>4, <2>5
<1> QED
  BY <1>4, <1>5, <1>9, <1>10 DEF Covered

\* A note-off uncovers none.
LEMMA NoteOffCovers ==
  ASSUME NEW q, PartOK(q), ~IsMono(q), Covered(q), NEW k,
         NEW r, PartOK(r), r.pmode = q.pmode, r.poly = AfterNoteOff(q.poly, k),
         NotesOn(r) \subseteq NotesOn(q) \ {k}, r.pressed = Without(q.pressed, k)
  PROVE  Covered(r)
<1> DEFINE s == q.pressed
<1>1. s \in KeyStacks /\ r.pressed = Without(s, k)
  BY DEF PartOK, Voiced, Parts
<1>2. NotesOf(r.pressed) = NotesOf(s) \ {k}
  BY <1>1, WithoutKey
<1>3. \A n : n # k => Above(r.pressed, n) \subseteq Above(s, n) \ {k}
  BY <1>1, WithoutOrder DEF KeyStacks
<1>4. /\ r.poly.size = q.poly.size /\ NotesOn(r) = NotesOn(q) \ {k}
      /\ \A n \in NotesOn(r) : GivenSooner(r, n) \subseteq GivenSooner(q, n)
  BY NoteOffGiven
<1>5. ~IsMono(r) /\ q.poly.size \in Nat
  BY NotesOnFit DEF IsMono
<1>6. \A n \in NotesOn(q) : n \in NotesOf(s) /\ Cardinality(Rivals(q, n)) < q.poly.size
  BY DEF Covered
<1>7. ASSUME NEW n \in NotesOn(r)
      PROVE  n \in NotesOf(r.pressed) /\ Cardinality(Rivals(r, n)) < r.poly.size
  <2>1. n \in NotesOn(q) /\ n # k /\ n \in NotesOf(r.pressed)
    BY <1>2, <1>4, <1>6
  <2>2. Rivals(r, n) \subseteq Rivals(q, n)
    BY <1>3, <1>4, <2>1 DEF Rivals
  <2>3. Rivals(q, n) \in SUBSET Notes /\ Cardinality(Rivals(q, n)) \in Nat
        /\ IsFiniteSet(Rivals(q, n))
    BY RivalsAreNotes, NotesAreFinite
  <2>4. Cardinality(Rivals(r, n)) <= Cardinality(Rivals(q, n))
        /\ Cardinality(Rivals(r, n)) \in Nat
    BY <2>2, <2>3, FS_Subset, NotesAreFinite
  <2>5. Cardinality(Rivals(q, n)) < q.poly.size
    BY <1>6, <2>1
  <2> QED
    BY <1>4, <1>5, <2>1, <2>3, <2>4, <2>5
<1> QED
  BY <1>5, <1>7 DEF Covered

\* An operation that writes pressed_keys_ only.
KeysMoved(q, r) ==
  /\ Moved(q, r) /\ SameVoices(q, r) /\ NotesOn(r) = NotesOn(q)
  /\ r.ignore = q.ignore /\ r.prev = q.prev /\ r.out = q.out /\ r.chain = q.chain

LEMMA SetKeysMoved ==
  ASSUME NEW q, PartOK(q), Tellable(q), NEW x \in KeyStacks
  PROVE  KeysMoved(q, [q EXCEPT !.pressed = x]) /\ [q EXCEPT !.pressed = x].pressed = x
BY SetOtherMoved DEF KeysMoved

LEMMA PressKeyMoved ==
  ASSUME NEW q, PartOK(q), Tellable(q), NEW note \in Notes
  PROVE  LET r == PressKey(q, note)
         IN  /\ KeysMoved(q, r) /\ r.pressed # <<>>
             /\ r.pressed = Played(q.pressed, [note |-> note, flagged |-> FALSE], KeyCapacity)
<1> DEFINE E == [note : Notes, flagged : BOOLEAN]
           e == [note |-> note, flagged |-> FALSE]
           keys == Played(q.pressed, e, KeyCapacity)
<1>1. q.pressed \in Stacks(E) /\ e \in E /\ KeyStacks = Stacks(E) /\ KeyCapacity \in Nat \ {0}
  BY PartOpsAssumption DEF PartOK, Voiced, Parts, KeyStacks
<1>2. PressKey(q, note) = [q EXCEPT !.pressed = keys]
  BY DEF PressKey
<1> HIDE DEF E, e
<1>3. keys \in KeyStacks /\ keys # <<>>
  BY <1>1, PlayedStack
<1> HIDE DEF keys
<1>4. KeysMoved(q, [q EXCEPT !.pressed = keys]) /\ [q EXCEPT !.pressed = keys].pressed = keys
  BY <1>3, SetKeysMoved
<1> QED
  BY <1>2, <1>3, <1>4 DEF keys, e

LEMMA KeyGoneMoved ==
  ASSUME NEW q, PartOK(q), Tellable(q), NEW note
  PROVE  /\ KeysMoved(q, [q EXCEPT !.pressed = Without(@, note)])
         /\ note \in Notes => KeysMoved(q, [q EXCEPT !.pressed = Flagged(@, note)])
<1>1. q.pressed \in KeyStacks
  BY DEF PartOK, Voiced, Parts
<1>2. Without(q.pressed, note) \in KeyStacks
      /\ (note \in Notes => Flagged(q.pressed, note) \in KeyStacks)
  BY <1>1, WithoutKey, FlaggedStack
<1> QED
  BY <1>2, SetKeysMoved

-----------------------------------------------------------------------------
\* The order of a stack is total.
LEMMA AboveTotal ==
  ASSUME NEW S, NEW s \in Stacks(S), NEW n \in NotesOf(s), NEW m \in NotesOf(s), n # m
  PROVE  n \in Above(s, m) <=> ~ (m \in Above(s, n))
<1>1. DOMAIN s = 1..Len(s) /\ Len(s) \in Nat /\ Distinct(s)
  BY StackElements
<1>2. PICK i \in 1..Len(s) : s[i].note = n
  BY <1>1 DEF NotesOf
<1>3. PICK j \in 1..Len(s) : s[j].note = m
  BY <1>1 DEF NotesOf
<1>4. \A k \in 1..Len(s) : (s[k].note = n => k = i) /\ (s[k].note = m => k = j)
  BY <1>1, <1>2, <1>3 DEF Distinct
<1>5. n \in Above(s, m) <=> i < j
  BY <1>1, <1>2, <1>3, <1>4 DEF Above
<1>6. m \in Above(s, n) <=> j < i
  BY <1>1, <1>2, <1>3, <1>4 DEF Above
<1>7. i # j
  BY <1>2, <1>3
<1> QED
  BY <1>1, <1>2, <1>3, <1>5, <1>6, <1>7

\* The notes that stay keep their order.
LEMMA OrderKept ==
  ASSUME NEW S, NEW s \in Stacks(S), NEW r \in Stacks(S), NEW k,
         \A n : n # k => Above(r, n) \subseteq Above(s, n) \cup {k},
         NEW n \in NotesOf(r) \cap NotesOf(s), NEW m \in NotesOf(r) \cap NotesOf(s),
         n # m, n # k, m # k, n \in Above(s, m)
  PROVE  n \in Above(r, m)
<1>1. m \notin Above(s, n)
  BY AboveTotal
<1>2. m \notin Above(r, n)
  BY <1>1
<1> QED
  BY <1>2, AboveTotal

\* The note at the front is above the others.
LEMMA FrontIsAbove ==
  ASSUME NEW S, NEW r \in Stacks(S), NEW n \in NotesOf(r), Above(r, n) = {},
         NEW m \in NotesOf(r), m # n
  PROVE  n \in Above(r, m)
BY AboveTotal

\* A stack with room for another note keeps them all.
LEMMA PlayedKeeps ==
  ASSUME NEW S, NEW s \in Stacks(S), NEW e \in S, NEW capacity \in Nat \ {0},
         e.note \notin NotesOf(s), Len(s) < capacity
  PROVE  NotesOf(Played(s, e, capacity)) = NotesOf(s) \cup {e.note}
<1> DEFINE w == Without(s, e.note)
           t == Pushed(s, e)
<1>1. w = s
  BY WithoutCases, StackElements DEF NotesOf
<1>2. Len(t) = Len(w) + 1 /\ NotesOf(t) = NotesOf(s) \cup {e.note} /\ Len(s) \in Nat
  BY PushedElements, PushedStack, StackElements
<1>3. Played(s, e, capacity) = IF Len(t) > capacity THEN SubSeq(t, 1, capacity) ELSE t
  BY DEF Played, Pushed
<1> HIDE DEF w, t
<1>4. ~ (Len(t) > capacity)
  BY <1>1, <1>2
<1> QED
  BY <1>2, <1>3, <1>4

\* A full stack loses the note below all the others.
LEMMA PlayedLoses ==
  ASSUME NEW S, NEW s \in Stacks(S), NEW e \in S, NEW capacity \in Nat \ {0},
         e.note \notin NotesOf(s), Len(s) = capacity,
         NEW old \in NotesOf(s), \A n \in NotesOf(s) \ {old} : n \in Above(s, old)
  PROVE  NotesOf(Played(s, e, capacity)) = (NotesOf(s) \ {old}) \cup {e.note}
<1> DEFINE w == Without(s, e.note)
           t == Pushed(s, e)
           r == Played(s, e, capacity)
<1>1. w = s
  BY WithoutCases, StackElements DEF NotesOf
<1>2. DOMAIN s = 1..capacity /\ Distinct(s)
  BY StackElements
<1>3. /\ Len(t) = capacity + 1 /\ DOMAIN t = 1..(capacity + 1) /\ t[1] = e
      /\ \A k \in 2..(capacity + 1) : t[k] = s[k - 1]
  <2>1. /\ Len(t) = Len(w) + 1 /\ DOMAIN t = 1..(Len(w) + 1) /\ t[1] = e
        /\ \A k \in 2..(Len(w) + 1) : t[k] = w[k - 1]
    BY PushedElements
  <2> HIDE DEF w, t
  <2> QED
    BY <1>1, <2>1
<1>4. /\ Len(r) = IF Len(t) > capacity THEN capacity ELSE Len(t)
      /\ DOMAIN r = 1..Len(r) /\ \A k \in DOMAIN r : r[k] = t[k]
  BY PlayedFront
<1> HIDE DEF w, t, r
<1>5. /\ DOMAIN r = 1..capacity /\ r[1] = e
      /\ \A k \in 2..capacity : r[k] = s[k - 1]
  <2>1. Len(r) = capacity
    BY <1>3, <1>4
  <2>2. DOMAIN r = 1..capacity
    BY <1>4, <2>1
  <2>3. 1 \in DOMAIN r /\ \A k \in 2..capacity : k \in DOMAIN r /\ k \in 2..(capacity + 1)
    BY <2>2
  <2> QED
    BY <1>3, <1>4, <2>2, <2>3
<1>6. s[capacity].note = old
  <2>1. PICK x \in 1..capacity : s[x].note = old
    BY <1>2 DEF NotesOf
  <2> SUFFICES ASSUME x # capacity PROVE FALSE
    BY <2>1
  <2>2. capacity \in 1..capacity /\ ~ (capacity < x)
    BY <2>1
  <2>3. s[capacity].note \in NotesOf(s) /\ s[capacity].note # old
    BY <1>2, <2>1, <2>2 DEF NotesOf, Distinct
  <2>4. s[capacity].note \in Above(s, old)
    BY <2>3
  <2>5. PICK i, j \in DOMAIN s : i < j /\ s[i].note = s[capacity].note /\ s[j].note = old
    BY <2>4 DEF Above
  <2>6. i = capacity /\ j = x
    BY <1>2, <2>1, <2>2, <2>5 DEF Distinct
  <2> QED
    BY <2>2, <2>5, <2>6
<1>7. ASSUME NEW k \in 1..capacity PROVE r[k].note \in (NotesOf(s) \ {old}) \cup {e.note}
  <2>1. CASE k = 1
    BY <1>5, <2>1
  <2>2. CASE k # 1
    <3>1. k - 1 \in 1..capacity /\ k - 1 # capacity /\ capacity \in 1..capacity /\ r[k] = s[k - 1]
      BY <1>5, <2>2
    <3> QED
      BY <1>2, <1>6, <3>1 DEF NotesOf, Distinct
  <2> QED
    BY <2>1, <2>2
<1>8. ASSUME NEW k \in 1..capacity, s[k].note # old PROVE s[k].note \in NotesOf(r)
  <2>1. k # capacity
    BY <1>6, <1>8
  <2>2. k + 1 \in 2..capacity /\ k + 1 \in DOMAIN r /\ (k + 1) - 1 = k
    BY <1>5, <2>1
  <2> QED
    BY <1>5, <2>2 DEF NotesOf
<1>9. e.note \in NotesOf(r)
  <2>1. 1 \in DOMAIN r
    BY <1>5
  <2> QED
    BY <1>5, <2>1 DEF NotesOf
<1>10. NotesOf(r) = (NotesOf(s) \ {old}) \cup {e.note}
  <2>1. NotesOf(r) \subseteq (NotesOf(s) \ {old}) \cup {e.note}
    BY <1>5, <1>7 DEF NotesOf
  <2>2. NotesOf(s) \ {old} \subseteq NotesOf(r)
    BY <1>2, <1>8 DEF NotesOf
  <2> QED
    BY <1>9, <2>1, <2>2
<1> QED
  BY <1>10 DEF r

-----------------------------------------------------------------------------
\* The slots whose voices are those of the next unit of the chain, and the notes that
\* are active there.
FarSlots(q) == VoicesOf(q.poly) \ LocalSlots(q)

FarNotes(q) == {n \in Notes : \E i \in FarSlots(q) : q.poly.pool[i] = On(n)}

LEMMA ChainSlots ==
  ASSUME NEW q, PartOK(q), q.pmode = "CHAIN"
  PROVE  /\ ~IsMono(q) /\ WellFormed(q.poly) /\ IsPool(q.poly)
         /\ q.poly.cyclic = NonCyclic /\ q.poly.size = 2 * q.num /\ q.num \in 1..6
         /\ VoicesOf(q.poly) = 0..(2 * q.num - 1)
         /\ LocalSlots(q) = 0..(q.num - 1) /\ FarSlots(q) = q.num..(2 * q.num - 1)
         /\ q.poly.pool \in [VoicesOf(q.poly) -> VoiceState]
         /\ NotesOn(q) = {n \in Notes : \E i \in VoicesOf(q.poly) : q.poly.pool[i] = On(n)}
         /\ FarNotes(q) \subseteq NotesOn(q)
<1> DEFINE a == q.poly
<1>1. ~IsMono(q) /\ PolyOK(q) /\ q.num \in 1..6
  BY DEF IsMono, PartOK, Voiced, Parts
<1>2. WellFormed(a) /\ IsPool(a) /\ a.cyclic = NonCyclic /\ a.size = 2 * q.num
  BY <1>1 DEF PolyOK, WellFormed, PolySize
<1>3. a.pool \in [VoicesOf(a) -> VoiceState]
  BY <1>2, PoolFields
<1>4. NotesOn(q) = {n \in Notes : \E i \in VoicesOf(a) : a.pool[i] = On(n)}
  BY <1>1 DEF NotesOn
<1>5. FarNotes(q) \subseteq NotesOn(q)
  BY <1>4 DEF FarNotes, FarSlots
<1>6. VoicesOf(a) = 0..(2 * q.num - 1)
  BY <1>2 DEF VoicesOf
<1>7. LocalSlots(q) = {i \in 0..(2 * q.num - 1) : i < (2 * q.num) \div 2}
  BY <1>2, <1>6 DEF LocalSlots
<1>8. LocalSlots(q) = 0..(q.num - 1) /\ FarSlots(q) = q.num..(2 * q.num - 1)
  <2> DEFINE n == q.num
  <2>1. n \in 1..6 /\ LocalSlots(q) = {i \in 0..(2 * n - 1) : i < (2 * n) \div 2}
    BY <1>1, <1>7
  <2>2. VoicesOf(q.poly) = 0..(2 * n - 1)
    BY <1>6
  <2> HIDE DEF n
  <2>3. (2 * n) \div 2 = n
    BY <2>1
  <2>4. LocalSlots(q) = 0..(n - 1)
    BY <2>1, <2>3
  <2>5. FarSlots(q) = n..(2 * n - 1)
    BY <2>1, <2>2, <2>4 DEF FarSlots
  <2> QED
    BY <2>4, <2>5 DEF n
<1> QED
  BY <1>1, <1>2, <1>3, <1>4, <1>5, <1>6, <1>8

\* The slot of a note that is on is the only one, and the one a note-off finds.
LEMMA SlotOfNote ==
  ASSUME NEW q, PartOK(q), q.pmode = "CHAIN", NEW n \in Notes,
         NEW i \in VoicesOf(q.poly), q.poly.pool[i] = On(n)
  PROVE  /\ \A j \in VoicesOf(q.poly) : q.poly.pool[j] = On(n) => j = i
         /\ Find(q.poly, n) = i /\ FindActive(q.poly, n) = i
<1> DEFINE a == q.poly
           V == VoicesOf(a)
<1>1. WellFormed(a) /\ IsPool(a) /\ a.cyclic = NonCyclic
  BY ChainSlots
<1>2. \A v \in V : v \in Nat
  BY <1>1, PoolFields
<1>3. ASSUME NEW j \in V, NEW k \in V, a.pool[j] = On(n), a.pool[k] = On(n) PROVE j = k
  <2>1. On(n) # Off(0)
    BY DEF On, Off
  <2>2. \A v, w \in V : v < w /\ a.pool[v].note = a.pool[w].note => a.pool[w] = Off(0)
    BY <1>1 DEF WellFormed, Remembers
  <2>3. ~ (j < k) /\ ~ (k < j)
    BY <1>3, <2>1, <2>2
  <2> QED
    BY <1>2, <2>3
<1>4. FindActive(a, n) \in V /\ a.pool[FindActive(a, n)] = On(n) /\ FindActive(a, n) # NoVoice
  BY <1>1, FindActiveIsFirst
<1>5. Find(a, n) = FindActive(a, n)
  BY <1>1, <1>4, FindFindsActive
<1> QED
  BY <1>3, <1>4, <1>5

\* The far slots hold as many notes as are active.
LEMMA FarNotesFit ==
  ASSUME NEW q, PartOK(q), q.pmode = "CHAIN"
  PROVE  /\ (\E c \in FarSlots(q) : ~q.poly.pool[c].active) => Cardinality(FarNotes(q)) < q.num
         /\ (\A c \in FarSlots(q) : q.poly.pool[c].active) => Cardinality(FarNotes(q)) = q.num
<1> DEFINE a == q.poly
           F == FarSlots(q)
           N == FarNotes(q)
           f == [n \in N |-> CHOOSE i \in F : a.pool[i] = On(n)]
<1>1. /\ F = q.num..(2 * q.num - 1) /\ q.num \in 1..6 /\ F \subseteq VoicesOf(a)
      /\ a.pool \in [VoicesOf(a) -> VoiceState]
  BY ChainSlots DEF FarSlots
<1>2. N \in SUBSET Notes /\ \A n \in N : \E i \in F : a.pool[i] = On(n)
  BY DEF FarNotes
<1>3. IsFiniteSet(N) /\ Cardinality(N) \in Nat
  BY <1>2, NotesAreFinite
<1>4. IsFiniteSet(F) /\ Cardinality(F) = q.num
  <2> DEFINE n == q.num
  <2>1. F = n..(2 * n - 1) /\ n \in 1..6
    BY <1>1
  <2> HIDE DEF n
  <2>2. /\ IsFiniteSet(n..(2 * n - 1))
        /\ Cardinality(n..(2 * n - 1)) = IF n > 2 * n - 1 THEN 0 ELSE (2 * n - 1) - n + 1
    BY <2>1, FS_Interval
  <2>3. (IF n > 2 * n - 1 THEN 0 ELSE (2 * n - 1) - n + 1) = n
    BY <2>1
  <2> QED
    BY <2>1, <2>2, <2>3 DEF n
<1>5. \A n \in N : f[n] \in F /\ a.pool[f[n]] = On(n)
  BY <1>2
<1>6. \A i \in F : a.pool[i].active => a.pool[i].note \in N /\ a.pool[i] = On(a.pool[i].note)
  BY <1>1 DEF FarNotes, VoiceState, On
<1>7. \A i, j \in F : a.pool[i].active /\ a.pool[j] = a.pool[i] => i = j
  BY <1>1, <1>2, <1>6, SlotOfNote
<1> HIDE DEF f, F, N, a
<1>8. \A n, m \in N : f[n] = f[m] => n = m
  <2>1. \A n, m : On(n) = On(m) => n = m
    BY DEF On
  <2> QED
    BY <1>5, <2>1
<1>9. ASSUME NEW c \in F, ~a.pool[c].active PROVE Cardinality(N) < q.num
  <2>1. ASSUME NEW n \in N PROVE f[n] \in F \ {c}
    <3>1. f[n] \in F /\ a.pool[f[n]] = On(n)
      BY <1>5, <2>1
    <3>2. On(n).active = TRUE
      BY DEF On
    <3> QED
      BY <1>9, <3>1, <3>2
  <2>2. f \in [N -> F \ {c}]
    BY <2>1 DEF f
  <2>3. f \in Injection(N, F \ {c})
    BY <1>8, <2>2 DEF Injection, IsInjective
  <2>4. IsFiniteSet(F \ {c}) /\ Cardinality(F \ {c}) = Cardinality(F) - 1
    BY <1>4, FS_RemoveElement
  <2>5. Cardinality(N) <= Cardinality(F \ {c})
    BY <2>3, <2>4, FS_Injection
  <2> QED
    BY <1>1, <1>3, <1>4, <2>4, <2>5
<1>10. ASSUME \A c \in F : a.pool[c].active PROVE Cardinality(N) = q.num
  <2>1. f \in [N -> F]
    BY <1>5 DEF f
  <2>2. f \in Injection(N, F)
    BY <1>8, <2>1 DEF Injection, IsInjective
  <2>3. \A i \in F : \E n \in N : f[n] = i
    <3>1. ASSUME NEW i \in F PROVE f[a.pool[i].note] = i
      BY <1>5, <1>6, <1>7, <1>10
    <3> QED
      BY <1>6, <1>10, <3>1
  <2>4. f \in Bijection(N, F)
    BY <2>1, <2>2, <2>3 DEF Bijection, Surjection, Injection
  <2>5. ExistsBijection(N, F)
    BY <2>4 DEF ExistsBijection
  <2> QED
    BY <1>3, <1>4, <2>5, FS_Bijection
<1> QED
  BY <1>9, <1>10 DEF F, N, a

\* The chain field of a note-on and of a note-off.
LEMMA NoteOnChain ==
  ASSUME NEW q, PartOK(q), q.pmode = "CHAIN", NEW note \in Notes, note \in q.scale
  PROVE  LET active == FindActive(q.poly, note)
             c == IF active # NoVoice THEN active ELSE ChosenVoice(q.poly, note)
         IN  InternalNoteOn(q, note).chain =
               IF c \in LocalSlots(q) THEN q.chain ELSE Forwarded(q.chain, note)
<1> DEFINE out == q.out \cup {note}
           u == [q EXCEPT !.out = out]
           b == AfterNoteOn(q.poly, note)
           w == [u EXCEPT !.poly = b]
           r == InternalNoteOn(q, note)
           active == FindActive(q.poly, note)
           c == ChosenVoice(q.poly, note)
           chain == Forwarded(q.chain, note)
<1>1. q \in Parts /\ out \in SUBSET Notes
  BY DEF PartOK, Voiced, Parts
<1>2. /\ ~IsMono(q) /\ WellFormed(q.poly) /\ q.poly.size # 0 /\ note # Silent
  <2>1. ~IsMono(q) /\ WellFormed(q.poly) /\ q.poly.size = 2 * q.num /\ q.num \in 1..6
    BY ChainSlots
  <2>2. note # Silent
    BY MaxNoteAssumption DEF Notes, Silent
  <2> QED
    BY <2>1, <2>2
<1>3. b \in Allocators /\ b.size = q.poly.size /\ VoicesOf(b) = VoicesOf(q.poly)
  BY <1>2, NoteOnWellFormed, AllocatorIsPool DEF WellFormed, SameKind
<1>4. r = IF active # NoVoice THEN Address(u, active, note, note)
          ELSE Address(w, c, note, note)
  BY <1>2 DEF InternalNoteOn, NoteOnVoice
<1> HIDE DEF out, b, r, active, c
<1>5. /\ u \in Parts /\ u.pmode = "CHAIN" /\ u.chain = q.chain /\ u.poly = q.poly
      /\ w \in Parts /\ w.pmode = "CHAIN" /\ w.chain = q.chain /\ w.poly = b
  BY <1>1, <1>3 DEF Parts
<1> HIDE DEF u, w
<1>6. LocalSlots(u) = LocalSlots(q) /\ LocalSlots(w) = LocalSlots(q)
  BY <1>3, <1>5 DEF LocalSlots
<1>7. ASSUME NEW x \in Parts, x.pmode = "CHAIN", x.chain = q.chain, NEW i
      PROVE  Address(x, i, note, note).chain =
               IF i \in LocalSlots(x) THEN q.chain ELSE Forwarded(q.chain, note)
  <2>1. CASE i \in LocalSlots(x)
    <3>1. Address(x, i, note, note) = Tell(x, SlotVoices(x, i), note)
      BY <2>1 DEF Address
    <3> QED
      BY <1>7, <2>1, <3>1, TellFrame
  <2>2. CASE i \notin LocalSlots(x)
    <3>1. Address(x, i, note, note) = [x EXCEPT !.chain = chain]
      BY <1>2, <1>7, <2>2 DEF Address
    <3> HIDE DEF chain
    <3>2. [x EXCEPT !.chain = chain].chain = chain
      BY <1>7 DEF Parts
    <3> QED
      BY <2>2, <3>1, <3>2 DEF chain
  <2> QED
    BY <2>1, <2>2
<1>8. /\ Address(u, active, note, note).chain = IF active \in LocalSlots(q) THEN q.chain ELSE chain
      /\ Address(w, c, note, note).chain = IF c \in LocalSlots(q) THEN q.chain ELSE chain
  BY <1>5, <1>6, <1>7
<1> HIDE DEF chain
<1>9. r.chain = IF (IF active # NoVoice THEN active ELSE c) \in LocalSlots(q) THEN q.chain ELSE chain
  BY <1>4, <1>8
<1> QED
  BY <1>9 DEF r, active, c, chain

LEMMA NoteOffChain ==
  ASSUME NEW q, PartOK(q), q.pmode = "CHAIN", NEW note, note # NoNote
  PROVE  InternalNoteOff(q, note).chain =
           IF Find(q.poly, note) \in LocalSlots(q) THEN q.chain ELSE Without(q.chain, note)
<1> DEFINE out == q.out \ {note}
           a == q.poly
           b == AfterNoteOff(q.poly, note)
           w == [[q EXCEPT !.out = out] EXCEPT !.poly = b]
           r == InternalNoteOff(q, note)
           c == Find(q.poly, note)
           chain == Without(q.chain, note)
<1>1. q \in Parts /\ out \in SUBSET Notes
  BY DEF PartOK, Voiced, Parts
<1>2. ~IsMono(q) /\ WellFormed(a)
  BY ChainSlots
<1>3. b \in Allocators /\ b.size = a.size /\ VoicesOf(b) = VoicesOf(a)
  <2> HIDE DEF a
  <2>1. WellFormed(AfterNoteOff(a, note)) /\ SameKind(a, AfterNoteOff(a, note))
    BY <1>2, NoteOffWellFormed, ZenonT(60)
  <2> QED
    BY <2>1, AllocatorIsPool DEF WellFormed, SameKind, a
<1>4. r = Address(w, c, note, Silent)
  BY <1>1, <1>2 DEF InternalNoteOff, Parts
<1> HIDE DEF out, b, r, c, a
<1>5. w \in Parts /\ w.pmode = "CHAIN" /\ w.chain = q.chain /\ w.poly = b
  BY <1>1, <1>3 DEF Parts
<1> HIDE DEF w
<1>6. LocalSlots(w) = LocalSlots(q)
  BY <1>3, <1>5 DEF LocalSlots, a
<1>7. CASE c \in LocalSlots(q)
  <2>1. r = Tell(w, SlotVoices(w, c), Silent)
    BY <1>4, <1>6, <1>7 DEF Address
  <2> QED
    BY <1>5, <1>7, <2>1, TellFrame DEF r, c
<1>8. CASE c \notin LocalSlots(q)
  <2>1. r = [w EXCEPT !.chain = chain]
    BY <1>4, <1>5, <1>6, <1>8 DEF Address
  <2> HIDE DEF chain
  <2>2. [w EXCEPT !.chain = chain].chain = chain
    BY <1>5 DEF Parts
  <2> QED
    BY <1>8, <2>1, <2>2 DEF chain, r, c
<1> QED
  BY <1>7, <1>8

-----------------------------------------------------------------------------
\* The next unit plays the notes of the far slots, and would steal them in the order in
\* which their slots are given.
Chained(q) ==
  /\ NotesOf(q.chain) = FarNotes(q)
  /\ \A n, m \in NotesOf(q.chain) :
       n # m /\ m \in GivenSooner(q, n) => n \in Above(q.chain, m)

\* What the next unit makes of a note that takes a far slot: it loses the note whose
\* slot that was.
LEMMA FarNotePlayed ==
  ASSUME NEW q, PartOK(q), q.pmode = "CHAIN", NextVoices = q.num, Chained(q),
         NEW k \in Notes, FindActive(q.poly, k) = NoVoice,
         NEW c \in FarSlots(q), c = ChosenVoice(q.poly, k),
         NEW N, N = {n \in FarNotes(q) : q.poly.pool[c] # On(n)},
         \A old \in FarNotes(q) \ N : \A n \in N : old \in GivenSooner(q, n)
  PROVE  NotesOf(Played(q.chain, [note |-> k], NextVoices)) = N \cup {k}
<1> DEFINE D == [note : Notes]
           e == [note |-> k]
           s == q.chain
           a == q.poly
<1>1. s \in Stacks(D) /\ e \in D /\ e.note = k /\ NextVoices \in Nat \ {0}
  BY PartOpsAssumption DEF PartOK, Voiced, Parts, NoteLists
<1>2. /\ WellFormed(a) /\ IsPool(a) /\ a.cyclic = NonCyclic /\ a.size # 0
      /\ c \in VoicesOf(a) /\ a.pool \in [VoicesOf(a) -> VoiceState]
      /\ FarSlots(q) \subseteq VoicesOf(a)
  <2>1. a.size = 2 * q.num /\ q.num \in 1..6
    BY ChainSlots
  <2>2. a.size # 0
    BY <2>1
  <2> QED
    BY <2>2, ChainSlots DEF FarSlots
<1>3. \A i \in VoicesOf(a) : a.pool[i] # On(k)
  BY <1>2, FindActiveIsFirst
<1>4. NotesOf(s) = FarNotes(q) /\ Len(s) \in Nat /\ Cardinality(FarNotes(q)) = Len(s)
  BY <1>1, StackIsAsLong, StackElements DEF Chained
<1>5. k \notin NotesOf(s)
  BY <1>2, <1>3, <1>4 DEF FarNotes
<1> HIDE DEF D, e
<1>6. CASE ~a.pool[c].active
  <2>1. N = NotesOf(s)
    <3>1. \A n : On(n).active = TRUE
      BY DEF On
    <3>2. \A n : a.pool[c] # On(n)
      BY <1>6, <3>1
    <3> QED
      BY <1>4, <3>2
  <2>2. Len(s) < NextVoices
    BY <1>4, <1>6, FarNotesFit
  <2>3. NotesOf(Played(s, e, NextVoices)) = NotesOf(s) \cup {e.note}
    BY <1>1, <1>5, <2>2, PlayedKeeps
  <2> QED
    BY <1>1, <2>1, <2>3 DEF e
<1>7. CASE a.pool[c].active
  <2> DEFINE old == a.pool[c].note
  <2>1. a.pool[c] = On(old) /\ old \in Notes
    BY <1>2, <1>7 DEF VoiceState, On
  <2>2. old \in FarNotes(q)
    BY <2>1 DEF FarNotes
  <2>3. N = NotesOf(s) \ {old}
    <3>1. \A n : On(old) = On(n) => n = old
      BY DEF On
    <3> QED
      BY <1>4, <2>1, <3>1
  <2>4. Len(s) = NextVoices
    <3>1. \A v \in VoicesOf(a) : a.pool[v].active
      BY <1>2, <1>7, StolenWhenFull
    <3> QED
      BY <1>2, <1>4, <3>1, FarNotesFit
  <2> HIDE DEF old
  <2>5. \A n \in NotesOf(s) \ {old} : n \in Above(s, old)
    <3>1. ASSUME NEW n \in NotesOf(s), n # old PROVE n \in Above(s, old)
      <4>1. old \in GivenSooner(q, n)
        BY <1>4, <2>2, <2>3, <3>1
      <4> QED
        BY <1>4, <2>2, <3>1, <4>1 DEF Chained
    <3> QED
      BY <3>1
  <2>6. NotesOf(Played(s, e, NextVoices)) = (NotesOf(s) \ {old}) \cup {e.note}
    BY <1>1, <1>4, <1>5, <2>2, <2>4, <2>5, PlayedLoses
  <2> QED
    BY <1>1, <2>3, <2>6 DEF e
<1> QED
  BY <1>6, <1>7

LEMMA NoteOnChains ==
  ASSUME NEW q, PartOK(q), q.pmode = "CHAIN", NextVoices = q.num, Chained(q),
         NEW k \in Notes
  PROVE  Chained(InternalNoteOn(q, k))
<1> DEFINE D == [note : Notes]
           e == [note |-> k]
           s == q.chain
           a == q.poly
           V == VoicesOf(a)
           F == FarSlots(q)
           r == InternalNoteOn(q, k)
           b == r.poly
           active == FindActive(a, k)
           c == ChosenVoice(a, k)
<1> SUFFICES Chained(r)
  OBVIOUS
<1>1. s \in Stacks(D) /\ e \in D /\ e.note = k /\ NextVoices \in Nat \ {0}
  BY PartOpsAssumption DEF PartOK, Voiced, Parts, NoteLists
<1>2. CASE k \notin q.scale
  BY <1>2 DEF InternalNoteOn
<1>3. CASE k \in q.scale
  <2>1. /\ b = IF active # NoVoice THEN a ELSE AfterNoteOn(a, k)
        /\ PartOK(r) /\ r.pmode = "CHAIN" /\ r.num = q.num /\ ~IsMono(q)
    <3>1. ~IsMono(q)
      BY DEF IsMono
    <3>2. PartOK(r)
      BY InternalNoteOnOK
    <3> QED
      BY <1>3, <3>1, <3>2, NoteOnFields DEF SameRest, SameSettings
  <2>2. r.chain = IF (IF active # NoVoice THEN active ELSE c) \in LocalSlots(q) THEN s
                  ELSE Forwarded(s, k)
    BY <1>3, NoteOnChain
  <2>3. /\ k \in NotesOn(r)
        /\ \A n \in NotesOn(r) \ {k} :
             /\ n \in NotesOn(q)
             /\ GivenSooner(r, n) \subseteq GivenSooner(q, n)
             /\ NotesOn(q) \ NotesOn(r) \subseteq GivenSooner(q, n)
    BY <2>1, NoteOnGiven
  <2>4. /\ WellFormed(a) /\ IsPool(a) /\ a.size # 0
        /\ V = 0..(2 * q.num - 1) /\ LocalSlots(q) = 0..(q.num - 1) /\ F = q.num..(2 * q.num - 1)
        /\ F \subseteq V /\ F = V \ LocalSlots(q)
        /\ FarNotes(q) \subseteq NotesOn(q)
    <3>1. a.size = 2 * q.num /\ q.num \in 1..6
      BY ChainSlots
    <3>2. a.size # 0
      BY <3>1
    <3> QED
      BY <3>2, ChainSlots DEF FarSlots
  <2>5. FarSlots(r) = F /\ VoicesOf(b) = V /\ FarNotes(r) \subseteq NotesOn(r)
    BY <2>1, <2>4, ChainSlots
  <2>6. /\ FarNotes(q) = {n \in Notes : \E i \in F : a.pool[i] = On(n)}
        /\ FarNotes(r) = {n \in Notes : \E i \in F : b.pool[i] = On(n)}
    BY <2>5 DEF FarNotes
  <2>7. /\ NotesOf(s) = FarNotes(q)
        /\ \A n, m \in NotesOf(s) : n # m /\ m \in GivenSooner(q, n) => n \in Above(s, m)
    BY DEF Chained
  <2>8. CASE active # NoVoice
    <3>1. active \in V /\ a.pool[active] = On(k) /\ b = a
      BY <2>1, <2>4, <2>8, FindActiveIsFirst
    <3>2. r.chain = s
      <4>1. CASE active \in LocalSlots(q)
        BY <2>2, <2>8, <4>1
      <4>2. CASE active \notin LocalSlots(q)
        <5>1. active \in F
          BY <2>4, <3>1, <4>2
        <5>2. k \in NotesOf(s)
          BY <2>6, <2>7, <3>1, <5>1
        <5> QED
          BY <2>2, <2>8, <4>2, <5>2 DEF Forwarded
      <4> QED
        BY <4>1, <4>2
    <3>3. FarNotes(r) = FarNotes(q)
      BY <2>6, <3>1
    <3>4. \A n : GivenSooner(r, n) = GivenSooner(q, n)
      <4>1. NotesOn(r) = NotesOn(q)
        BY <2>1, <3>1 DEF NotesOn, IsMono
      <4> QED
        BY <3>1, <4>1 DEF GivenSooner
    <3> HIDE DEF r, s
    <3> QED
      BY <2>7, <3>2, <3>3, <3>4 DEF Chained
  <2>9. CASE active = NoVoice
    <3>1. c \in V /\ b.pool = [a.pool EXCEPT ![c] = On(k)] /\ a.pool \in [V -> VoiceState]
      <4>1. c \in V /\ AfterNoteOn(a, k).pool = [a.pool EXCEPT ![c] = On(k)]
        BY <2>4, NoteOnWellFormed, ZenonT(60)
      <4>2. a.pool \in [V -> VoiceState]
        BY <2>4, PoolFields
      <4> QED
        BY <2>1, <2>9, <4>1, <4>2
    <3>2. \A i \in V : b.pool[i] = IF i = c THEN On(k) ELSE a.pool[i]
      BY <3>1
    <3>3. \A i \in V : a.pool[i] # On(k)
      BY <2>4, <2>9, FindActiveIsFirst
    <3>4. k \notin NotesOn(q) /\ k \notin NotesOf(s)
      <4>1. k \notin NotesOn(q)
        BY <2>1, <3>3 DEF NotesOn
      <4> QED
        BY <2>4, <2>7, <4>1
    <3>5. CASE c \in LocalSlots(q)
      <4>1. r.chain = s
        BY <2>2, <2>9, <3>5
      <4>2. FarNotes(r) = FarNotes(q)
        <5>1. \A i \in F : b.pool[i] = a.pool[i]
          BY <2>4, <3>2, <3>5
        <5> QED
          BY <2>6, <5>1
      <4> HIDE DEF r, s
      <4>3. ASSUME NEW n \in NotesOf(s), NEW m \in NotesOf(s), n # m, m \in GivenSooner(r, n)
            PROVE  n \in Above(s, m)
        <5>1. n \in NotesOn(r) \ {k}
          BY <2>5, <2>7, <3>4, <4>2, <4>3
        <5> QED
          BY <2>3, <2>7, <4>3, <5>1
      <4> QED
        BY <2>7, <4>1, <4>2, <4>3 DEF Chained
    <3>6. CASE c \notin LocalSlots(q)
      <4> DEFINE t == Played(s, e, NextVoices)
                 N == {n \in FarNotes(q) : a.pool[c] # On(n)}
      <4>1. r.chain = t /\ c \in F
        BY <2>2, <2>4, <2>9, <3>1, <3>4, <3>6 DEF Forwarded
      <4> HIDE DEF r, s, t, e, a, active, F, V
      <4>2. FarNotes(r) = N \cup {k}
        <5>1. ASSUME NEW n \in FarNotes(r) PROVE n \in N \cup {k}
          <6>1. PICK i \in F : b.pool[i] = On(n) /\ n \in Notes
            BY <2>6, <5>1
          <6>2. CASE i = c
            <7>1. On(n) = On(k)
              BY <2>4, <3>2, <6>1, <6>2
            <7>2. n = k
              BY <7>1 DEF On
            <7> QED
              BY <7>2
          <6>3. CASE i # c
            <7>1. a.pool[i] = On(n) /\ i \in V
              BY <2>4, <3>2, <6>1, <6>3
            <7>2. a.pool[c] # On(n)
              BY <3>1, <6>1, <6>3, <7>1, SlotOfNote DEF a, V
            <7>3. n \in FarNotes(q)
              BY <2>6, <6>1, <7>1
            <7> QED
              BY <7>2, <7>3
          <6> QED
            BY <6>2, <6>3
        <5>2. ASSUME NEW n \in N PROVE n \in FarNotes(r)
          <6>1. PICK i \in F : a.pool[i] = On(n) /\ n \in Notes
            BY <2>6, <5>2
          <6>2. i # c
            BY <5>2, <6>1
          <6>3. b.pool[i] = On(n)
            BY <2>4, <3>2, <6>1, <6>2
          <6> QED
            BY <2>6, <6>1, <6>3
        <5>3. k \in FarNotes(r)
          <6>1. b.pool[c] = On(k)
            BY <3>1, <3>2
          <6> QED
            BY <2>6, <4>1, <6>1
        <5> HIDE DEF N
        <5> QED
          BY <5>1, <5>2, <5>3
      <4>3. ASSUME NEW old \in FarNotes(q) \ N, NEW n \in N
            PROVE  old \in GivenSooner(q, n)
        <5>1. a.pool[c] = On(old) /\ old \in NotesOn(q)
          BY <2>4, <4>3
        <5>2. old \notin NotesOn(r)
          <6>1. SUFFICES ASSUME old \in NotesOn(r) PROVE FALSE
            OBVIOUS
          <6>2. PICK i \in V : b.pool[i] = On(old) /\ old \in Notes
            BY <2>1, <2>5, <6>1 DEF NotesOn, IsMono
          <6>3. i # c
            <7>1. On(old) # On(k)
              BY <3>1, <3>3, <5>1
            <7> QED
              BY <3>2, <6>2, <7>1
          <6>4. a.pool[i] = On(old)
            BY <3>2, <6>2, <6>3
          <6> QED
            BY <3>1, <5>1, <6>2, <6>3, <6>4, SlotOfNote DEF a, V
        <5>3. n \in NotesOn(r) \ {k}
          <6>1. n \in FarNotes(r) /\ n \in NotesOn(q)
            BY <2>4, <4>2, <4>3
          <6> QED
            BY <2>5, <3>4, <6>1
        <5> QED
          BY <2>3, <5>1, <5>2, <5>3
      <4>4. NotesOf(t) = N \cup {k}
        <5>1. /\ FindActive(q.poly, k) = NoVoice
              /\ c \in FarSlots(q) /\ c = ChosenVoice(q.poly, k)
              /\ N = {n \in FarNotes(q) : q.poly.pool[c] # On(n)}
          BY <2>9, <4>1 DEF a, F, active
        <5>2. \A old \in FarNotes(q) \ N : \A n \in N : old \in GivenSooner(q, n)
          BY <4>3
        <5> HIDE DEF N, c
        <5>3. NotesOf(Played(q.chain, [note |-> k], NextVoices)) = N \cup {k}
          BY <5>1, <5>2, FarNotePlayed
        <5> QED
          BY <5>3 DEF t, s, e
      <4>5. /\ t \in Stacks(D) /\ Above(t, k) = {}
            /\ \A n : n # k => Above(t, n) \subseteq Above(s, n) \cup {k}
        <5>1. Played(s, e, NextVoices) \in Stacks(D)
          BY <1>1, PlayedStack
        <5>2. Above(Played(s, e, NextVoices), e.note) = {}
          BY <1>1, PlayedOrder
        <5>3. \A n : n # e.note => Above(Played(s, e, NextVoices), n) \subseteq Above(s, n) \cup {e.note}
          BY <1>1, PlayedOrder
        <5> QED
          BY <1>1, <5>1, <5>2, <5>3 DEF t
      <4> HIDE DEF D
      <4>6. ASSUME NEW n \in NotesOf(t), NEW m \in NotesOf(t), n # m, m \in GivenSooner(r, n)
            PROVE  n \in Above(t, m)
        <5>1. CASE n = k
          BY <4>5, <4>6, <5>1, FrontIsAbove
        <5>2. CASE n # k
          <6>1. n \in NotesOn(r) \ {k}
            BY <2>5, <4>2, <4>4, <5>2
          <6>2. m \in GivenSooner(q, n) /\ m \in NotesOn(q)
            BY <2>3, <4>6, <6>1 DEF GivenSooner
          <6>3. m # k
            BY <3>4, <6>2
          <6>4. n \in NotesOf(s) /\ m \in NotesOf(s)
            BY <2>7, <4>4, <5>2, <6>3
          <6>5. n \in Above(s, m)
            BY <2>7, <4>6, <6>2, <6>4
          <6> QED
            BY <1>1, <4>5, <4>6, <5>2, <6>3, <6>4, <6>5, OrderKept
        <5> QED
          BY <5>1, <5>2
      <4> HIDE DEF N
      <4> QED
        BY <4>1, <4>2, <4>4, <4>6 DEF Chained
    <3> QED
      BY <3>5, <3>6
  <2> QED
    BY <2>8, <2>9
<1> QED
  BY <1>2, <1>3

LEMMA NoteOffChains ==
  ASSUME NEW q, PartOK(q), Tellable(q), q.pmode = "CHAIN", Chained(q), NEW k
  PROVE  Chained(InternalNoteOff(q, k))
<1> DEFINE D == [note : Notes]
           s == q.chain
           a == q.poly
           V == VoicesOf(a)
           F == FarSlots(q)
           r == InternalNoteOff(q, k)
           b == r.poly
           c == Find(a, k)
<1> SUFFICES Chained(r)
  OBVIOUS
<1>1. s \in Stacks(D)
  BY DEF PartOK, Voiced, Parts, NoteLists
<1>2. CASE k = NoNote
  BY <1>2 DEF InternalNoteOff
<1>3. CASE k # NoNote
  <2>1. /\ b = AfterNoteOff(a, k) /\ r.pmode = "CHAIN" /\ r.num = q.num /\ ~IsMono(q)
        /\ PartOK(r) /\ NotesOn(r) \subseteq NotesOn(q) \ {k}
    <3>1. ~IsMono(q)
      BY DEF IsMono
    <3>2. PartOK(r) /\ NotesOn(r) \subseteq NotesOn(q) \ {k}
      BY NoteOffMoved DEF Moved
    <3> QED
      BY <1>3, <3>1, <3>2, NoteOffFields DEF SameRest, SameSettings
  <2>2. r.chain = IF c \in LocalSlots(q) THEN s ELSE Without(s, k)
    BY <1>3, NoteOffChain
  <2>3. NotesOn(r) = NotesOn(q) \ {k} /\ \A n \in NotesOn(r) : GivenSooner(r, n) \subseteq GivenSooner(q, n)
    BY <2>1, NoteOffGiven
  <2>4. /\ WellFormed(a) /\ IsPool(a) /\ a.cyclic = NonCyclic
        /\ V = 0..(2 * q.num - 1) /\ LocalSlots(q) = 0..(q.num - 1) /\ F = q.num..(2 * q.num - 1)
        /\ F \subseteq V /\ F = V \ LocalSlots(q) /\ LocalSlots(q) \subseteq V
        /\ FarNotes(q) \subseteq NotesOn(q)
    BY ChainSlots DEF FarSlots, LocalSlots
  <2>5. FarSlots(r) = F /\ VoicesOf(b) = V /\ FarNotes(r) \subseteq NotesOn(r)
    BY <2>1, <2>4, ChainSlots
  <2>6. /\ FarNotes(q) = {n \in Notes : \E i \in F : a.pool[i] = On(n)}
        /\ FarNotes(r) = {n \in Notes : \E i \in F : b.pool[i] = On(n)}
    BY <2>5 DEF FarNotes
  <2>7. /\ NotesOf(s) = FarNotes(q)
        /\ \A n, m \in NotesOf(s) : n # m /\ m \in GivenSooner(q, n) => n \in Above(s, m)
    BY DEF Chained
  <2>8. \A i \in V : b.pool[i] = a.pool[i] \/ (i = c /\ a.pool[c].note = k /\ b.pool[i] = Off(k))
    <3>1. CASE c = NoVoice
      <4>1. b = a
        BY <2>1, <2>4, <3>1, NoteOffWellFormed, ZenonT(60)
      <4> QED
        BY <4>1
    <3>2. CASE c # NoVoice
      <4>1. b.pool = [a.pool EXCEPT ![c] = Off(k)]
        BY <2>1, <2>4, <3>2, NoteOffWellFormed, ZenonT(60)
      <4>2. a.pool[c].note = k /\ a.pool \in [V -> VoiceState]
        BY <2>4, <3>2, FindIsFirst, PoolFields
      <4> QED
        BY <4>1, <4>2
    <3> QED
      BY <3>1, <3>2
  <2> HIDE DEF r, s, a, F, V, c
  <2>9. FarNotes(r) = FarNotes(q) \ {k}
    <3>1. ASSUME NEW n \in FarNotes(r) PROVE n \in FarNotes(q) \ {k}
      <4>1. PICK i \in F : b.pool[i] = On(n) /\ n \in Notes
        BY <2>6, <3>1
      <4>2. On(n) # Off(k)
        BY DEF On, Off
      <4>3. a.pool[i] = On(n)
        BY <2>4, <2>8, <4>1, <4>2
      <4>4. n # k
        BY <2>3, <2>5, <3>1
      <4> QED
        BY <2>6, <4>1, <4>3, <4>4
    <3>2. ASSUME NEW n \in FarNotes(q), n # k PROVE n \in FarNotes(r)
      <4>1. PICK i \in F : a.pool[i] = On(n) /\ n \in Notes
        BY <2>6, <3>2
      <4>2. On(n).note = n
        BY DEF On
      <4>3. b.pool[i] = On(n)
        BY <2>4, <2>8, <3>2, <4>1, <4>2
      <4> QED
        BY <2>6, <4>1, <4>3
    <3> QED
      BY <3>1, <3>2
  <2>10. /\ r.chain \in Stacks(D) /\ NotesOf(r.chain) = NotesOf(s) \ {k}
         /\ \A n : n # k => Above(r.chain, n) \subseteq Above(s, n) \cup {k}
    <3>1. CASE c \in LocalSlots(q)
      <4>1. k \notin NotesOf(s)
        <5>1. SUFFICES ASSUME k \in FarNotes(q) PROVE FALSE
          BY <2>7
        <5>2. PICK i \in F : a.pool[i] = On(k) /\ k \in Notes
          BY <2>6, <5>1
        <5>3. c = i
          BY <2>4, <5>2, SlotOfNote DEF a, c, V
        <5> QED
          BY <2>4, <3>1, <5>2, <5>3
      <4> QED
        BY <1>1, <2>2, <3>1, <4>1
    <3>2. CASE c \notin LocalSlots(q)
      <4>1. Without(s, k) \in Stacks(D) /\ NotesOf(Without(s, k)) = NotesOf(s) \ {k}
        BY <1>1, WithoutNotes
      <4>2. \A n : n # k => Above(Without(s, k), n) \subseteq Above(s, n) \ {k}
        BY <1>1, WithoutOrder
      <4> QED
        BY <2>2, <3>2, <4>1, <4>2
    <3> QED
      BY <3>1, <3>2
  <2> HIDE DEF D
  <2>11. ASSUME NEW n \in NotesOf(r.chain), NEW m \in NotesOf(r.chain), n # m,
                m \in GivenSooner(r, n)
         PROVE  n \in Above(r.chain, m)
    <3>1. n # k /\ m # k /\ n \in NotesOf(s) /\ m \in NotesOf(s) /\ n \in NotesOn(r)
      BY <2>5, <2>7, <2>9, <2>10, <2>11
    <3>2. n \in Above(s, m)
      BY <2>3, <2>7, <2>11, <3>1
    <3> QED
      BY <1>1, <2>10, <2>11, <3>1, <3>2, OrderKept
  <2> QED
    BY <2>7, <2>9, <2>10, <2>11 DEF Chained
<1> QED
  BY <1>2, <1>3

-----------------------------------------------------------------------------
\* The clock plays the note of a step, and knows which it is.
Generates(q) ==
  q.amode = "NOTE" \/ (q.amode \in {"ARPEGGIATOR", "LATCH"} /\ q.dir = "LINE")

Tracked(q) ==
  Generates(q) =>
    /\ NotesOn(q) \subseteq {q.prev}
    /\ q.dir = "LINE" => q.out \subseteq {q.prev}
    /\ q.pressed = <<>> /\ q.amode # "LATCH" => NotesOn(q) = {}

\* Before the clock starts it has played none.
Dormant(q) == Generates(q) => NotesOn(q) = {} /\ (q.dir = "LINE" => q.out = {})

LEMMA QuietTracks ==
  ASSUME NEW q, NEW r, SameSettings(q, r), Quiet(r), Tracked(q),
         \/ r.out = q.out /\ r.prev = q.prev
         \/ q.dir = "LINE" => r.out = q.out \ {q.prev}
  PROVE  Tracked(r) /\ (Dormant(q) => Dormant(r))
BY DEF SameSettings, Quiet, Tracked, Dormant, Generates

LEMMA PartNoteOnMoved ==
  ASSUME NEW q, PartOK(q), Tellable(q), NEW note \in Notes
  PROVE  LET r == PartNoteOn(q, note)
         IN  Moved(q, r) /\ (Tracked(q) => Tracked(r)) /\ (Dormant(q) => Dormant(r))
<1> DEFINE u == PressKey(q, note)
           w == [q EXCEPT !.pressed = Without(@, note)]
           s == InternalNoteOn(u, note)
           r == PartNoteOn(q, note)
<1>1. \/ r = q
      \/ q.amode = "LATCH" /\ r = w
      \/ q.amode = "STEP" /\ r = s
      \/ r = u
  BY DEF PartNoteOn
<1>2. Moved(q, q)
  BY NotMoved
<1>3. KeysMoved(q, w)
  BY KeyGoneMoved
<1>4. KeysMoved(q, u) /\ u.pressed # <<>>
  BY PressKeyMoved
<1>5. Moved(u, s)
  BY <1>4, NoteOnMoved DEF KeysMoved, Moved
<1> HIDE DEF u, w, s, r
<1>6. Moved(q, s) /\ s.amode = q.amode
  BY <1>4, <1>5, MovedTwice DEF KeysMoved, Moved, SameSettings
<1>7. CASE r = q
  BY <1>2, <1>7 DEF r
<1>8. CASE q.amode = "LATCH" /\ r = w
  <2>1. w.amode = "LATCH"
    BY <1>3, <1>8 DEF KeysMoved, Moved, SameSettings
  <2>2. (Tracked(q) => Tracked(w)) /\ (Dormant(q) => Dormant(w))
    BY <1>3, <2>1 DEF KeysMoved, Moved, SameSettings, Tracked, Dormant, Generates
  <2> QED
    BY <1>3, <1>8, <2>2 DEF KeysMoved, r
<1>9. CASE q.amode = "STEP" /\ r = s
  <2>1. Tracked(s) /\ Dormant(s)
    BY <1>6, <1>9 DEF Tracked, Dormant, Generates
  <2> QED
    BY <1>6, <1>9, <2>1 DEF r
<1>10. CASE r = u
  <2>1. (Tracked(q) => Tracked(u)) /\ (Dormant(q) => Dormant(u))
    BY <1>4 DEF KeysMoved, Moved, SameSettings, Tracked, Dormant, Generates
  <2> QED
    BY <1>4, <1>10, <2>1 DEF KeysMoved, r
<1> QED
  BY <1>1, <1>7, <1>8, <1>9, <1>10

LEMMA PartNoteOffMoved ==
  ASSUME NEW q, PartOK(q), Tellable(q), NEW note \in Notes
  PROVE  LET r == PartNoteOff(q, note)
         IN  Moved(q, r) /\ (Tracked(q) => Tracked(r)) /\ (Dormant(q) => Dormant(r))
<1> DEFINE u == [q EXCEPT !.pressed = Without(@, note)]
           f == [q EXCEPT !.pressed = Flagged(@, note)]
           s == InternalNoteOff(u, note)
           w == [u EXCEPT !.ignore = FALSE]
           t == AllNotesOff(w)
           r == PartNoteOff(q, note)
<1>1. \/ r = q
      \/ r = f
      \/ (q.amode = "STEP" \/ (q.amode = "ARPEGGIATOR" /\ q.dir = "CHORD")) /\ r = s
      \/ u.pressed = <<>> /\ r = t
      \/ u.pressed # <<>> /\ r = u
  BY DEF PartNoteOff
<1>2. Moved(q, q)
  BY NotMoved
<1>3. KeysMoved(q, u) /\ KeysMoved(q, f)
  BY KeyGoneMoved
<1>4. f.pressed = <<>> <=> q.pressed = <<>>
  <2>1. q \in Parts /\ q.pressed \in KeyStacks
    BY DEF PartOK, Voiced, Parts
  <2>2. f.pressed = Flagged(q.pressed, note)
    BY <2>1 DEF Parts
  <2> QED
    BY <2>1, <2>2, FlaggedStack
<1> HIDE DEF u, f
<1>5. Moved(u, s)
  BY <1>3, NoteOffMoved DEF KeysMoved, Moved
<1>6. Moved(u, w) /\ w.ignore = FALSE /\ w.prev = u.prev /\ w.out = u.out
  <2>1. FALSE \in BOOLEAN
    OBVIOUS
  <2> QED
    BY <1>3, <2>1, SetOtherMoved DEF KeysMoved, Moved
<1> HIDE DEF w
<1>7. /\ Moved(w, t) /\ Quiet(t)
      /\ t.out = IF w.dir = "CHORD" THEN w.out ELSE w.out \ {w.prev}
  BY <1>6, AllNotesOffQuiets DEF Moved
<1> HIDE DEF s, r, t
<1>8. CASE r = q
  BY <1>2, <1>8 DEF r
<1>9. CASE r = f
  <2>1. (Tracked(q) => Tracked(f)) /\ (Dormant(q) => Dormant(f))
    BY <1>3, <1>4 DEF KeysMoved, Moved, SameSettings, Tracked, Dormant, Generates
  <2> QED
    BY <1>3, <1>9, <2>1 DEF KeysMoved, r
<1>10. CASE (q.amode = "STEP" \/ (q.amode = "ARPEGGIATOR" /\ q.dir = "CHORD")) /\ r = s
  <2>1. Moved(q, s)
    BY <1>3, <1>5, MovedTwice DEF KeysMoved
  <2>2. Tracked(s) /\ Dormant(s)
    BY <1>10, <2>1 DEF Moved, SameSettings, Tracked, Dormant, Generates
  <2> QED
    BY <1>10, <2>1, <2>2 DEF r
<1>11. CASE r = t
  <2>1. Moved(q, t)
    BY <1>3, <1>6, <1>7, MovedTwice DEF KeysMoved
  <2>2. q.dir = "LINE" => t.out = q.out \ {q.prev}
    BY <1>3, <1>6, <1>7 DEF KeysMoved, Moved, SameSettings
  <2>3. (Tracked(q) => Tracked(t)) /\ (Dormant(q) => Dormant(t))
    BY <1>7, <2>1, <2>2 DEF Moved, SameSettings, Quiet, Tracked, Dormant, Generates
  <2> QED
    BY <1>11, <2>1, <2>3 DEF r
<1>12. CASE u.pressed # <<>> /\ r = u
  <2>1. (Tracked(q) => Tracked(u)) /\ (Dormant(q) => Dormant(u))
    BY <1>3, <1>12 DEF KeysMoved, Moved, SameSettings, Tracked, Dormant, Generates
  <2> QED
    BY <1>3, <1>12, <2>1 DEF KeysMoved, r
<1> QED
  BY <1>1, <1>8, <1>9, <1>10, <1>11, <1>12

-----------------------------------------------------------------------------
\* The keys that are played directly, note by note or as a chord.
PlaysKeys(q) ==
  q.amode = "STEP" \/ (q.amode = "ARPEGGIATOR" /\ q.dir = "CHORD")

\* Whether the keys cover the voices depends on the size of the pool, that none of
\* these operations changes; whether what is on is covered, on the containers.
LEMMA MovedCovering ==
  ASSUME NEW q, NEW r, PartOK(q), Moved(q, r)
  PROVE  Covering(r) <=> Covering(q)
<1>1. /\ PolySize(r) = PolySize(q) /\ (IsMono(r) <=> IsMono(q)) /\ PartOK(r)
  BY DEF Moved, SameSettings, PolySize, IsMono
<1>2. r.poly.size = q.poly.size
  BY <1>1 DEF PartOK, MonoOK, PolyOK
<1> QED
  BY <1>2 DEF Covering

LEMMA CoveredFrame ==
  ASSUME NEW q, NEW r, SameVoices(q, r), DOMAIN r.pressed = DOMAIN q.pressed,
         Len(r.pressed) = Len(q.pressed),
         \A i \in DOMAIN q.pressed : r.pressed[i].note = q.pressed[i].note,
         DOMAIN q.pressed = 1..Len(q.pressed), Len(q.pressed) \in Nat,
         q.mono = <<>> \/ Len(q.mono) \in Nat, Covered(q)
  PROVE  Covered(r)
<1>1. /\ r.mono = q.mono /\ r.poly = q.poly /\ (IsMono(r) <=> IsMono(q))
      /\ NotesOn(r) = NotesOn(q) /\ \A n : GivenSooner(r, n) = GivenSooner(q, n)
  BY DEF SameVoices, IsMono, NotesOn, GivenSooner
<1>2. NotesOf(r.pressed) = NotesOf(q.pressed)
  BY DEF NotesOf
<1>3. \A n : Above(r.pressed, n) = Above(q.pressed, n)
  BY <1>2 DEF Above
<1>4. \A n : Rivals(r, n) = Rivals(q, n)
  BY <1>1, <1>3 DEF Rivals
<1>5. Prefix(q.mono, q.pressed) => Prefix(q.mono, r.pressed)
  <2>1. ASSUME Prefix(q.mono, q.pressed), NEW i \in 1..Len(q.mono)
        PROVE  q.mono[i].note = r.pressed[i].note
    <3>1. i \in DOMAIN q.pressed
      BY <2>1 DEF Prefix
    <3> QED
      BY <2>1, <3>1 DEF Prefix
  <2> QED
    BY <2>1 DEF Prefix
<1> QED
  BY <1>1, <1>2, <1>4, <1>5 DEF Covered

LEMMA NothingCovered ==
  ASSUME NEW q \in Parts, NotesOn(q) = {}
  PROVE  Covered(q)
<1> DEFINE D == [note : Notes]
           E == [note : Notes, flagged : BOOLEAN]
<1>1. q.mono \in Stacks(D) /\ q.pressed \in Stacks(E)
  BY DEF Parts, NoteLists, KeyStacks
<1> HIDE DEF D, E
<1>2. /\ DOMAIN q.mono = 1..Len(q.mono) /\ Len(q.mono) \in Nat
      /\ Len(q.pressed) \in Nat
  BY <1>1, StackElements
<1>3. ASSUME IsMono(q) PROVE Prefix(q.mono, q.pressed)
  <2>1. 1..Len(q.mono) = {}
    BY <1>2, <1>3 DEF NotesOn, NotesOf
  <2>2. Len(q.mono) = 0
    BY <1>2, <2>1
  <2> QED
    BY <1>2, <2>1, <2>2 DEF Prefix
<1> QED
  BY <1>3 DEF Covered

\* A key pressed, and a key released, when the keys play the notes.
LEMMA KeyOnCovers ==
  ASSUME NEW q, PartOK(q), Tellable(q), NEW note \in Notes, note \in q.scale,
         Covering(q), Covered(q)
  PROVE  Covered(InternalNoteOn(PressKey(q, note), note))
<1> DEFINE u == PressKey(q, note)
           r == InternalNoteOn(u, note)
           keys == Played(q.pressed, [note |-> note, flagged |-> FALSE], KeyCapacity)
<1> SUFFICES Covered(r)
  OBVIOUS
<1>1. KeysMoved(q, u) /\ u.pressed = keys
  BY PressKeyMoved
<1>2. /\ PartOK(u) /\ Tellable(u) /\ note \in u.scale /\ u.mono = q.mono /\ u.poly = q.poly
      /\ u.pmode = q.pmode
  BY <1>1 DEF KeysMoved, Moved, SameSettings, SameVoices
<1> HIDE DEF u, keys
<1>3. Moved(u, r)
  BY <1>2, NoteOnMoved
<1>4. /\ SameRest(u, r)
      /\ IsMono(u) => r.mono = Played(u.mono, [note |-> note], MonoCapacity)
      /\ ~IsMono(u) => r.poly = IF FindActive(u.poly, note) # NoVoice THEN u.poly
                                ELSE AfterNoteOn(u.poly, note)
  BY <1>2, NoteOnFields
<1> HIDE DEF r
<1>5. PartOK(r) /\ r.pmode = q.pmode /\ r.pressed = keys /\ (IsMono(u) <=> IsMono(q))
      /\ (IsMono(r) <=> IsMono(q))
  BY <1>1, <1>2, <1>3, <1>4 DEF Moved, SameRest, IsMono
<1>6. CASE IsMono(q)
  <2> DEFINE D == [note : Notes]
             E == [note : Notes, flagged : BOOLEAN]
             d == [note |-> note]
             e == [note |-> note, flagged |-> FALSE]
  <2>1. q.mono \in Stacks(D) /\ q.pressed \in Stacks(E)
    BY DEF PartOK, Voiced, Parts, NoteLists, KeyStacks
  <2>2. d \in D /\ e \in E /\ d.note = e.note
    OBVIOUS
  <2>3. /\ MonoCapacity \in Nat \ {0} /\ KeyCapacity \in Nat \ {0}
        /\ MonoCapacity <= KeyCapacity
    BY PartOpsAssumption DEF Covering
  <2>4. Prefix(q.mono, q.pressed)
    BY <1>6 DEF Covered
  <2>5. r.mono = Played(q.mono, d, MonoCapacity) /\ r.pressed = Played(q.pressed, e, KeyCapacity)
    BY <1>2, <1>4, <1>5, <1>6 DEF keys
  <2> HIDE DEF D, E, d, e
  <2>6. Prefix(Played(q.mono, d, MonoCapacity), Played(q.pressed, e, KeyCapacity))
    BY <2>1, <2>2, <2>3, <2>4, PrefixPlayed
  <2>7. Prefix(r.mono, r.pressed) /\ IsMono(r)
    BY <1>5, <1>6, <2>5, <2>6
  <2> QED
    BY <2>7 DEF Covered
<1>7. CASE ~IsMono(q)
  <2>1. q.pmode = "CYCLIC" => note # MaxNote
    BY DEF Tellable
  <2>2. r.poly = IF FindActive(q.poly, note) # NoVoice THEN q.poly ELSE AfterNoteOn(q.poly, note)
    BY <1>2, <1>4, <1>5, <1>7
  <2>3. r.pressed = Played(q.pressed, [note |-> note, flagged |-> FALSE], KeyCapacity)
    BY <1>5 DEF keys
  <2>4. PartOK(r) /\ r.pmode = q.pmode
    BY <1>5
  <2> QED
    BY <1>7, <2>1, <2>2, <2>3, <2>4, NoteOnCovers, ZenonT(60)
<1> QED
  BY <1>6, <1>7

LEMMA KeyOffCovers ==
  ASSUME NEW q, PartOK(q), Tellable(q), NEW note \in Notes, Covered(q)
  PROVE  Covered(InternalNoteOff([q EXCEPT !.pressed = Without(@, note)], note))
<1> DEFINE u == [q EXCEPT !.pressed = Without(@, note)]
           r == InternalNoteOff(u, note)
           keys == Without(q.pressed, note)
<1> SUFFICES Covered(r)
  OBVIOUS
<1>1. KeysMoved(q, u)
  BY KeyGoneMoved
<1>2. u.pressed = keys
  BY DEF PartOK, Voiced, Parts
<1>3. /\ PartOK(u) /\ Tellable(u) /\ u.mono = q.mono /\ u.poly = q.poly
      /\ u.pmode = q.pmode /\ NotesOn(u) = NotesOn(q)
  BY <1>1 DEF KeysMoved, Moved, SameVoices
<1>4. note # NoNote
  BY MaxNoteAssumption DEF NoNote, Notes
<1> HIDE DEF u, keys
<1>5. Moved(u, r) /\ NotesOn(r) \subseteq NotesOn(q) \ {note}
  BY <1>3, NoteOffMoved
<1>6. /\ SameRest(u, r)
      /\ IsMono(u) => r.mono = Without(u.mono, note)
      /\ ~IsMono(u) => r.poly = AfterNoteOff(u.poly, note)
  BY <1>3, <1>4, NoteOffFields
<1> HIDE DEF r
<1>7. PartOK(r) /\ r.pmode = q.pmode /\ r.pressed = keys /\ (IsMono(u) <=> IsMono(q))
      /\ (IsMono(r) <=> IsMono(q))
  BY <1>2, <1>3, <1>5, <1>6 DEF Moved, SameRest, IsMono
<1>8. CASE IsMono(q)
  <2> DEFINE D == [note : Notes]
             E == [note : Notes, flagged : BOOLEAN]
  <2>1. q.mono \in Stacks(D) /\ q.pressed \in Stacks(E)
    BY DEF PartOK, Voiced, Parts, NoteLists, KeyStacks
  <2>2. r.mono = Without(q.mono, note) /\ r.pressed = Without(q.pressed, note)
    BY <1>3, <1>6, <1>7, <1>8 DEF keys
  <2> HIDE DEF D, E
  <2>3. Prefix(Without(q.mono, note), Without(q.pressed, note))
    BY <1>8, <2>1, PrefixWithout DEF Covered
  <2>4. Prefix(r.mono, r.pressed) /\ IsMono(r)
    BY <1>7, <1>8, <2>2, <2>3
  <2> QED
    BY <2>4 DEF Covered
<1>9. CASE ~IsMono(q)
  <2>1. r.poly = AfterNoteOff(q.poly, note) /\ r.pressed = Without(q.pressed, note)
    BY <1>3, <1>6, <1>7, <1>9 DEF keys
  <2>2. PartOK(r) /\ r.pmode = q.pmode /\ NotesOn(r) \subseteq NotesOn(q) \ {note}
    BY <1>5, <1>7
  <2> QED
    BY <1>9, <2>1, <2>2, NoteOffCovers, ZenonT(60)
<1> QED
  BY <1>8, <1>9

\* What is remembered is among the keys K.  What is on is remembered, if K fits or
\* the keys cover the voices.
HasKeysOf(q, K) ==
  /\ NotesOf(q.pressed) \subseteq K
  /\ Cardinality(K) <= KeyCapacity => NotesOn(q) \subseteq NotesOf(q.pressed)
  /\ q.amode = "STEP" /\ Covering(q) => Covered(q)

\* The flagged keys are in F and the others in H.
Known(q, H, F) ==
  \A i \in DOMAIN q.pressed :
    IF q.pressed[i].flagged THEN q.pressed[i].note \in F ELSE q.pressed[i].note \in H

\* A part of the same voices and keys has the same of both.
LEMMA SameKeys ==
  ASSUME NEW q, NEW r, PartOK(q), SameVoices(q, r), r.pressed = q.pressed, r.amode = q.amode,
         NEW K, HasKeysOf(q, K)
  PROVE  HasKeysOf(r, K)
<1> DEFINE D == [note : Notes]
           E == [note : Notes, flagged : BOOLEAN]
<1>1. q.mono \in Stacks(D) /\ q.pressed \in Stacks(E)
  BY DEF PartOK, Voiced, Parts, NoteLists, KeyStacks
<1> HIDE DEF D, E
<1>2. /\ Len(q.mono) \in Nat /\ Len(q.pressed) \in Nat
      /\ DOMAIN q.pressed = 1..Len(q.pressed)
  BY <1>1, StackElements
<1>3. Covered(q) => Covered(r)
  BY <1>2, CoveredFrame
<1>4. NotesOn(r) = NotesOn(q) /\ (Covering(r) <=> Covering(q))
  BY DEF SameVoices, NotesOn, IsMono, Covering
<1> QED
  BY <1>3, <1>4 DEF HasKeysOf

LEMMA NothingHasKeys ==
  ASSUME NEW q \in Parts, NotesOn(q) = {}, NotesOf(q.pressed) = {}, NEW K
  PROVE  HasKeysOf(q, K)
BY NothingCovered DEF HasKeysOf

LEMMA PartNoteOnRemembers ==
  ASSUME NEW q, PartOK(q), Tellable(q), PlaysKeys(q), NEW note \in Notes,
         NEW K \in SUBSET Notes, note \in q.scale => note \in K, HasKeysOf(q, K)
  PROVE  LET r == PartNoteOn(q, note)
         IN  /\ HasKeysOf(r, K) /\ r.ignore = q.ignore
             /\ \A H, F : Known(q, H, F) => Known(r, H \cup {note}, F)
<1> DEFINE u == PressKey(q, note)
           s == InternalNoteOn(u, note)
           r == PartNoteOn(q, note)
           keys == Played(q.pressed, [note |-> note, flagged |-> FALSE], KeyCapacity)
<1>0. q.amode # "LATCH" /\ q.amode # "CHORD"
  BY DEF PlaysKeys
<1>1. \/ r = q
      \/ note \in q.scale /\ (r = s \/ (r = u /\ q.amode # "STEP"))
  <2>1. r = IF note \notin q.scale THEN q ELSE IF q.amode = "STEP" THEN s ELSE u
    BY <1>0 DEF PartNoteOn
  <2> HIDE DEF r, s, u
  <2> QED
    BY <2>1
<1>2. CASE r = q
  BY <1>2 DEF Known
<1>3. CASE note \in q.scale /\ (r = s \/ (r = u /\ q.amode # "STEP"))
  <2>1. q.pressed \in KeyStacks /\ NotesOf(q.pressed) \cup {note} \subseteq K
    BY <1>3 DEF PartOK, Voiced, Parts, HasKeysOf
  <2>2. /\ NotesOf(keys) \subseteq NotesOf(q.pressed) \cup {note}
        /\ \A i \in DOMAIN keys : \/ keys[i] = [note |-> note, flagged |-> FALSE]
                                  \/ \E j \in DOMAIN q.pressed : keys[i] = q.pressed[j]
    BY <2>1, PlayedElements
  <2>3. Cardinality(K) <= KeyCapacity => NotesOf(keys) = NotesOf(q.pressed) \cup {note}
    BY <2>1, PlayedFits
  <2>4. KeysMoved(q, u) /\ u.pressed = keys
    BY PressKeyMoved
  <2>5. Covering(q) /\ Covered(q) => Covered(s)
    BY <1>3, KeyOnCovers
  <2> HIDE DEF keys, u, r
  <2>6. s.pressed = u.pressed /\ s.ignore = u.ignore /\ NotesOn(s) \subseteq NotesOn(u) \cup {note}
    BY <2>4, NoteOnMoved DEF KeysMoved, Moved
  <2> HIDE DEF s
  <2>7. r.pressed = keys /\ r.ignore = q.ignore /\ NotesOn(r) \subseteq NotesOn(q) \cup {note}
    BY <1>3, <2>4, <2>6 DEF KeysMoved
  <2>8. Moved(q, r)
    BY PartNoteOnMoved DEF r
  <2>9. r.amode = q.amode /\ (Covering(r) <=> Covering(q))
    BY <2>8, MovedCovering DEF Moved, SameSettings
  <2>10. r.amode = "STEP" /\ Covering(r) => Covered(r)
    BY <1>3, <2>5, <2>9 DEF HasKeysOf
  <2>11. HasKeysOf(r, K)
    BY <2>1, <2>2, <2>7, <2>3, <2>10 DEF HasKeysOf
  <2>12. ASSUME NEW H, NEW F, Known(q, H, F) PROVE Known(r, H \cup {note}, F)
    <3>1. ASSUME NEW i \in DOMAIN keys
          PROVE  IF keys[i].flagged THEN keys[i].note \in F ELSE keys[i].note \in H \cup {note}
      BY <2>2, <2>12 DEF Known
    <3> QED
      BY <2>7, <3>1 DEF Known
  <2> QED
    BY <2>7, <2>11, <2>12 DEF r
<1> QED
  BY <1>1, <1>2, <1>3

LEMMA PartNoteOffRemembers ==
  ASSUME NEW q, PartOK(q), Tellable(q), PlaysKeys(q), NEW note \in Notes,
         NEW K, K \subseteq q.scale, HasKeysOf(q, K)
  PROVE  LET r == PartNoteOff(q, note)
         IN  /\ HasKeysOf(r, K) /\ r.ignore = q.ignore
             /\ \A H, F : Known(q, H, F) =>
                  Known(r, H \ {note}, IF q.ignore THEN F \cup {note} ELSE F \ {note})
<1> DEFINE u == [q EXCEPT !.pressed = Without(@, note)]
           f == [q EXCEPT !.pressed = Flagged(@, note)]
           s == InternalNoteOff(u, note)
           r == PartNoteOff(q, note)
<1>0. q \in Parts /\ q.pressed \in KeyStacks
  BY DEF PartOK, Voiced, Parts
<1>1. \/ note \notin q.scale /\ r = q
      \/ q.ignore /\ r = f
      \/ ~q.ignore /\ r = s
  BY DEF PartNoteOff, PlaysKeys, IsLatched
<1>2. KeysMoved(q, u) /\ KeysMoved(q, f)
  BY KeyGoneMoved
<1>3. u.pressed = Without(q.pressed, note) /\ f.pressed = Flagged(q.pressed, note)
  BY <1>0 DEF Parts
<1> HIDE DEF u, f
<1>4. s.pressed = u.pressed /\ s.ignore = u.ignore /\ NotesOn(s) \subseteq NotesOn(u) \ {note}
  BY <1>2, NoteOffMoved DEF KeysMoved, Moved
<1>5. Covered(q) => Covered(s)
  BY KeyOffCovers DEF s, u
<1> HIDE DEF s
<1>6. Moved(q, r)
  BY PartNoteOffMoved
<1> HIDE DEF r
<1>7. r.amode = q.amode /\ (Covering(r) <=> Covering(q))
  BY <1>6, MovedCovering DEF Moved, SameSettings
<1>8. CASE note \notin q.scale /\ r = q
  <2>1. \A i \in DOMAIN q.pressed : q.pressed[i].note # note
    BY <1>8 DEF HasKeysOf, NotesOf
  <2>2. ASSUME NEW H, NEW F, Known(q, H, F)
        PROVE  Known(q, H \ {note}, IF q.ignore THEN F \cup {note} ELSE F \ {note})
    BY <2>1, <2>2 DEF Known
  <2> QED
    BY <1>8, <2>2 DEF r
<1>9. CASE q.ignore /\ r = f
  <2> DEFINE keys == q.pressed
  <2>0. keys \in KeyStacks /\ f.pressed = Flagged(keys, note)
    BY <1>0, <1>3
  <2> HIDE DEF keys
  <2>1. /\ NotesOf(f.pressed) = NotesOf(keys) /\ DOMAIN f.pressed = DOMAIN keys
        /\ \A i \in DOMAIN keys :
             /\ f.pressed[i].note = keys[i].note
             /\ f.pressed[i].flagged <=> keys[i].flagged \/ keys[i].note = note
    <3> DEFINE x == Flagged(keys, note)
    <3>1. /\ NotesOf(x) = NotesOf(keys) /\ DOMAIN x = DOMAIN keys
          /\ \A i \in DOMAIN keys :
               /\ x[i].note = keys[i].note
               /\ x[i].flagged <=> keys[i].flagged \/ keys[i].note = note
      BY <2>0, FlaggedStack
    <3> HIDE DEF x
    <3>2. f.pressed = x
      BY <2>0 DEF x
    <3> QED
      BY <3>1, <3>2
  <2>2. Covered(q) => Covered(f)
    <3>1. /\ SameVoices(q, f) /\ Len(q.mono) \in Nat
          /\ DOMAIN keys = 1..Len(keys) /\ Len(keys) \in Nat
          /\ DOMAIN f.pressed = 1..Len(f.pressed) /\ Len(f.pressed) \in Nat
      <4> DEFINE D == [note : Notes]
                 E == [note : Notes, flagged : BOOLEAN]
      <4>1. q.mono \in Stacks(D) /\ keys \in Stacks(E) /\ f.pressed \in Stacks(E)
        BY <1>0, <1>2, <2>0 DEF KeysMoved, Moved, PartOK, Voiced, Parts, NoteLists, KeyStacks
      <4> HIDE DEF D, E
      <4> QED
        BY <1>2, <4>1, StackElements DEF KeysMoved
    <3>2. Len(f.pressed) = Len(keys)
      BY <2>1, <3>1
    <3> QED
      BY <2>1, <3>1, <3>2, CoveredFrame DEF keys
  <2>3. HasKeysOf(f, K) /\ f.ignore = q.ignore
    BY <1>2, <1>7, <1>9, <2>1, <2>2 DEF KeysMoved, HasKeysOf, keys
  <2>4. ASSUME NEW H, NEW F, Known(q, H, F)
        PROVE  Known(f, H \ {note}, F \cup {note})
    BY <2>1, <2>4 DEF Known, keys
  <2> QED
    BY <1>9, <2>3, <2>4 DEF r
<1>10. CASE ~q.ignore /\ r = s
  <2>1. /\ NotesOf(u.pressed) = NotesOf(q.pressed) \ {note}
        /\ \A i \in DOMAIN u.pressed : \E j \in DOMAIN q.pressed : u.pressed[i] = q.pressed[j]
    BY <1>0, <1>3, WithoutKey
  <2>2. HasKeysOf(s, K) /\ s.ignore = q.ignore
    BY <1>2, <1>4, <1>10, <1>5, <1>7, <2>1 DEF KeysMoved, HasKeysOf
  <2>3. ASSUME NEW H, NEW F, Known(q, H, F)
        PROVE  Known(s, H \ {note}, F \ {note})
    <3>1. \A i \in DOMAIN u.pressed : u.pressed[i].note # note
      BY <2>1 DEF NotesOf
    <3> QED
      BY <1>4, <2>1, <2>3, <3>1 DEF Known
  <2> QED
    BY <1>10, <2>2, <2>3 DEF r
<1> QED
  BY <1>1, <1>8, <1>9, <1>10

\* The pedal's release leaves no key flagged.
LEMMA PedalUpMoved ==
  ASSUME NEW q, PartOK(q), Tellable(q), NEW order \in SetToSeqs(FlaggedNotes(q))
  PROVE  LET r == PedalUp(q, order)
         IN  Moved(q, r) /\ (Tracked(q) => Tracked(r)) /\ (Dormant(q) => Dormant(r))
<1> DEFINE u == [q EXCEPT !.ignore = FALSE]
           S == {r \in Parts : /\ Moved(u, r)
                               /\ Tracked(u) => Tracked(r)
                               /\ Dormant(u) => Dormant(r)}
           r == CallForEach(u, "NoteOff", order)
<1>1. /\ Moved(q, u) /\ NotesOn(u) = NotesOn(q) /\ u.pressed = q.pressed
      /\ u.prev = q.prev /\ u.out = q.out
  <2>1. FALSE \in BOOLEAN
    OBVIOUS
  <2> QED
    BY <2>1, SetOtherMoved
<1>2. PedalUp(q, order) = r
  BY DEF PedalUp
<1> HIDE DEF u
<1>3. u \in S
  <2>1. Moved(u, u) /\ u \in Parts
    BY <1>1, NotMoved DEF Moved, PartOK, Voiced
  <2> QED
    BY <2>1
<1>4. ASSUME NEW s \in S, NEW i \in 1..Len(order) PROVE Call(s, "NoteOff", order[i]) \in S
  <2> DEFINE t == PartNoteOff(s, order[i])
  <2>1. order[i] \in Notes
    BY PedalUpNotes
  <2>2. Moved(s, t) /\ (Tracked(s) => Tracked(t)) /\ (Dormant(s) => Dormant(t))
    BY <2>1, PartNoteOffMoved DEF Moved
  <2> HIDE DEF t
  <2>3. Moved(u, t) /\ t \in Parts
    BY <2>2, MovedTwice DEF Moved, PartOK, Voiced
  <2>4. t \in S
    BY <2>2, <2>3
  <2> HIDE DEF S
  <2> QED
    BY <2>4 DEF t, Call
<1>5. r \in S
  <2> HIDE DEF S
  <2> QED
    BY <1>3, <1>4, PedalUpNotes, CallForEachKeeps
<1> HIDE DEF r
<1>6. Moved(q, r)
  BY <1>1, <1>5, MovedTwice
<1>7. (Tracked(q) => Tracked(u)) /\ (Dormant(q) => Dormant(u))
  BY <1>1 DEF Moved, SameSettings, Tracked, Dormant, Generates
<1> QED
  BY <1>2, <1>5, <1>6, <1>7

LEMMA PedalUpRemembers ==
  ASSUME NEW q, PartOK(q), Tellable(q), PlaysKeys(q),
         NEW order \in SetToSeqs(FlaggedNotes(q)),
         NEW K, K \subseteq q.scale, HasKeysOf(q, K), NEW H, NEW F, Known(q, H, F)
  PROVE  LET r == PedalUp(q, order)
         IN  HasKeysOf(r, K) /\ Known(r, H, {}) /\ ~r.ignore
<1> DEFINE u == [q EXCEPT !.ignore = FALSE]
           L == Len(order)
           After(i) == {order[j] : j \in (i + 1)..L}
           S == [i \in 0..L |-> {r \in Parts : /\ Moved(u, r) /\ HasKeysOf(r, K) /\ ~r.ignore
                                               /\ Known(r, H, After(i))}]
<1>1. /\ Moved(q, u) /\ SameVoices(q, u) /\ NotesOn(u) = NotesOn(q)
      /\ u.pressed = q.pressed /\ u.ignore = FALSE
  <2>1. FALSE \in BOOLEAN
    OBVIOUS
  <2> QED
    BY <2>1, SetOtherMoved
<1>2. PedalUp(q, order) = CallForEach(u, "NoteOff", order)
  BY DEF PedalUp
<1> HIDE DEF u
<1>3. L \in Nat /\ \A i \in 1..L : order[i] \in Notes
  BY PedalUpNotes
<1>4. After(0) = FlaggedNotes(q) /\ After(L) = {}
  BY <1>3, PedalUpNotes
<1>5. \A i \in 1..L : After(i - 1) \subseteq After(i) \cup {order[i]}
  BY <1>3
<1> HIDE DEF After
<1>6. u \in S[0]
  <2>1. Moved(u, u) /\ u \in Parts
    BY <1>1, NotMoved DEF Moved, PartOK, Voiced
  <2>2. HasKeysOf(u, K)
    BY <1>1, SameKeys DEF Moved, SameSettings
  <2>3. Known(u, H, FlaggedNotes(q))
    BY <1>1 DEF Known, FlaggedNotes
  <2>4. 0 \in 0..L
    BY <1>3
  <2> QED
    BY <1>1, <1>4, <2>1, <2>2, <2>3, <2>4
<1>7. ASSUME NEW i \in 1..L, NEW s \in S[i - 1] PROVE Call(s, "NoteOff", order[i]) \in S[i]
  <2> DEFINE t == PartNoteOff(s, order[i])
  <2>1. i - 1 \in 0..L /\ i \in 0..L
    BY <1>3
  <2>2. /\ s \in Parts /\ Moved(u, s) /\ HasKeysOf(s, K) /\ ~s.ignore
        /\ Known(s, H, After(i - 1))
    BY <1>7, <2>1
  <2>3. PartOK(s) /\ Tellable(s) /\ PlaysKeys(s) /\ K \subseteq s.scale
    BY <1>1, <2>2 DEF Moved, SameSettings, PlaysKeys
  <2>4. Moved(s, t)
    BY <1>3, <2>3, PartNoteOffMoved
  <2>5. /\ HasKeysOf(t, K) /\ t.ignore = s.ignore
        /\ Known(t, H \ {order[i]}, IF s.ignore THEN After(i - 1) \cup {order[i]}
                                    ELSE After(i - 1) \ {order[i]})
    BY <1>3, <2>2, <2>3, PartNoteOffRemembers
  <2> HIDE DEF t
  <2>6. Known(t, H, After(i))
    BY <1>5, <2>2, <2>5 DEF Known
  <2>7. Moved(u, t) /\ t \in Parts
    BY <2>2, <2>4, MovedTwice DEF Moved, PartOK, Voiced
  <2>8. t \in S[i]
    BY <2>1, <2>2, <2>5, <2>6, <2>7
  <2> HIDE DEF S
  <2> QED
    BY <2>8 DEF t, Call
<1>8. CallForEach(u, "NoteOff", order) \in S[L]
  <2> HIDE DEF S
  <2> QED
    BY <1>3, <1>6, <1>7, CallForEachReaches
<1>9. L \in 0..L
  BY <1>3
<1> QED
  BY <1>2, <1>4, <1>8, <1>9

-----------------------------------------------------------------------------
\* The chain stays in step when the keys play the notes.
LEMMA ChainedFrame ==
  ASSUME NEW q, NEW r, SameVoices(q, r), r.chain = q.chain
  PROVE  Chained(r) <=> Chained(q)
<1>1. NotesOn(r) = NotesOn(q)
  BY DEF NotesOn, IsMono, SameVoices
<1>2. FarNotes(r) = FarNotes(q) /\ \A n : GivenSooner(r, n) = GivenSooner(q, n)
  BY <1>1 DEF FarNotes, FarSlots, LocalSlots, GivenSooner, SameVoices
<1> QED
  BY <1>2 DEF Chained

LEMMA NothingChained ==
  ASSUME NEW q, PartOK(q), q.pmode = "CHAIN", NotesOn(q) = {}, q.chain = <<>>
  PROVE  Chained(q)
<1>1. FarNotes(q) = {}
  BY ChainSlots
<1>2. NotesOf(q.chain) = {}
  <2>1. DOMAIN <<>> = {}
    OBVIOUS
  <2> QED
    BY <2>1 DEF NotesOf
<1> QED
  BY <1>1, <1>2 DEF Chained

\* The part chains the notes of its keys to a unit of as many voices.
ChainsKeys(q) == q.pmode = "CHAIN" /\ q.amode = "STEP" /\ NextVoices = q.num

LEMMA PartNoteOnChains ==
  ASSUME NEW q, PartOK(q), Tellable(q), ChainsKeys(q), Chained(q), NEW note \in Notes
  PROVE  Chained(PartNoteOn(q, note))
<1> DEFINE u == PressKey(q, note)
<1>1. KeysMoved(q, u)
  BY PressKeyMoved
<1>2. PartNoteOn(q, note) = IF note \notin q.scale THEN q ELSE InternalNoteOn(u, note)
  BY DEF PartNoteOn, ChainsKeys
<1> HIDE DEF u
<1>3. /\ PartOK(u) /\ Chained(u) /\ u.pmode = "CHAIN" /\ NextVoices = u.num
  BY <1>1, ChainedFrame DEF KeysMoved, Moved, SameSettings, ChainsKeys
<1>4. Chained(InternalNoteOn(u, note))
  BY <1>3, NoteOnChains
<1> QED
  BY <1>2, <1>4

LEMMA PartNoteOffChains ==
  ASSUME NEW q, PartOK(q), Tellable(q), ChainsKeys(q), Chained(q), NEW note \in Notes
  PROVE  Chained(PartNoteOff(q, note))
<1> DEFINE u == [q EXCEPT !.pressed = Without(@, note)]
           f == [q EXCEPT !.pressed = Flagged(@, note)]
           s == InternalNoteOff(u, note)
           r == PartNoteOff(q, note)
<1>1. r = q \/ r = f \/ r = s
  BY DEF PartNoteOff, ChainsKeys
<1>2. KeysMoved(q, u) /\ KeysMoved(q, f)
  BY KeyGoneMoved
<1> HIDE DEF u, f, r
<1>3. PartOK(u) /\ Tellable(u) /\ Chained(u) /\ Chained(f) /\ u.pmode = "CHAIN"
  BY <1>2, ChainedFrame DEF KeysMoved, Moved, ChainsKeys
<1>4. Chained(s)
  BY <1>3, NoteOffChains
<1> QED
  BY <1>1, <1>3, <1>4 DEF r

LEMMA PedalUpChains ==
  ASSUME NEW q, PartOK(q), Tellable(q), ChainsKeys(q), Chained(q),
         NEW order \in SetToSeqs(FlaggedNotes(q))
  PROVE  Chained(PedalUp(q, order))
<1> DEFINE u == [q EXCEPT !.ignore = FALSE]
           S == {r \in Parts : Moved(u, r) /\ Chained(r)}
           r == CallForEach(u, "NoteOff", order)
<1>1. Moved(q, u) /\ SameVoices(q, u) /\ u.chain = q.chain
  <2>1. FALSE \in BOOLEAN
    OBVIOUS
  <2> QED
    BY <2>1, SetOtherMoved
<1>2. PedalUp(q, order) = r
  BY DEF PedalUp
<1> HIDE DEF u
<1>3. u \in S
  <2>1. Moved(u, u) /\ u \in Parts /\ Chained(u)
    BY <1>1, NotMoved, ChainedFrame DEF Moved, PartOK, Voiced
  <2> QED
    BY <2>1
<1>4. ASSUME NEW s \in S, NEW i \in 1..Len(order) PROVE Call(s, "NoteOff", order[i]) \in S
  <2> DEFINE t == PartNoteOff(s, order[i])
  <2>1. order[i] \in Notes
    BY PedalUpNotes
  <2>2. PartOK(s) /\ Tellable(s) /\ ChainsKeys(s) /\ Chained(s) /\ Moved(u, s)
    BY <1>1 DEF Moved, SameSettings, ChainsKeys
  <2>3. Moved(s, t) /\ Chained(t)
    BY <2>1, <2>2, PartNoteOffMoved, PartNoteOffChains
  <2> HIDE DEF t
  <2>4. Moved(u, t) /\ t \in Parts
    BY <2>2, <2>3, MovedTwice DEF Moved, PartOK, Voiced
  <2>5. t \in S
    BY <2>3, <2>4
  <2> HIDE DEF S
  <2> QED
    BY <2>5 DEF t, Call
<1>5. r \in S
  <2> HIDE DEF S
  <2> QED
    BY <1>3, <1>4, PedalUpNotes, CallForEachKeeps
<1> QED
  BY <1>2, <1>5

-----------------------------------------------------------------------------
\* The steps of the clock.
LEMMA SetPrevMoved ==
  ASSUME NEW q, NEW r, Moved(q, r), NEW x \in GeneratedNotes
  PROVE  LET s == [r EXCEPT !.prev = x]
         IN  /\ Moved(q, s) /\ NotesOn(s) = NotesOn(r) /\ s.prev = x
             /\ s.pressed = r.pressed /\ s.ignore = r.ignore /\ s.out = r.out
<1> DEFINE s == [r EXCEPT !.prev = x]
<1>1. /\ Moved(r, s) /\ NotesOn(s) = NotesOn(r) /\ s.prev = x
      /\ s.pressed = r.pressed /\ s.ignore = r.ignore /\ s.out = r.out
  BY SetOtherMoved DEF Moved
<1> HIDE DEF s
<1> QED
  BY <1>1, MovedTwice DEF s

LEMMA StepNoteSequenceMoved ==
  ASSUME NEW q, PartOK(q), Tellable(q), NEW gate, NEW legato, NEW note \in Notes,
         q.amode = "NOTE", q.pressed # <<>>
  PROVE  LET r == StepNoteSequence(q, gate, legato, note)
         IN  Moved(q, r) /\ r.pressed = q.pressed /\ (Tracked(q) => Tracked(r))
<1> DEFINE a == InternalNoteOff(q, q.prev)
           b == InternalNoteOn(a, note)
           c == InternalNoteOn(q, note)
           d == InternalNoteOff(c, q.prev)
           r == StepNoteSequence(q, gate, legato, note)
<1>0. SUFFICES Moved(q, r) /\ r.pressed = q.pressed /\ (Tracked(q) => Tracked(r))
  OBVIOUS
<1>1. NoNote \in GeneratedNotes /\ note \in GeneratedNotes
  BY DEF GeneratedNotes
<1>2. \/ r = [a EXCEPT !.prev = NoNote]
      \/ r = [b EXCEPT !.prev = note]
      \/ r = q
      \/ r = [d EXCEPT !.prev = note]
  BY DEF StepNoteSequence
<1>3. /\ Moved(q, a) /\ NotesOn(a) \subseteq NotesOn(q) \ {q.prev} /\ a.out = q.out \ {q.prev}
      /\ a.pressed = q.pressed
  BY NoteOffMoved
<1>4. /\ Moved(q, c) /\ NotesOn(c) \subseteq NotesOn(q) \cup {note}
      /\ c.out \subseteq q.out \cup {note} /\ c.pressed = q.pressed
  BY NoteOnMoved
<1> HIDE DEF a, c, r
<1>5. /\ Moved(a, b) /\ NotesOn(b) \subseteq NotesOn(a) \cup {note}
      /\ b.out \subseteq a.out \cup {note} /\ b.pressed = a.pressed
  BY <1>3, NoteOnMoved DEF Moved
<1>6. /\ Moved(c, d) /\ NotesOn(d) \subseteq NotesOn(c) \ {q.prev} /\ d.out = c.out \ {q.prev}
      /\ d.pressed = c.pressed
  BY <1>4, NoteOffMoved DEF Moved
<1> HIDE DEF b, d
<1>7. ASSUME NEW s, Moved(q, s), NEW x \in GeneratedNotes, r = [s EXCEPT !.prev = x],
             s.pressed = q.pressed,
             Tracked(q) => /\ NotesOn(s) \subseteq {x}
                           /\ q.dir = "LINE" => s.out \subseteq {x}
      PROVE  Moved(q, r) /\ r.pressed = q.pressed /\ (Tracked(q) => Tracked(r))
  <2>1. /\ Moved(q, r) /\ NotesOn(r) = NotesOn(s) /\ r.prev = x
        /\ r.pressed = s.pressed /\ r.out = s.out
    BY <1>7, SetPrevMoved
  <2> QED
    BY <1>7, <2>1 DEF Moved, SameSettings, Tracked, Generates
<1>8. ASSUME Tracked(q)
      PROVE  NotesOn(q) \subseteq {q.prev} /\ (q.dir = "LINE" => q.out \subseteq {q.prev})
  BY <1>8 DEF Tracked, Generates
<1>9. CASE r = [a EXCEPT !.prev = NoNote]
  BY <1>1, <1>3, <1>7, <1>8, <1>9
<1>10. CASE r = [b EXCEPT !.prev = note]
  <2>1. Moved(q, b)
    BY <1>3, <1>5, MovedTwice
  <2> QED
    BY <1>1, <1>3, <1>5, <1>7, <1>8, <1>10, <2>1
<1>11. CASE r = q
  BY <1>11, NotMoved
<1>12. CASE r = [d EXCEPT !.prev = note]
  <2>1. Moved(q, d)
    BY <1>4, <1>6, MovedTwice
  <2> QED
    BY <1>1, <1>4, <1>6, <1>7, <1>8, <1>12, <2>1
<1> QED
  BY <1>2, <1>9, <1>10, <1>11, <1>12

LEMMA ChordMoved ==
  ASSUME NEW q, PartOK(q), Tellable(q), NEW what \in {"InternalNoteOn", "InternalNoteOff"}
  PROVE  LET r == CallForEach(q, what, Ascending(q.pressed))
         IN  /\ Moved(q, r) /\ NotesOn(r) \subseteq NotesOn(q) \cup NotesOf(q.pressed)
             /\ r.pressed = q.pressed /\ r.ignore = q.ignore
<1> DEFINE chord == Ascending(q.pressed)
           S == {r \in Parts : /\ Moved(q, r)
                               /\ NotesOn(r) \subseteq NotesOn(q) \cup NotesOf(q.pressed)
                               /\ r.pressed = q.pressed /\ r.ignore = q.ignore}
<1>1. /\ Len(chord) \in Nat
      /\ \A i \in 1..Len(chord) : chord[i] \in NotesOf(q.pressed) \cap Notes
  <2>1. q.pressed \in KeyStacks
    BY DEF PartOK, Voiced, Parts
  <2> QED
    BY <2>1, AscendingNotes
<1> HIDE DEF chord
<1>2. q \in S
  <2>1. Moved(q, q) /\ q \in Parts
    BY NotMoved DEF PartOK, Voiced
  <2> QED
    BY <2>1
<1>3. ASSUME NEW s \in S, NEW i \in 1..Len(chord) PROVE Call(s, what, chord[i]) \in S
  <2> DEFINE n == chord[i]
             t == Call(s, what, n)
  <2>1. n \in NotesOf(q.pressed) /\ n \in Notes
    BY <1>1
  <2> HIDE DEF n
  <2>2. t = InternalNoteOn(s, n) \/ t = InternalNoteOff(s, n)
    BY DEF Call
  <2> HIDE DEF t
  <2>3. /\ Moved(s, t) /\ NotesOn(t) \subseteq NotesOn(s) \cup {n}
        /\ t.pressed = s.pressed /\ t.ignore = s.ignore
    BY <2>1, <2>2, NoteOnMoved, NoteOffMoved DEF Moved
  <2>4. Moved(q, t) /\ t \in Parts
    BY <2>3, MovedTwice DEF Moved, PartOK, Voiced
  <2>5. t \in S
    BY <2>1, <2>3, <2>4
  <2> QED
    BY <2>5 DEF t, n
<1>4. CallForEach(q, what, chord) \in S
  <2> HIDE DEF S
  <2> QED
    BY <1>1, <1>2, <1>3, CallForEachKeeps
<1> QED
  BY <1>4 DEF chord

LEMMA StepArpeggiatorMoved ==
  ASSUME NEW q, PartOK(q), Tellable(q), NEW hit, NEW note, q.pressed # <<>> => note \in Notes
  PROVE  LET r == StepArpeggiator(q, hit, note)
         IN  /\ Moved(q, r) /\ r.pressed = q.pressed /\ r.ignore = q.ignore
             /\ Tracked(q) => Tracked(r)
             /\ PlaysKeys(q) => NotesOn(r) \subseteq NotesOn(q) \cup NotesOf(q.pressed)
             /\ q.amode \in {"ARPEGGIATOR", "LATCH"} /\ q.dir = "LINE" /\ Tracked(q) =>
                  NotesOn(r) \subseteq IF q.pressed = <<>> THEN {} ELSE {note}
<1> DEFINE a == InternalNoteOff(q, q.prev)
           b == InternalNoteOn(a, note)
           c == CallForEach(q, "InternalNoteOn", Ascending(q.pressed))
           d == CallForEach(q, "InternalNoteOff", Ascending(q.pressed))
           r == StepArpeggiator(q, hit, note)
<1>1. NoNote \in GeneratedNotes /\ kAnyNote \in GeneratedNotes
      /\ (q.pressed # <<>> => note \in GeneratedNotes)
  BY DEF GeneratedNotes
<1>2. \/ q.amode \notin {"ARPEGGIATOR", "LATCH", "CHORD"} /\ r = q
      \/ q.amode # "STEP" /\ q.dir = "LINE" /\ q.pressed # <<>> /\ r = [b EXCEPT !.prev = note]
      \/ q.amode # "STEP" /\ q.dir = "LINE" /\ r = [a EXCEPT !.prev = NoNote]
      \/ q.dir # "LINE" /\ q.amode # "STEP" /\ q.amode # "NOTE"
         /\ \/ r = [c EXCEPT !.prev = kAnyNote]
            \/ r = [d EXCEPT !.prev = NoNote]
            \/ r = q
  BY DEF StepArpeggiator
<1> DEFINE Done == /\ Moved(q, r) /\ r.pressed = q.pressed /\ r.ignore = q.ignore
                   /\ Tracked(q) => Tracked(r)
                   /\ PlaysKeys(q) => NotesOn(r) \subseteq NotesOn(q) \cup NotesOf(q.pressed)
                   /\ q.amode \in {"ARPEGGIATOR", "LATCH"} /\ q.dir = "LINE" /\ Tracked(q) =>
                        NotesOn(r) \subseteq IF q.pressed = <<>> THEN {} ELSE {note}
<1>3. SUFFICES Done
  OBVIOUS
<1>4. /\ Moved(q, a) /\ NotesOn(a) \subseteq NotesOn(q) \ {q.prev} /\ a.out = q.out \ {q.prev}
      /\ a.pressed = q.pressed /\ a.ignore = q.ignore
  BY NoteOffMoved
<1>5. /\ Moved(q, c) /\ NotesOn(c) \subseteq NotesOn(q) \cup NotesOf(q.pressed)
      /\ c.pressed = q.pressed /\ c.ignore = q.ignore
  BY ChordMoved
<1>6. /\ Moved(q, d) /\ NotesOn(d) \subseteq NotesOn(q) \cup NotesOf(q.pressed)
      /\ d.pressed = q.pressed /\ d.ignore = q.ignore
  BY ChordMoved
<1> HIDE DEF a, c, d, r
<1>7. CASE q.amode \notin {"ARPEGGIATOR", "LATCH", "CHORD"} /\ r = q
  BY <1>7, NotMoved
<1>8. CASE q.amode # "STEP" /\ q.dir = "LINE" /\ q.pressed # <<>> /\ r = [b EXCEPT !.prev = note]
  <2>1. /\ Moved(a, b) /\ NotesOn(b) \subseteq NotesOn(a) \cup {note}
        /\ b.out \subseteq a.out \cup {note} /\ b.pressed = a.pressed /\ b.ignore = a.ignore
    BY <1>4, <1>8, NoteOnMoved DEF Moved
  <2> HIDE DEF b
  <2>2. Moved(q, b)
    BY <1>4, <2>1, MovedTwice
  <2>3. /\ Moved(q, r) /\ NotesOn(r) = NotesOn(b) /\ r.prev = note
        /\ r.pressed = b.pressed /\ r.ignore = b.ignore /\ r.out = b.out
    BY <1>1, <1>8, <2>2, SetPrevMoved
  <2> QED
    BY <1>4, <1>8, <2>1, <2>3 DEF Moved, SameSettings, Tracked, Generates, PlaysKeys
<1>9. CASE q.amode # "STEP" /\ q.dir = "LINE" /\ r = [a EXCEPT !.prev = NoNote]
  <2>1. /\ Moved(q, r) /\ NotesOn(r) = NotesOn(a) /\ r.prev = NoNote
        /\ r.pressed = a.pressed /\ r.ignore = a.ignore /\ r.out = a.out
    BY <1>1, <1>4, <1>9, SetPrevMoved
  <2> QED
    BY <1>4, <1>9, <2>1 DEF Moved, SameSettings, Tracked, Generates, PlaysKeys
<1>10. ASSUME q.dir # "LINE", q.amode # "STEP", q.amode # "NOTE", NEW s, Moved(q, s),
              NotesOn(s) \subseteq NotesOn(q) \cup NotesOf(q.pressed),
              s.pressed = q.pressed, s.ignore = q.ignore, NEW x \in GeneratedNotes,
              r = [s EXCEPT !.prev = x]
       PROVE  Done
  <2>1. /\ Moved(q, r) /\ NotesOn(r) = NotesOn(s)
        /\ r.pressed = s.pressed /\ r.ignore = s.ignore
    BY <1>10, SetPrevMoved
  <2> QED
    BY <1>10, <2>1 DEF Moved, SameSettings, Tracked, Generates
<1>11. CASE r = q /\ q.dir # "LINE"
  BY <1>11, NotMoved
<1> QED
  BY <1>1, <1>2, <1>5, <1>6, <1>7, <1>8, <1>9, <1>10, <1>11

LEMMA StepChordSequenceMoved ==
  ASSUME NEW q, PartOK(q), Tellable(q), NEW chord \in Seq(Notes)
  PROVE  Moved(q, StepChordSequence(q, chord))
<1> DEFINE u == AllNotesOff(q)
           S == {r \in Parts : Moved(u, r)}
<1>1. Moved(q, u)
  <2>1. CASE q.ignore
    BY <2>1, NotMoved DEF AllNotesOff
  <2>2. CASE ~q.ignore
    BY <2>2, AllNotesOffQuiets
  <2> QED
    BY <2>1, <2>2
<1> HIDE DEF u
<1>2. Len(chord) \in Nat /\ \A i \in 1..Len(chord) : chord[i] \in Notes
  OBVIOUS
<1>3. u \in S
  <2>1. Moved(u, u) /\ u \in Parts
    BY <1>1, NotMoved DEF Moved, PartOK, Voiced
  <2> QED
    BY <2>1
<1>4. ASSUME NEW s \in S, NEW i \in 1..Len(chord) PROVE Call(s, "PressKey", chord[i]) \in S
  <2> DEFINE t == PressKey(s, chord[i])
  <2>1. Moved(s, t)
    BY <1>2, PressKeyMoved DEF KeysMoved, Moved
  <2> HIDE DEF t
  <2>2. Moved(u, t) /\ t \in Parts
    BY <2>1, MovedTwice DEF Moved, PartOK, Voiced
  <2> QED
    BY <2>2 DEF t, Call
<1>5. CallForEach(u, "PressKey", chord) \in S
  <2> HIDE DEF S
  <2> QED
    BY <1>2, <1>3, <1>4, CallForEachKeeps
<1>6. StepChordSequence(q, chord) = CallForEach(u, "PressKey", chord)
  BY DEF StepChordSequence, u
<1> DEFINE r == CallForEach(u, "PressKey", chord)
<1>7. Moved(u, r)
  BY <1>5
<1> HIDE DEF r
<1>8. Moved(q, r)
  BY <1>1, <1>7, MovedTwice
<1> QED
  BY <1>6, <1>8 DEF r

\* The note a key is transposed to by an arpeggio.
Arpeggiated(q) == {n + t : n \in NotesOf(q.pressed), t \in setup.octaves}

\* A step of the clock leaves the keys alone that are played directly; a step of the
\* arpeggiator leaves on the note it has played.
LEMMA ClockMoved ==
  ASSUME PartOK(p), Tellable(p), setup \in Setups, p.amode = p.seen, Clock
  PROVE  /\ Moved(p, p')
         /\ Tracked(p) => Tracked(p')
         /\ PlaysKeys(p) => /\ p'.pressed = p.pressed /\ p'.ignore = p.ignore
                            /\ NotesOn(p') \subseteq NotesOn(p) \cup NotesOf(p.pressed)
         /\ p.amode = "STEP" => p' = p
         /\ p.amode \in {"ARPEGGIATOR", "LATCH"} /\ p.dir = "LINE" /\ Tracked(p) =>
              NotesOn(p') \subseteq Arpeggiated(p')
<1>1. PICK r \in SequencerSteps(p), hit \in BOOLEAN :
        \E note \in ArpeggioNotes(r) : p' = StepArpeggiator(r, hit, note)
  BY DEF Clock
<1>2. PICK note \in ArpeggioNotes(r) : p' = StepArpeggiator(r, hit, note)
  BY <1>1
<1>3. /\ Moved(p, r) /\ (Tracked(p) => Tracked(r))
      /\ PlaysKeys(p) \/ p.amode = "LATCH" \/ p.amode = "ARPEGGIATOR" => r = p
  <2>1. CASE r = p
    BY <2>1, NotMoved
  <2>2. ASSUME p.amode = "NOTE", p.pressed # <<>>, NEW gate \in BOOLEAN, NEW legato \in BOOLEAN,
               NEW o \in setup.offsets,
               r = StepNoteSequence(p, gate, legato, Clip(TopOf(p.pressed) + o))
        PROVE  Moved(p, r) /\ (Tracked(p) => Tracked(r))
    <3>1. TopOf(p.pressed) \in Notes
      <4> DEFINE E == [note : Notes, flagged : BOOLEAN]
      <4>1. p.pressed \in Stacks(E) /\ \A e \in E : e.note \in Notes
        BY DEF PartOK, Voiced, Parts, KeyStacks
      <4> HIDE DEF E
      <4>2. Head(p.pressed) \in E
        BY <2>2, <4>1, StackElements
      <4> QED
        BY <2>2, <4>1, <4>2 DEF TopOf
    <3>2. TopOf(p.pressed) + o \in Int
      BY <3>1, SetupFields, MaxNoteAssumption DEF Notes
    <3> QED
      BY <2>2, <3>2, ClipIsNote, StepNoteSequenceMoved
  <2>3. ASSUME p.amode = "CHORD", NEW c \in setup.chords, r = StepChordSequence(p, c)
        PROVE  Moved(p, r) /\ Tracked(r)
    <3>1. Moved(p, r)
      BY <2>3, SetupFields, StepChordSequenceMoved
    <3> QED
      BY <2>3, <3>1 DEF Moved, SameSettings, Tracked, Generates
  <2> QED
    BY <1>1, <2>1, <2>2, <2>3 DEF SequencerSteps, PlaysKeys
<1>4. r.pressed # <<>> => note \in Notes /\ note \in Arpeggiated(r)
  BY <1>2 DEF ArpeggioNotes, Arpeggiated
<1>5. /\ Moved(r, p') /\ p'.pressed = r.pressed /\ p'.ignore = r.ignore
      /\ Tracked(r) => Tracked(p')
      /\ PlaysKeys(r) => NotesOn(p') \subseteq NotesOn(r) \cup NotesOf(r.pressed)
      /\ r.amode \in {"ARPEGGIATOR", "LATCH"} /\ r.dir = "LINE" /\ Tracked(r) =>
           NotesOn(p') \subseteq IF r.pressed = <<>> THEN {} ELSE {note}
  BY <1>2, <1>3, <1>4, StepArpeggiatorMoved DEF Moved
<1>6. Moved(p, p')
  BY <1>3, <1>5, MovedTwice
<1>7. ASSUME p.amode \in {"ARPEGGIATOR", "LATCH"}, p.dir = "LINE", Tracked(p)
      PROVE  NotesOn(p') \subseteq Arpeggiated(p')
  <2>1. r = p
    BY <1>3, <1>7
  <2>2. Arpeggiated(p') = Arpeggiated(r)
    BY <1>5 DEF Arpeggiated
  <2> QED
    BY <1>4, <1>5, <1>7, <2>1, <2>2
<1>8. p.amode = "STEP" => p' = p
  BY <1>2, <1>3 DEF PlaysKeys, StepArpeggiator
<1> QED
  BY <1>3, <1>5, <1>6, <1>7, <1>8

-----------------------------------------------------------------------------
\* The inductive invariant on what is on, when the settings are left alone.
Steady == SettingsKept /\ CyclicNotesAreTold

Settled(q) ==
  /\ PartOK(q) /\ Tellable(q)
  /\ q.amode = q.seen /\ q.scale \in setup.scales /\ q.pmode \in setup.pmodes
  /\ q.num \in setup.voices /\ q.amode \in setup.amodes
  /\ "CHAIN" \notin setup.pmodes => q.chain = <<>>

\* The keys that the part can remember.
Playable(q) == range \cap q.scale \cap setup.keys

\* The keys that may be flagged.
Sustained(q) == IF q.ignore THEN Notes ELSE {}

KeysKnown(q, H) == HasKeysOf(q, Playable(q)) /\ Known(q, H, Sustained(q))

\* ChainIsPlayed, said of any part.
Chaining(q) ==
  /\ setup.pmodes = {"CHAIN"} /\ setup.amodes = {"STEP"}
  /\ \A n \in setup.voices : NextVoices = n
  /\ KeysFit \/ Covering(q)

InChain(q) == Chaining(q) => Chained(q)

InOrder(q, H, run) ==
  /\ Settled(q) /\ Tracked(q) /\ InChain(q)
  /\ ~run => Dormant(q)
  /\ PlaysKeys(q) => KeysKnown(q, H)

KeysInv == Steady => InOrder(p, held, running)

LEMMA StartedInOrder ==
  ASSUME NEW q, NEW H, InOrder(q, H, FALSE)
  PROVE  InOrder(Start(q), H, TRUE)
<1> DEFINE r == [q EXCEPT !.prev = NoNote]
<1>1. PartOK(q) /\ Tellable(q) /\ q \in Parts /\ NoNote \in GeneratedNotes
  BY DEF InOrder, Settled, PartOK, Voiced, GeneratedNotes
<1>2. Start(q) = r
  <2>1. q.amode = q.seen
    BY DEF InOrder, Settled
  <2>2. [q EXCEPT !.prev = NoNote, !.seen = q.amode] = r
    BY <1>1, <2>1 DEF Parts
  <2> QED
    BY <2>2 DEF Start
<1>3. /\ Moved(q, r) /\ SameVoices(q, r) /\ NotesOn(r) = NotesOn(q)
      /\ r.pressed = q.pressed /\ r.ignore = q.ignore /\ r.out = q.out /\ r.chain = q.chain
  BY <1>1, SetOtherMoved
<1> HIDE DEF r
<1>4. Settled(r)
  BY <1>3 DEF InOrder, Settled, Moved, SameSettings
<1>5. Tracked(r)
  BY <1>3 DEF InOrder, Moved, SameSettings, Tracked, Dormant, Generates
<1>6. PlaysKeys(r) => KeysKnown(r, H)
  <2>1. (PlaysKeys(r) <=> PlaysKeys(q)) /\ Playable(r) = Playable(q) /\ Sustained(r) = Sustained(q)
        /\ r.amode = q.amode
    BY <1>3 DEF Moved, SameSettings, PlaysKeys, Playable, Sustained
  <2>2. \A K : HasKeysOf(q, K) => HasKeysOf(r, K)
    BY <1>1, <1>3, <2>1, SameKeys
  <2> QED
    BY <1>3, <2>1, <2>2 DEF InOrder, KeysKnown, Known
<1>7. InChain(r)
  <2>1. InChain(q) /\ (Covering(r) <=> Covering(q))
    BY <1>1, <1>3, MovedCovering DEF InOrder
  <2> QED
    BY <1>3, <2>1, ChainedFrame DEF InChain, Chaining
<1> QED
  BY <1>2, <1>4, <1>5, <1>6, <1>7 DEF InOrder

LEMMA MovedSettled ==
  ASSUME NEW q, NEW r, Settled(q), Moved(q, r)
  PROVE  /\ Settled(r) /\ Playable(r) = Playable(q) /\ (PlaysKeys(r) <=> PlaysKeys(q))
         /\ r.ignore = q.ignore => Sustained(r) = Sustained(q)
<1>1. Settled(r)
  BY DEF Settled, Moved, SameSettings
<1>2. Playable(r) = Playable(q) /\ (PlaysKeys(r) <=> PlaysKeys(q))
  BY DEF Moved, SameSettings, Playable, PlaysKeys
<1> QED
  BY <1>1, <1>2 DEF Sustained

LEMMA MovedInChain ==
  ASSUME NEW q, NEW r, Settled(q), InChain(q), Moved(q, r),
         ChainsKeys(q) /\ Chained(q) => Chained(r)
  PROVE  InChain(r)
<1>1. Covering(r) <=> Covering(q)
  BY MovedCovering DEF Settled
<1>2. Chaining(q) => ChainsKeys(q)
  BY DEF Chaining, Settled, ChainsKeys
<1> QED
  BY <1>1, <1>2 DEF InChain, Chaining

\* The keys that fit are those that can be pressed.
LEMMA PlayableFits ==
  ASSUME setup \in Setups, NEW q
  PROVE  /\ Playable(q) \in SUBSET Notes /\ Playable(q) \subseteq q.scale
         /\ KeysFit => Cardinality(Playable(q)) <= KeyCapacity
<1>1. setup.keys \in SUBSET Notes
  BY SetupFields
<1>2. IsFiniteSet(setup.keys) /\ Cardinality(setup.keys) \in Nat
  BY <1>1, NotesAreFinite
<1>3. Playable(q) \in SUBSET setup.keys
  BY DEF Playable
<1>4. Cardinality(Playable(q)) <= Cardinality(setup.keys) /\ Cardinality(Playable(q)) \in Nat
  BY <1>1, <1>2, <1>3, FS_Subset, NotesAreFinite
<1>5. KeysFit => Cardinality(Playable(q)) <= KeyCapacity
  BY <1>2, <1>4, PartOpsAssumption DEF KeysFit
<1> QED
  BY <1>1, <1>3, <1>5 DEF Playable

LEMMA PressInOrder ==
  ASSUME NEW q, NEW H, NEW k, setup \in Setups, InOrder(q, H, TRUE),
         k \in setup.keys, k \in range
  PROVE  InOrder(PartNoteOn(q, k), H \cup {k}, TRUE)
<1> DEFINE r == PartNoteOn(q, k)
<1>1. PartOK(q) /\ Tellable(q) /\ k \in Notes /\ Settled(q)
  BY SetupFields DEF InOrder, Settled
<1>2. Moved(q, r) /\ (Tracked(q) => Tracked(r))
  BY <1>1, PartNoteOnMoved
<1>3. ASSUME PlaysKeys(q)
      PROVE  /\ HasKeysOf(r, Playable(q)) /\ r.ignore = q.ignore
             /\ Known(r, H \cup {k}, Sustained(q))
  <2>1. HasKeysOf(q, Playable(q)) /\ Known(q, H, Sustained(q))
    BY <1>3 DEF InOrder, KeysKnown
  <2>2. k \in q.scale => k \in Playable(q)
    BY DEF Playable
  <2> QED
    BY <1>1, <1>3, <2>1, <2>2, PlayableFits, PartNoteOnRemembers
<1>4. InChain(r)
  <2>1. InChain(q) /\ (ChainsKeys(q) /\ Chained(q) => Chained(r))
    BY <1>1, PartNoteOnChains DEF InOrder
  <2> HIDE DEF r
  <2> QED
    BY <1>1, <1>2, <2>1, MovedInChain
<1> HIDE DEF r
<1>5. Settled(r) /\ (PlaysKeys(r) => KeysKnown(r, H \cup {k}))
  BY <1>1, <1>2, <1>3, MovedSettled DEF KeysKnown
<1> QED
  BY <1>2, <1>4, <1>5 DEF InOrder, r

LEMMA ReleaseInOrder ==
  ASSUME NEW q, NEW H, NEW run \in BOOLEAN, NEW k \in Notes, setup \in Setups,
         InOrder(q, H, run)
  PROVE  /\ k \in range => InOrder(PartNoteOff(q, k), H \ {k}, run)
         /\ k \notin range => InOrder(q, H \ {k}, run)
<1> DEFINE r == PartNoteOff(q, k)
<1>1. PartOK(q) /\ Tellable(q) /\ Settled(q)
  BY DEF InOrder, Settled
<1>2. Moved(q, r) /\ (Tracked(q) => Tracked(r)) /\ (Dormant(q) => Dormant(r))
  BY <1>1, PartNoteOffMoved
<1>3. ASSUME PlaysKeys(q)
      PROVE  /\ HasKeysOf(r, Playable(q)) /\ r.ignore = q.ignore
             /\ Known(r, H \ {k}, Sustained(q))
  <2>1. HasKeysOf(q, Playable(q)) /\ Known(q, H, Sustained(q))
    BY <1>3 DEF InOrder, KeysKnown
  <2>2. /\ HasKeysOf(r, Playable(q)) /\ r.ignore = q.ignore
        /\ Known(r, H \ {k}, IF q.ignore THEN Sustained(q) \cup {k} ELSE Sustained(q) \ {k})
    BY <1>1, <1>3, <2>1, PlayableFits, PartNoteOffRemembers
  <2>3. Sustained(q) = IF q.ignore THEN Sustained(q) \cup {k} ELSE Sustained(q) \ {k}
    BY DEF Sustained
  <2> QED
    BY <2>2, <2>3
<1>4. ASSUME k \notin range, PlaysKeys(q) PROVE Known(q, H \ {k}, Sustained(q))
  BY <1>4 DEF InOrder, KeysKnown, HasKeysOf, Known, Playable, NotesOf
<1>5. InChain(r)
  <2>1. InChain(q) /\ (ChainsKeys(q) /\ Chained(q) => Chained(r))
    BY <1>1, PartNoteOffChains DEF InOrder
  <2> HIDE DEF r
  <2> QED
    BY <1>1, <1>2, <2>1, MovedInChain
<1> HIDE DEF r
<1>6. Settled(r) /\ (PlaysKeys(r) => KeysKnown(r, H \ {k}))
  BY <1>1, <1>2, <1>3, MovedSettled DEF KeysKnown
<1>7. InOrder(r, H \ {k}, run)
  BY <1>2, <1>6, <1>5 DEF InOrder
<1>8. k \notin range => InOrder(q, H \ {k}, run)
  BY <1>4 DEF InOrder, KeysKnown
<1> QED
  BY <1>7, <1>8 DEF r

LEMMA PedalInOrder ==
  ASSUME NEW q, NEW H, NEW run \in BOOLEAN, setup \in Setups, InOrder(q, H, run)
  PROVE  /\ InOrder(PedalDown(q), H, run)
         /\ \A order \in SetToSeqs(FlaggedNotes(q)) : InOrder(PedalUp(q, order), H, run)
<1>1. PartOK(q) /\ Tellable(q) /\ Settled(q)
  BY DEF InOrder, Settled
<1>2. InOrder(PedalDown(q), H, run)
  <2> DEFINE r == PedalDown(q)
  <2>1. TRUE \in BOOLEAN
    OBVIOUS
  <2>2. /\ Moved(q, r) /\ SameVoices(q, r) /\ NotesOn(r) = NotesOn(q)
        /\ r.pressed = q.pressed
        /\ r.ignore = TRUE /\ r.prev = q.prev /\ r.out = q.out /\ r.chain = q.chain
    BY <1>1, <2>1, SetOtherMoved DEF PedalDown
  <2> HIDE DEF r
  <2>3. Tracked(r) /\ (~run => Dormant(r))
    BY <2>2 DEF InOrder, Moved, SameSettings, Tracked, Dormant, Generates
  <2>4. q.pressed \in KeyStacks
    BY <1>1 DEF PartOK, Voiced, Parts
  <2>5. ASSUME PlaysKeys(q) PROVE KeysKnown(r, H)
    <3>1. Playable(r) = Playable(q) /\ Sustained(r) = Notes
      BY <1>1, <2>2, MovedSettled DEF Sustained
    <3>2. HasKeysOf(r, Playable(r))
      <4>1. HasKeysOf(q, Playable(q)) /\ r.amode = q.amode
        BY <2>2, <2>5 DEF InOrder, KeysKnown, Moved, SameSettings
      <4> QED
        BY <1>1, <2>2, <3>1, <4>1, SameKeys
    <3>3. NotesOf(q.pressed) \subseteq Notes
      BY <2>4, PressedNotes
    <3>4. Known(r, H, Notes)
      BY <2>2, <2>5, <3>3 DEF InOrder, KeysKnown, Known, NotesOf
    <3> QED
      BY <3>1, <3>2, <3>4 DEF KeysKnown
  <2>6. InChain(r)
    <3>1. InChain(q) /\ (Chained(q) => Chained(r))
      BY <2>2, ChainedFrame DEF InOrder
    <3> QED
      BY <1>1, <2>2, <3>1, MovedInChain
  <2>7. InOrder(r, H, run)
    BY <1>1, <2>2, <2>3, <2>5, <2>6, MovedSettled DEF InOrder
  <2> QED
    BY <2>7 DEF r
<1>3. ASSUME NEW order \in SetToSeqs(FlaggedNotes(q)) PROVE InOrder(PedalUp(q, order), H, run)
  <2> DEFINE r == PedalUp(q, order)
  <2>1. Moved(q, r) /\ (Tracked(q) => Tracked(r)) /\ (Dormant(q) => Dormant(r))
    BY <1>1, PedalUpMoved
  <2>2. ASSUME PlaysKeys(q)
        PROVE  HasKeysOf(r, Playable(q)) /\ Known(r, H, {}) /\ ~r.ignore
    <3>1. HasKeysOf(q, Playable(q)) /\ Known(q, H, Sustained(q))
      BY <2>2 DEF InOrder, KeysKnown
    <3> QED
      BY <1>1, <2>2, <3>1, PlayableFits, PedalUpRemembers
  <2>3. ChainsKeys(q) /\ Chained(q) => Chained(r)
    BY <1>1, PedalUpChains
  <2> HIDE DEF r
  <2>4. InChain(r)
    <3>1. InChain(q)
      BY DEF InOrder
    <3> QED
      BY <1>1, <2>1, <2>3, <3>1, MovedInChain
  <2>5. ASSUME PlaysKeys(q) PROVE KeysKnown(r, H)
    BY <1>1, <2>1, <2>2, <2>5, MovedSettled DEF KeysKnown, Sustained
  <2>6. InOrder(r, H, run)
    BY <1>1, <2>1, <2>4, <2>5, MovedSettled DEF InOrder
  <2> QED
    BY <2>6 DEF r
<1> QED
  BY <1>2, <1>3

\* The operations that silence the part and forget its keys.
LEMMA QuietInOrder ==
  ASSUME NEW q, NEW r, NEW H, NEW run \in BOOLEAN, InOrder(q, H, run),
         Settled(r), InChain(r), SameSettings(q, r), Quiet(r), r.pressed = <<>>
  PROVE  /\ r.out = q.out /\ r.prev = q.prev => InOrder(r, H, run)
         /\ (q.dir = "LINE" => r.out = q.out \ {q.prev}) =>
              InOrder(r, H, run) /\ InOrder(r, H, FALSE)
<1>1. KeysKnown(r, H)
  <2>1. DOMAIN r.pressed = {}
    OBVIOUS
  <2>2. NotesOf(r.pressed) = {}
    BY <2>1 DEF NotesOf
  <2>3. HasKeysOf(r, Playable(r))
    BY <2>2, NothingHasKeys DEF Quiet, Silenced, Voiced
  <2> QED
    BY <2>1, <2>3 DEF KeysKnown, Known
<1>2. ASSUME r.out = q.out /\ r.prev = q.prev PROVE InOrder(r, H, run)
  <2>1. Tracked(r) /\ (Dormant(q) => Dormant(r))
    BY <1>2, QuietTracks DEF InOrder
  <2> QED
    BY <1>1, <2>1 DEF InOrder
<1>3. ASSUME q.dir = "LINE" => r.out = q.out \ {q.prev}
      PROVE  Tracked(r) /\ Dormant(r)
  BY <1>3 DEF InOrder, SameSettings, Quiet, Tracked, Dormant, Generates
<1> QED
  BY <1>1, <1>2, <1>3 DEF InOrder

LEMMA QuietInChain ==
  ASSUME NEW r, Settled(r), NotesOn(r) = {}, r.chain = <<>>
  PROVE  InChain(r)
<1>1. ASSUME Chaining(r) PROVE Chained(r)
  <2>1. PartOK(r) /\ r.pmode = "CHAIN"
    BY <1>1 DEF Settled, Chaining
  <2> QED
    BY <2>1, NothingChained
<1> QED
  BY <1>1 DEF InChain

LEMMA SilencedInOrder ==
  ASSUME NEW q, NEW H, NEW run \in BOOLEAN, InOrder(q, H, run)
  PROVE  /\ InOrder(NextUnitSilenced(AllSoundOff(q)), H, run)
         /\ ~q.ignore => InOrder(NextUnitSilenced(AllNotesOff(q)), H, run)
<1>1. PartOK(q) /\ Tellable(q) /\ Settled(q)
  BY DEF InOrder, Settled
<1>2. InOrder(NextUnitSilenced(AllSoundOff(q)), H, run)
  <2> DEFINE u == AllSoundOff(q)
             r == NextUnitSilenced(u)
  <2>1. Moved(q, u) /\ Quiet(u) /\ u.pressed = <<>> /\ u.prev = q.prev /\ u.out = q.out
    BY <1>1, AllSoundOffQuiets
  <2> HIDE DEF u
  <2>2. Moved(u, r) /\ Quiet(r) /\ r.pressed = <<>> /\ r.prev = q.prev /\ r.out = q.out
        /\ r.chain = <<>>
    BY <2>1, NextUnitMoved DEF Moved
  <2> HIDE DEF r
  <2>3. Moved(q, r)
    BY <2>1, <2>2, MovedTwice
  <2>4. Settled(r) /\ SameSettings(q, r) /\ InChain(r)
    <3>1. Settled(r)
      BY <1>1, <2>3, MovedSettled
    <3> QED
      BY <2>2, <2>3, <3>1, QuietInChain DEF Moved, Quiet
  <2>5. InOrder(r, H, run)
    BY <2>2, <2>4, QuietInOrder
  <2> QED
    BY <2>5 DEF r, u
<1>3. ASSUME ~q.ignore PROVE InOrder(NextUnitSilenced(AllNotesOff(q)), H, run)
  <2> DEFINE u == AllNotesOff(q)
             r == NextUnitSilenced(u)
  <2>1. /\ Moved(q, u) /\ Quiet(u) /\ u.pressed = <<>>
        /\ u.out = IF q.dir = "CHORD" THEN q.out ELSE q.out \ {q.prev}
    BY <1>1, <1>3, AllNotesOffQuiets
  <2> HIDE DEF u
  <2>2. Moved(u, r) /\ Quiet(r) /\ r.pressed = <<>> /\ r.out = u.out /\ r.chain = <<>>
    BY <2>1, NextUnitMoved DEF Moved
  <2> HIDE DEF r
  <2>3. Moved(q, r)
    BY <2>1, <2>2, MovedTwice
  <2>4. Settled(r) /\ SameSettings(q, r) /\ InChain(r)
    <3>1. Settled(r)
      BY <1>1, <2>3, MovedSettled
    <3> QED
      BY <2>2, <2>3, <3>1, QuietInChain DEF Moved, Quiet
  <2>5. q.dir = "LINE" => r.out = q.out \ {q.prev}
    BY <2>1, <2>2
  <2>6. InOrder(r, H, run) /\ InOrder(r, H, FALSE)
    BY <2>2, <2>4, <2>5, QuietInOrder
  <2> QED
    BY <2>6 DEF r, u
<1> QED
  BY <1>2, <1>3

\* A part without a key has nothing on, and so nothing on the chain: the clock that
\* stops by itself need not tell the next unit.
LEMMA NoKeyInChain ==
  ASSUME NEW q, NEW H, NEW run \in BOOLEAN, InOrder(q, H, run), setup \in Setups,
         q.pressed = <<>>, Chaining(q)
  PROVE  q.chain = <<>>
<1> DEFINE D == [note : Notes]
           s == q.chain
<1>1. PartOK(q) /\ q.pmode = "CHAIN" /\ PlaysKeys(q) /\ q.amode = "STEP" /\ Chained(q)
  BY DEF InOrder, Settled, Chaining, InChain, PlaysKeys
<1>2. HasKeysOf(q, Playable(q)) /\ NotesOf(q.pressed) = {}
  <2>1. DOMAIN <<>> = {}
    OBVIOUS
  <2> QED
    BY <1>1, <2>1 DEF InOrder, KeysKnown, NotesOf
<1>3. NotesOn(q) = {}
  <2>1. CASE KeysFit
    BY <1>2, <2>1, PlayableFits DEF HasKeysOf
  <2>2. CASE Covering(q)
    BY <1>1, <1>2, <2>2, CoveredNotes DEF HasKeysOf
  <2> QED
    BY <2>1, <2>2 DEF Chaining
<1>4. NotesOf(s) = {}
  BY <1>1, <1>3, ChainSlots DEF Chained
<1>5. s \in Stacks(D)
  BY <1>1 DEF PartOK, Voiced, Parts, NoteLists
<1> HIDE DEF s, D
<1>6. s \in Seq(D) /\ DOMAIN s = 1..Len(s) /\ Len(s) \in Nat
  BY <1>5, StackElements
<1>7. 1..Len(s) = {}
  BY <1>4, <1>6 DEF NotesOf
<1>8. Len(s) = 0
  <2>1. \A n \in Nat : 1..n = {} => n = 0
    OBVIOUS
  <2> QED
    BY <1>6, <1>7, <2>1
<1> QED
  BY <1>6, <1>8 DEF s

LEMMA StoppedInOrder ==
  ASSUME NEW q, NEW H, NEW run \in BOOLEAN, InOrder(q, H, run), setup \in Setups
  PROVE  /\ q.pressed = <<>> => InOrder(Stop(q), H, FALSE)
         /\ InOrder(NextUnitSilenced(Stop(q)), H, FALSE)
<1> DEFINE u == Stop(q)
           r == NextUnitSilenced(u)
<1>1. PartOK(q) /\ Tellable(q) /\ Settled(q)
  BY DEF InOrder, Settled
<1>2. /\ Moved(q, u) /\ Quiet(u) /\ u.pressed = <<>> /\ u.chain = q.chain
      /\ u.out = IF q.dir = "CHORD" THEN q.out ELSE q.out \ {q.prev}
  BY <1>1, StopQuiets
<1> HIDE DEF u
<1>3. Moved(u, r) /\ Quiet(r) /\ r.pressed = <<>> /\ r.out = u.out /\ r.chain = <<>>
  BY <1>2, NextUnitMoved DEF Moved
<1> HIDE DEF r
<1>4. Moved(q, r)
  BY <1>2, <1>3, MovedTwice
<1>5. Settled(u) /\ SameSettings(q, u) /\ Settled(r) /\ SameSettings(q, r)
  BY <1>1, <1>2, <1>4, MovedSettled DEF Moved
<1>6. q.dir = "LINE" => u.out = q.out \ {q.prev} /\ r.out = q.out \ {q.prev}
  BY <1>2, <1>3
<1>7. InOrder(r, H, FALSE)
  <2>1. InChain(r)
    BY <1>3, <1>5, QuietInChain DEF Quiet
  <2> QED
    BY <1>3, <1>5, <1>6, <2>1, QuietInOrder
<1>8. ASSUME q.pressed = <<>> PROVE InOrder(u, H, FALSE)
  <2>1. InChain(u)
    <3>1. SUFFICES ASSUME Chaining(u) PROVE InChain(u)
      BY DEF InChain
    <3>2. Chaining(q)
      BY <1>1, <1>2, <3>1, MovedCovering DEF Chaining
    <3>3. u.chain = <<>>
      BY <1>2, <1>8, <3>2, NoKeyInChain
    <3> QED
      BY <1>2, <1>5, <3>3, QuietInChain DEF Quiet
  <2> QED
    BY <1>2, <1>5, <1>6, <2>1, QuietInOrder
<1> QED
  BY <1>7, <1>8 DEF r, u

LEMMA PolyphonyModeInOrder ==
  ASSUME NEW q, NEW H, NEW run \in BOOLEAN, InOrder(q, H, run),
         setup \in Setups, CyclicNotesAreTold, NEW m \in setup.pmodes
  PROVE  InOrder(EditPolyphonyMode(q, m), H, run)
<1> DEFINE u == SetPolyphonyMode(q, m)
           x == RemappedMode(m)
           r == [u EXCEPT !.next = x]
<1>1. Settled(q) /\ PartOK(q) /\ m \in PolyphonyModes
  BY SetupFields DEF InOrder, Settled
<1>2. InOrder(u, H, run)
  <2>1. CASE m = q.pmode
    BY <2>1 DEF SetPolyphonyMode
  <2>2. CASE m # q.pmode
    <3>1. /\ PartOK(u) /\ Quiet(u) /\ u.pressed = <<>> /\ u.pmode = m
          /\ SameSettings(q, u) /\ u.prev = q.prev
          /\ u.out = q.out /\ u.chain = q.chain
      BY <1>1, <2>2, SetPolyphonyModeQuiets
    <3> HIDE DEF u
    <3>2. u.pmode = "CYCLIC" => 0 \notin u.scale /\ MaxNote \notin u.scale
      BY <1>1, <3>1 DEF CyclicNotesAreTold, Settled, SameSettings
    <3>3. Settled(u)
      BY <1>1, <3>1, <3>2, QuietTellable DEF Settled, SameSettings
    <3>4. InChain(u)
      BY <1>1, <2>2 DEF InChain, Chaining, Settled
    <3> QED
      BY <3>1, <3>3, <3>4, QuietInOrder
  <2> QED
    BY <2>1, <2>2
<1> HIDE DEF u
<1>3. PartOK(u) /\ u \in Parts /\ Settled(u) /\ x \in PolyphonyModes
  BY <1>1, <1>2 DEF InOrder, Settled, PartOK, Voiced, RemappedMode, PolyphonyModes
<1> HIDE DEF x
<1>4. /\ r \in Parts /\ SameVoices(u, r) /\ SameSettings(u, r)
      /\ r.pressed = u.pressed /\ r.ignore = u.ignore /\ r.prev = u.prev
      /\ r.out = u.out /\ r.chain = u.chain
  BY <1>3 DEF Parts, SameVoices, SameSettings
<1> HIDE DEF r
<1>5. PartOK(r) /\ NotesOn(r) = NotesOn(u) /\ (Tellable(r) <=> Tellable(u))
  BY <1>3, <1>4, SameVoicesOK, SameOn DEF SameSettings
<1>6. Settled(r)
  BY <1>3, <1>4, <1>5 DEF Settled, SameSettings, SameVoices
<1>7. Tracked(r) /\ (Dormant(u) => Dormant(r))
  BY <1>2, <1>4, <1>5 DEF InOrder, SameSettings, Tracked, Dormant, Generates
<1>8. ASSUME PlaysKeys(r) PROVE KeysKnown(r, H)
  <2>1. PlaysKeys(u) /\ Playable(r) = Playable(u) /\ Sustained(r) = Sustained(u)
        /\ r.amode = u.amode
    BY <1>4, <1>8 DEF SameSettings, PlaysKeys, Playable, Sustained
  <2>2. HasKeysOf(u, Playable(u)) /\ Known(u, H, Sustained(u))
    BY <1>2, <2>1 DEF InOrder, KeysKnown
  <2>3. HasKeysOf(r, Playable(r))
    BY <1>3, <1>4, <2>1, <2>2, SameKeys
  <2> QED
    BY <1>4, <2>1, <2>2, <2>3 DEF KeysKnown, Known
<1>9. InChain(r)
  <2>1. InChain(u) /\ (Chained(r) <=> Chained(u)) /\ (Covering(r) <=> Covering(u))
    BY <1>2, <1>4, ChainedFrame DEF InOrder, Covering, SameVoices
  <2> QED
    BY <2>1 DEF InChain, Chaining
<1>10. InOrder(r, H, run)
  BY <1>2, <1>6, <1>7, <1>8, <1>9 DEF InOrder
<1> QED
  BY <1>10 DEF r, u, x, EditPolyphonyMode

LEMMA ClockInOrder ==
  ASSUME InOrder(p, held, TRUE), setup \in Setups, Clock
  PROVE  InOrder(p', held, TRUE)
<1>1. PartOK(p) /\ Tellable(p) /\ Settled(p) /\ p.amode = p.seen
  BY DEF InOrder, Settled
<1>2. /\ Moved(p, p') /\ (Tracked(p) => Tracked(p'))
      /\ PlaysKeys(p) => /\ p'.pressed = p.pressed /\ p'.ignore = p.ignore
                         /\ NotesOn(p') \subseteq NotesOn(p) \cup NotesOf(p.pressed)
      /\ p.amode = "STEP" => p' = p
  BY <1>1, ClockMoved
<1>3. Settled(p') /\ Playable(p') = Playable(p) /\ (PlaysKeys(p') <=> PlaysKeys(p))
      /\ (p'.ignore = p.ignore => Sustained(p') = Sustained(p))
  <2> DEFINE r == p'
  <2>1. Settled(p) /\ Moved(p, r)
    BY <1>1, <1>2
  <2> HIDE DEF r
  <2>2. Settled(r) /\ Playable(r) = Playable(p) /\ (PlaysKeys(r) <=> PlaysKeys(p))
        /\ (r.ignore = p.ignore => Sustained(r) = Sustained(p))
    BY <2>1, MovedSettled
  <2> QED
    BY <2>2 DEF r
<1>4. ASSUME PlaysKeys(p) PROVE KeysKnown(p', held)
  <2>1. HasKeysOf(p, Playable(p)) /\ Known(p, held, Sustained(p))
    BY <1>4 DEF InOrder, KeysKnown
  <2>2. HasKeysOf(p', Playable(p))
    <3>1. p'.amode = p.amode
      BY <1>2 DEF Moved, SameSettings
    <3> QED
      BY <1>2, <1>4, <2>1, <3>1 DEF HasKeysOf
  <2>3. Known(p', held, Sustained(p))
    BY <1>2, <1>4, <2>1 DEF Known
  <2> QED
    BY <1>2, <1>3, <1>4, <2>2, <2>3 DEF KeysKnown
<1>5. InChain(p')
  <2> DEFINE r == p'
  <2>1. InChain(p) /\ Settled(p) /\ Moved(p, r)
    BY <1>1, <1>2 DEF InOrder
  <2>2. ChainsKeys(p) /\ Chained(p) => Chained(r)
    BY <1>2 DEF ChainsKeys
  <2> HIDE DEF r
  <2>3. InChain(r)
    BY <2>1, <2>2, MovedInChain
  <2> QED
    BY <2>3 DEF r
<1> QED
  BY <1>2, <1>3, <1>4, <1>5 DEF InOrder

LEMMA KeysInit == Init => KeysInv
<1> SUFFICES ASSUME Init, Steady PROVE InOrder(p, held, running)
  BY DEF KeysInv
<1>1. PICK n \in setup.voices, pm \in setup.pmodes, am \in setup.amodes,
           d \in setup.directions, s \in setup.scales :
        p = InitializeAllocators(
              [num |-> n, pmode |-> pm, amode |-> am, seen |-> am, scale |-> s,
               dir |-> d, ignore |-> FALSE, pressed |-> <<>>, mono |-> <<>>,
               poly |-> NewPool(0, FALSE), prev |-> NoNote,
               voice |-> [v \in 0..(n - 1) |-> Silent],
               chain |-> <<>>, next |-> "POLY", out |-> {}])
  BY DEF Init
<1> DEFINE q == [num |-> n, pmode |-> pm, amode |-> am, seen |-> am, scale |-> s,
                 dir |-> d, ignore |-> FALSE, pressed |-> <<>>, mono |-> <<>>,
                 poly |-> NewPool(0, FALSE), prev |-> NoNote,
                 voice |-> [v \in 0..(n - 1) |-> Silent],
                 chain |-> <<>>, next |-> "POLY", out |-> {}]
<1>2. /\ setup \in Setups
      /\ n \in 1..6 /\ pm \in PolyphonyModes /\ am \in SequencerModes
      /\ d \in {"LINE", "CHORD"} /\ s \in SUBSET Notes
  BY SetupFields DEF Init
<1>3. Silenced(q)
  BY <1>2, NewPartSilenced
<1>4. /\ q.num = n /\ q.pmode = pm /\ q.amode = am /\ q.seen = am /\ q.scale = s /\ ~q.ignore /\ q.pressed = <<>>
      /\ q.chain = <<>> /\ q.out = {}
  OBVIOUS
<1>5. p = InitializeAllocators(q)
  BY <1>1
<1> HIDE DEF q
<1>6. PartOK(p) /\ Quiet(p) /\ SameRest(q, p) /\ p.out = {} /\ p.chain = <<>>
  BY <1>3, <1>4, <1>5, InitializeQuiets
<1>7. /\ p.num = n /\ p.pmode = pm /\ p.amode = am /\ p.seen = am /\ p.scale = s /\ ~p.ignore /\ p.pressed = <<>>
  BY <1>4, <1>6 DEF SameRest, SameSettings
<1>8. Tellable(p)
  <2>1. p.pmode = "CYCLIC" => 0 \notin p.scale /\ MaxNote \notin p.scale
    BY <1>7 DEF Steady, CyclicNotesAreTold
  <2> QED
    BY <1>6, <2>1, QuietTellable
<1>9. Settled(p)
  BY <1>6, <1>7, <1>8 DEF Settled
<1>10. Tracked(p) /\ Dormant(p)
  BY <1>6 DEF Tracked, Dormant, Quiet
<1>11. KeysKnown(p, held)
  <2>1. DOMAIN p.pressed = {}
    BY <1>7
  <2>2. NotesOf(p.pressed) = {}
    BY <2>1 DEF NotesOf
  <2>3. HasKeysOf(p, Playable(p))
    BY <1>6, <2>2, NothingHasKeys DEF Quiet, Silenced, Voiced
  <2> QED
    BY <2>1, <2>3 DEF KeysKnown, Known
<1>12. InChain(p)
  BY <1>6, <1>9, QuietInChain DEF Quiet
<1> QED
  BY <1>9, <1>10, <1>11, <1>12 DEF InOrder

\* Only these steps are taken when the settings are left alone.
LEMMA SteadySteps ==
  ASSUME Next, SettingsKept
  PROVE  /\ \/ \E k \in Keys : Press(k) \/ Release(k)
            \/ PressPedal \/ ReleasePedal \/ ReceiveAllSoundOff \/ ReceiveAllNotesOff
            \/ ChangePolyphonyMode \/ StopClock \/ StopIdleClock \/ Clock
         /\ range' = range /\ setup' = setup
<1>1. \/ \E k \in Keys : Press(k) \/ Release(k)
      \/ PressPedal \/ ReleasePedal \/ ReceiveAllSoundOff \/ ReceiveAllNotesOff
      \/ ChangePolyphonyMode \/ StopClock \/ StopIdleClock \/ Clock
  BY DEF Next, SettingsKept, ReceiveResetAllControllers, ChangeSequencerMode,
         ChangeDirection, ChangeRaga, ChangeKeyRange, LoadProgram, ReassignVoices, StartClock
<1> QED
  BY <1>1 DEF Press, Release, PressPedal, ReleasePedal, ReceiveAllSoundOff,
              ReceiveAllNotesOff, ChangePolyphonyMode, StopClock, StopIdleClock, Clock

\* The invariant is of the part, the held keys and running; the range and the setup
\* stay what they are.
LEMMA StepInOrder ==
  ASSUME PartInv, running \in BOOLEAN, InOrder(p, held, running), Steady, Next
  PROVE  InOrder(p', held', running') /\ running' \in BOOLEAN
<1>0. setup \in Setups /\ SettingsKept /\ CyclicNotesAreTold
  BY DEF PartInv, Steady
<1> DEFINE r    == p'
           hands == held'
           run  == running'
           Done == InOrder(r, hands, run) /\ run \in BOOLEAN
<1> SUFFICES Done
  OBVIOUS
<1>1. ASSUME NEW k \in Keys, Press(k) PROVE Done
  <2> DEFINE q == IF running THEN p ELSE Start(p)
  <2>1. InOrder(q, held, TRUE)
    <3>1. CASE running
      BY <3>1
    <3>2. CASE ~running
      <4>1. running = FALSE
        BY <3>2
      <4> QED
        BY <4>1, StartedInOrder
    <3> QED
      BY <3>1, <3>2
  <2>2. k \in setup.keys /\ hands = held \cup {k} /\ run = TRUE
        /\ r = IF k \in range THEN PartNoteOn(q, k) ELSE q
    BY <1>1 DEF Press
  <2> HIDE DEF q, r, hands, run
  <2>3. k \in range => InOrder(PartNoteOn(q, k), held \cup {k}, TRUE)
    BY <1>0, <2>1, <2>2, PressInOrder
  <2>4. InOrder(q, held \cup {k}, TRUE)
    BY <2>1 DEF InOrder, KeysKnown, Known
  <2> QED
    BY <2>2, <2>3, <2>4
<1>2. ASSUME NEW k \in Keys, Release(k) PROVE Done
  <2>1. k \in Notes
    <3>1. PICK s \in Setups : k \in s.keys
      BY DEF Keys
    <3> QED
      BY <3>1, SetupFields
  <2>2. hands = held \ {k} /\ run = running /\ r = IF k \in range THEN PartNoteOff(p, k) ELSE p
    BY <1>2 DEF Release
  <2> HIDE DEF r, hands, run
  <2> QED
    BY <1>0, <2>1, <2>2, ReleaseInOrder
<1>3. CASE PressPedal
  BY <1>0, <1>3, PedalInOrder DEF PressPedal
<1>4. CASE ReleasePedal
  BY <1>0, <1>4, PedalInOrder DEF ReleasePedal
<1>5. CASE ReceiveAllSoundOff
  BY <1>5, SilencedInOrder DEF ReceiveAllSoundOff
<1>6. CASE ReceiveAllNotesOff
  BY <1>6, SilencedInOrder DEF ReceiveAllNotesOff
<1>7. CASE ChangePolyphonyMode
  BY <1>0, <1>7, PolyphonyModeInOrder DEF ChangePolyphonyMode
<1>8. CASE StopClock
  BY <1>0, <1>8, StoppedInOrder DEF StopClock
<1>9. CASE StopIdleClock
  BY <1>0, <1>9, StoppedInOrder DEF StopIdleClock
<1>10. CASE Clock
  <2>1. InOrder(p, held, TRUE) /\ hands = held /\ run = TRUE
    BY <1>10 DEF Clock
  <2>2. InOrder(r, held, TRUE)
    BY <1>0, <1>10, <2>1, ClockInOrder
  <2> QED
    BY <2>1, <2>2
<1> QED
  BY <1>0, <1>1, <1>2, <1>3, <1>4, <1>5, <1>6, <1>7, <1>8, <1>9, <1>10, SteadySteps

LEMMA KeysNext ==
  ASSUME PartInv, KeysInv, running \in BOOLEAN, [Next]_vars
  PROVE  KeysInv' /\ running' \in BOOLEAN
<1>1. CASE UNCHANGED vars
  BY <1>1 DEF vars, KeysInv, Steady, SettingsKept, CyclicNotesAreTold, InOrder, Settled,
              KeysKnown, Playable, KeysFit, InChain, Chaining
<1>2. CASE Next
  <2>1. setup' = setup /\ running' \in BOOLEAN
    BY <1>2 DEF Next, Press, Release, PressPedal, ReleasePedal, ReceiveAllSoundOff,
           ReceiveAllNotesOff, ReceiveResetAllControllers, ChangePolyphonyMode,
           ChangeSequencerMode, ChangeDirection, ChangeRaga, ChangeKeyRange, LoadProgram,
           ReassignVoices, StartClock, StopClock, StopIdleClock, Clock
  <2>2. Steady' <=> Steady
    BY <2>1 DEF Steady, SettingsKept, CyclicNotesAreTold
  <2>3. ASSUME Steady PROVE InOrder(p, held, running)'
    <3>1. InOrder(p', held', running')
      BY <1>2, <2>3, StepInOrder DEF KeysInv
    <3>2. range' = range /\ setup' = setup
      BY <1>2, <2>3, SteadySteps DEF Steady
    <3> QED
      BY <3>1, <3>2 DEF InOrder, Settled, KeysKnown, Playable, KeysFit, InChain, Chaining
  <2> QED
    BY <2>1, <2>2, <2>3 DEF KeysInv
<1> QED
  BY <1>1, <1>2

LEMMA KeysInductive == Spec => [](PartInv /\ KeysInv /\ running \in BOOLEAN)
<1> DEFINE I == PartInv /\ KeysInv /\ running \in BOOLEAN
<1>1. Init => I
  BY PartInit, KeysInit DEF Init
<1>2. I /\ [Next]_vars => I'
  BY PartNext, KeysNext
<1> QED
  BY <1>1, <1>2, PTL DEF Spec

-----------------------------------------------------------------------------
\* What it gives.
LEMMA SoundingIsOn ==
  ASSUME PartInv, Tellable(p)
  PROVE  Sounding \subseteq NotesOn(p)
<1>1. ASSUME NEW n \in Sounding PROVE n \in NotesOn(p)
  <2>1. PICK v \in AllVoices(p) : p.voice[v] = n /\ n # Silent
    BY SoundingVoices
  <2> QED
    BY <2>1, VoicesAreOn DEF PartInv
<1> QED
  BY <1>1

LEMMA GeneratedNotesTracked == PartInv /\ KeysInv => GeneratedNoteIsTracked
<1> SUFFICES ASSUME PartInv, KeysInv, SettingsKept, CyclicNotesAreTold,
                    p.amode \in {"ARPEGGIATOR", "NOTE", "LATCH"}, p.dir = "LINE"
             PROVE  Sounding \cup p.out \subseteq {p.prev}
  BY DEF GeneratedNoteIsTracked
<1>1. InOrder(p, held, running)
  BY DEF KeysInv, Steady
<1>2. Tellable(p) /\ Tracked(p) /\ Generates(p)
  BY <1>1 DEF InOrder, Settled, Generates
<1> QED
  BY <1>2, SoundingIsOn DEF Tracked

LEMMA ArpeggioSoundsKeys ==
  ASSUME PartInv, PartInv', KeysInv, KeysInv', Clock, SettingsKept, CyclicNotesAreTold,
         setup' = setup,
         \/ p.amode \in {"ARPEGGIATOR", "LATCH"} /\ p.dir = "LINE"
         \/ p.amode = "ARPEGGIATOR" /\ KeysFit
  PROVE  Sounding' \subseteq Arpeggiated(p')
<1>1. InOrder(p, held, running) /\ setup \in Setups
  BY DEF KeysInv, Steady, PartInv
<1>2. /\ PartOK(p) /\ Tellable(p) /\ p.amode = p.seen /\ Tracked(p) /\ p.dir \in {"LINE", "CHORD"}
      /\ PlaysKeys(p) => KeysKnown(p, held)
  BY <1>1 DEF InOrder, Settled, PartOK, Voiced, Parts
<1>3. Tellable(p')
  <2>1. SettingsKept' /\ CyclicNotesAreTold'
    BY DEF SettingsKept, CyclicNotesAreTold
  <2>2. InOrder(p, held, running)'
    BY <2>1 DEF KeysInv, Steady
  <2> QED
    BY <2>2 DEF InOrder, Settled
<1>4. Sounding' \subseteq NotesOn(p')
  <2>1. (PartInv /\ Tellable(p) => Sounding \subseteq NotesOn(p))'
    BY SoundingIsOn, PTL
  <2> QED
    BY <1>3, <2>1
<1>5. CASE p.dir = "LINE"
  BY <1>1, <1>2, <1>4, <1>5, ClockMoved
<1>6. CASE p.dir = "CHORD"
  <2>1. PlaysKeys(p) /\ KeysFit
    BY <1>6 DEF PlaysKeys
  <2>2. /\ p'.pressed = p.pressed
        /\ NotesOn(p') \subseteq NotesOn(p) \cup NotesOf(p.pressed)
    BY <1>1, <1>2, <2>1, ClockMoved
  <2>3. NotesOn(p) \subseteq NotesOf(p.pressed) /\ p.pressed \in KeyStacks
    BY <1>1, <1>2, <2>1, PlayableFits DEF KeysKnown, HasKeysOf, PartOK, Voiced, Parts
  <2>4. NotesOf(p.pressed) \subseteq Arpeggiated(p')
    <3>1. 0 \in setup.octaves
      BY <1>1, PartAssumption
    <3>2. \A n \in NotesOf(p.pressed) : n + 0 = n
      BY <2>3, PressedNotes, MaxNoteAssumption DEF Notes
    <3> QED
      BY <2>2, <3>1, <3>2 DEF Arpeggiated
  <2> QED
    BY <1>4, <2>2, <2>3, <2>4
<1> QED
  BY <1>2, <1>5, <1>6

\* With no key down and no pedal, no key is remembered, and nothing that was played
\* directly is on.
LEMMA KeysUp ==
  ASSUME InOrder(p, held, running), PartInv, p.amode = "STEP", held = {}, ~p.ignore,
         KeysFit \/ Covering(p)
  PROVE  NotesOn(p) = {} /\ p.pressed = <<>>
<1>1. PartOK(p) /\ p.pressed \in KeyStacks /\ setup \in Setups
  BY DEF PartInv, PartOK, Voiced, Parts
<1>2. Known(p, {}, {}) /\ HasKeysOf(p, Playable(p))
  BY DEF InOrder, PlaysKeys, KeysKnown, Sustained
<1>3. NotesOf(p.pressed) = {}
  BY <1>2 DEF Known, NotesOf
<1>4. NotesOn(p) = {}
  <2>1. CASE KeysFit
    BY <1>1, <1>2, <1>3, <2>1, PlayableFits DEF HasKeysOf
  <2>2. CASE Covering(p)
    BY <1>1, <1>2, <1>3, <2>2, CoveredNotes DEF HasKeysOf
  <2> QED
    BY <2>1, <2>2
<1> QED
  BY <1>1, <1>3, <1>4, PressedNotes

LEMMA NothingStuck ==
  ASSUME PartInv, KeysInv, running \in BOOLEAN
  PROVE  NoStuckVoice
<1> SUFFICES ASSUME SettingsKept, CyclicNotesAreTold, "CHAIN" \in setup.pmodes => ChainIsPlayed
             PROVE  /\ \/ /\ p.amode = "STEP" /\ held = {} /\ ~p.ignore
                          /\ KeysFit \/ KeysCoverVoices
                       \/ p.amode = "NOTE" /\ p.pressed = <<>>
                       \/ /\ p.amode = "ARPEGGIATOR" /\ p.pressed = <<>>
                          /\ p.dir = "CHORD" => KeysFit
                       => Sounding = {} /\ p.chain = <<>>
                    /\ Sounding \cap NotesOf(p.chain) = {}
  BY DEF NoStuckVoice
<1>1. InOrder(p, held, running)
  BY DEF KeysInv, Steady
<1>2. /\ Tellable(p) /\ Tracked(p) /\ PartOK(p) /\ setup \in Setups
      /\ PlaysKeys(p) => KeysKnown(p, held)
  BY <1>1 DEF InOrder, Settled, PartInv
<1>3. p.pressed \in KeyStacks /\ p.dir \in {"LINE", "CHORD"}
  BY <1>2 DEF PartOK, Voiced, Parts
<1>4. Sounding \subseteq NotesOn(p)
  BY <1>2, SoundingIsOn
<1>5. ASSUME PlaysKeys(p), KeysFit, NotesOf(p.pressed) = {} PROVE NotesOn(p) = {}
  BY <1>2, <1>5, PlayableFits DEF KeysKnown, HasKeysOf
<1>6. CASE "CHAIN" \notin setup.pmodes
  <2>1. p.chain = <<>>
    BY <1>1, <1>6 DEF InOrder, Settled
  <2>2. NotesOf(p.chain) = {}
    <3>1. DOMAIN <<>> = {}
      OBVIOUS
    <3> QED
      BY <2>1, <3>1 DEF NotesOf
  <2>3. CASE p.amode = "STEP" /\ held = {} /\ ~p.ignore /\ (KeysFit \/ KeysCoverVoices)
    <3>1. KeysFit \/ Covering(p)
      BY <2>3 DEF KeysCoverVoices, Covering
    <3>2. NotesOn(p) = {}
      BY <1>1, <2>3, <3>1, KeysUp
    <3> QED
      BY <1>4, <2>1, <2>2, <3>2
  <2>4. CASE Generates(p) /\ p.amode # "LATCH" /\ p.pressed = <<>>
    BY <1>2, <1>4, <2>1, <2>2, <2>4 DEF Tracked
  <2>5. CASE p.amode = "ARPEGGIATOR" /\ p.dir = "CHORD" /\ p.pressed = <<>> /\ KeysFit
    <3>1. PlaysKeys(p) /\ NotesOf(p.pressed) = {}
      BY <1>3, <2>5, PressedNotes DEF PlaysKeys
    <3> QED
      BY <1>4, <1>5, <2>1, <2>2, <2>5, <3>1
  <2> QED
    BY <1>3, <2>1, <2>2, <2>3, <2>4, <2>5 DEF Generates
<1>7. CASE ChainIsPlayed
  <2>1. /\ p.pmode = "CHAIN" /\ p.amode = "STEP" /\ Chaining(p) /\ Chained(p)
        /\ KeysFit \/ KeysCoverVoices
    BY <1>1, <1>7 DEF InOrder, Settled, InChain, ChainIsPlayed, Chaining, KeysCoverVoices, Covering
  <2>2. Sounding \cap NotesOf(p.chain) = {}
    <3>1. SUFFICES ASSUME NEW n \in Sounding, n \in FarNotes(p) PROVE FALSE
      BY <2>1 DEF Chained
    <3>2. PICK v \in AllVoices(p) : p.voice[v] = n /\ n # Silent
      BY <1>2, <3>1, SoundingVoices DEF PartInv
    <3>3. PICK i \in FarSlots(p) : p.poly.pool[i] = On(n) /\ n \in Notes
      BY <3>1 DEF FarNotes
    <3>4. PICK j \in LocalSlots(p) : p.poly.pool[j] = On(n)
      BY <1>2, <2>1, <3>2 DEF PartOK, PolyOK, HasSlot, IsMono
    <3>5. i \in VoicesOf(p.poly) /\ j \in VoicesOf(p.poly) /\ i # j
      BY <3>3, <3>4 DEF FarSlots, LocalSlots
    <3> QED
      BY <1>2, <2>1, <3>3, <3>4, <3>5, SlotOfNote
  <2>3. ASSUME held = {}, ~p.ignore PROVE Sounding = {} /\ p.chain = <<>>
    <3>1. NotesOn(p) = {} /\ p.pressed = <<>>
      BY <1>1, <2>1, <2>3, KeysUp DEF Chaining
    <3> QED
      BY <1>1, <1>2, <1>4, <2>1, <3>1, NoKeyInChain
  <2> QED
    BY <2>1, <2>2, <2>3
<1> QED
  BY <1>6, <1>7

-----------------------------------------------------------------------------
\* Whatever the part is given, its fields keep their types: in particular the
\* notes the voices were told are MIDI notes, and previous_generated_note_ is one,
\* 60 or 255 (part.cc).
THEOREM PartTypeCorrect == Spec => [](p \in Parts)
<1>1. PartInv => p \in Parts
  BY DEF PartInv, PartOK, Voiced
<1> QED
  BY <1>1, PartInductive, PTL

\* After any sequence of steps, the voices of a slot sound a note exactly when the
\* allocator has it active there, and a polyphonic aftertouch message reaches the
\* voices that sound its note (part.cc:514).
THEOREM VoicesAgree == Spec => []VoicesMatchAllocator
BY PartInductive, AgreedVoices, PTL

\* After any sequence of steps, a note sounds on one voice at most: no note is
\* "allocated twice on two different voices" (part.cc:738).
THEOREM NoteSoundsOnce == Spec => []NoteOnOneVoice
BY PartInductive, EachNoteSoundsOnce, PTL

\* After any sequence of steps, the voices of a monophonic part sound the most
\* recent of the notes it remembers (InternalNoteOn, InternalNoteOff).
THEOREM LastNotePriority == Spec => []MonoSoundsTop
BY PartInductive, MonoVoicesSoundTop, PTL

\* The steps that stop the clock leave every voice silent and every container
\* empty (Part::Stop).
THEOREM StopReleases == Spec => StopReleasesEverything
<1> DEFINE Left == /\ Sounding' = {} /\ p'.pressed = <<>> /\ p'.mono = <<>>
                   /\ \A v \in DOMAIN p'.poly.pool : ~p'.poly.pool[v].active
<1>1. ASSUME PartInv, [Next]_vars PROVE [running /\ ~running' => Left]_vars
  <2>1. SUFFICES ASSUME Next, running, ~running' PROVE Left
    BY <1>1 DEF vars
  <2>2. Emptied(p')
    BY <1>1, <2>1, StopEmpties
  <2>3. p'.pressed = <<>> /\ p'.mono = <<>>
    BY <2>2 DEF Emptied
  <2>4. Sounding' = {}
    <3>1. DOMAIN p'.voice = AllVoices(p') /\ \A v \in AllVoices(p') : p'.voice[v] = Silent
      BY <2>2 DEF Emptied, Silenced, Voiced
    <3> QED
      BY <3>1 DEF Sounding
  <2>5. \A v \in DOMAIN p'.poly.pool : ~p'.poly.pool[v].active
    <3>1. DOMAIN p'.poly.pool = VoicesOf(p'.poly)
      BY <2>2, PoolFields DEF Emptied
    <3>2. \A v \in VoicesOf(p'.poly) : p'.poly.pool[v] = Off(0)
      BY <2>2 DEF Emptied
    <3> QED
      BY <3>1, <3>2 DEF Off
  <2> QED
    BY <2>3, <2>4, <2>5
<1> QED
  BY <1>1, PartInductive, PTL DEF Spec, StopReleasesEverything

\* The note that the clock has played is the only one that sounds: whatever comes
\* between two steps, the next one ends it (part.cc:388).
THEOREM GeneratedNoteTracked == Spec => []GeneratedNoteIsTracked
BY KeysInductive, GeneratedNotesTracked, PTL

\* After a step of the arpeggiator, the notes that sound are those of the keys that
\* are on (README.md:76).
THEOREM ArpeggioFollowsKeys == Spec => StepSoundsPressedKeys
<1> DEFINE Plays == /\ Clock /\ SettingsKept /\ CyclicNotesAreTold /\ p.amode = p.seen
                    /\ \/ p.amode \in {"ARPEGGIATOR", "LATCH"} /\ p.dir = "LINE"
                       \/ p.amode = "ARPEGGIATOR" /\ KeysFit
           Sounds == Sounding' \subseteq {n + t : n \in NotesOf(p'.pressed), t \in setup.octaves}
           I == PartInv /\ KeysInv
<1>1. ASSUME I, I', [Next]_vars PROVE [Plays => Sounds]_vars
  <2>1. ASSUME Plays PROVE Sounds
    <3>1. setup' = setup
      BY <2>1 DEF Clock
    <3> QED
      BY <1>1, <2>1, <3>1, ArpeggioSoundsKeys DEF Arpeggiated
  <2> HIDE DEF Plays, Sounds
  <2> QED
    BY <2>1
<1>2. Spec => []I
  BY KeysInductive
<1> QED
  BY <1>1, <1>2, PTL DEF Spec, StepSoundsPressedKeys

\* No stuck note: with no key down and no pedal nothing sounds, on this unit or on the
\* next one of the chain, when pressed_keys_ has room for the keys of the player or for
\* twice as many keys as there are voices, less one (part.cc: "we directly kill the note").
THEOREM NoNoteIsStuck == Spec => []NoStuckVoice
BY KeysInductive, NothingStuck, PTL
=============================================================================
