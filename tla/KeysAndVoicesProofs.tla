------------------------ MODULE KeysAndVoicesProofs -------------------------
(***************************************************************************)
(* The two memories of a part, for any number of slots, voices and notes.  *)
(* The linked list of the note stack threads its slots through every       *)
(* insertion, removal and saturation; it is a recency stack; and the       *)
(* voices sound keys that it remembers.                                    *)
(***************************************************************************)
EXTENDS KeysAndVoices, VoiceAllocatorProofs, FunctionTheorems, FiniteSetTheorems,
        SequenceTheorems

-----------------------------------------------------------------------------
(* The inductive invariant of a note stack: it is the list of some slots.  *)

Slots == 1..KeyCapacity
Entry == [note : 0..255, velocity : 0..255, next : 0..KeyCapacity]

\* The links from root go through the slots of L, which are not free.
Linked(k, L) ==
  /\ k.pool \in [0..KeyCapacity -> Entry]
  /\ k.root = IF k.size = 0 THEN 0 ELSE L[1]
  /\ \A i \in 1..k.size :
       /\ k.pool[L[i]].next = IF i = k.size THEN 0 ELSE L[i + 1]
       /\ k.pool[L[i]].note \in Notes /\ k.pool[L[i]].velocity \in Velocities
  /\ \A s \in 0..KeyCapacity : (\A i \in 1..k.size : L[i] # s) => k.pool[s] = Keys!Empty

\* No note is in two of them.
NotesDiffer(k, L) ==
  \A i, j \in 1..k.size : k.pool[L[i]].note = k.pool[L[j]].note => i = j

\* The array lists them by pitch.
Ranked(k, L) ==
  /\ k.sorted \in [0..KeyCapacity -> 0..KeyCapacity]
  /\ \A i \in 1..k.size : \E r \in 0..(k.size - 1) : k.sorted[r] = L[i]
  /\ \A r \in 0..(k.size - 1) : \E i \in 1..k.size : k.sorted[r] = L[i]
  /\ \A q, r \in 0..(k.size - 1) :
       q < r => k.pool[k.sorted[q]].note < k.pool[k.sorted[r]].note

IsList(k, L) ==
  /\ k.size \in 0..KeyCapacity
  /\ L \in [1..k.size -> Slots]
  /\ Linked(k, L) /\ NotesDiffer(k, L) /\ Ranked(k, L)

IsStack(k) == \E L : IsList(k, L)

\* The capacity.
LEMMA Capacity == KeyCapacity \in Nat /\ KeyCapacity > 0
BY KeysAndVoicesAssumption

\* The least element of a set of numbers.
LEMMA LowestIs ==
  ASSUME NEW S \in SUBSET Int, NEW x \in S, \A y \in S : x <= y
  PROVE  Keys!Lowest(S) = x
<1>1. Keys!Lowest(S) \in S /\ \A y \in S : Keys!Lowest(S) <= y
  BY DEF Keys!Lowest
<1> DEFINE y == Keys!Lowest(S)
<1>2. x \in Int /\ y \in Int /\ x <= y /\ y <= x
  BY <1>1
<1> HIDE DEF y
<1>3. y = x
  BY <1>2
<1> QED
  BY <1>3 DEF y

\* The greatest one.
LEMMA HighestIs ==
  ASSUME NEW S \in SUBSET Int, NEW x \in S, \A y \in S : x >= y
  PROVE  Keys!Highest(S) = x
<1>1. Keys!Highest(S) \in S /\ \A y \in S : Keys!Highest(S) >= y
  BY DEF Keys!Highest
<1> DEFINE y == Keys!Highest(S)
<1>2. x \in Int /\ y \in Int /\ x >= y /\ y >= x
  BY <1>1
<1> HIDE DEF y
<1>3. y = x
  BY <1>2
<1> QED
  BY <1>3 DEF y

-----------------------------------------------------------------------------
\* The walk along the links: the loop exists, and reads the slots of the list.
LEMMA WalkReads ==
  ASSUME NEW k, NEW L, IsList(k, L)
  PROVE  \A i \in 0..KeyCapacity :
           Keys!Walk(k)[i] = IF i < k.size THEN L[i + 1] ELSE 0
<1> DEFINE K == KeyCapacity
           Loop(w) == w = [i \in 0..K |->
                             IF i = 0 THEN k.root
                             ELSE IF w[i - 1] = 0 THEN 0 ELSE k.pool[w[i - 1]].next]
           at(i) == IF i < k.size THEN L[i + 1] ELSE 0
           f == [i \in 0..K |-> at(i)]
           w == CHOOSE x : Loop(x)
<1>1. /\ K \in Nat /\ k.size \in Nat /\ k.size <= K
      /\ k.root = at(0)
      /\ \A i \in 1..K : at(i) = IF at(i - 1) = 0 THEN 0 ELSE k.pool[at(i - 1)].next
  <2>1. /\ K \in Nat /\ k.size \in Nat /\ k.size <= K
        /\ \A i \in 1..k.size : L[i] # 0
    BY Capacity DEF IsList, Slots
  <2>2. k.root = at(0)
    BY <2>1 DEF IsList, Linked
  <2>3. ASSUME NEW i \in 1..K
        PROVE  at(i) = IF at(i - 1) = 0 THEN 0 ELSE k.pool[at(i - 1)].next
    <3>1. CASE i - 1 < k.size
      <4>1. i \in 1..k.size /\ at(i - 1) = L[i] /\ L[i] # 0
        BY <2>1, <3>1
      <4>2. k.pool[L[i]].next = IF i = k.size THEN 0 ELSE L[i + 1]
        BY <4>1 DEF IsList, Linked
      <4> QED
        BY <2>1, <4>1, <4>2
    <3>2. CASE ~(i - 1 < k.size)
      BY <2>1, <3>2
    <3> QED
      BY <3>1, <3>2
  <2> QED
    BY <2>1, <2>2, <2>3
<1> HIDE DEF K, at
<1>2. Loop(f)
  <2>1. ASSUME NEW i \in 0..K
        PROVE  f[i] = IF i = 0 THEN k.root
                      ELSE IF f[i - 1] = 0 THEN 0 ELSE k.pool[f[i - 1]].next
    <3>1. CASE i = 0
      BY <1>1, <3>1
    <3>2. CASE i # 0
      <4>1. i \in 1..K /\ i - 1 \in 0..K
        BY <1>1, <3>2
      <4> QED
        BY <1>1, <3>2, <4>1
    <3> QED
      BY <3>1, <3>2
  <2> QED
    BY <2>1
<1>3. Loop(w)
  BY <1>2
<1>4. Keys!Walk(k) = w
  BY DEF Keys!Walk, K
<1> HIDE DEF f, w
<1>5. /\ w[0] = k.root /\ DOMAIN w = 0..K
      /\ \A i \in 1..K : w[i] = IF w[i - 1] = 0 THEN 0 ELSE k.pool[w[i - 1]].next
  <2>1. \A i \in 0..K : w[i] = IF i = 0 THEN k.root
                               ELSE IF w[i - 1] = 0 THEN 0 ELSE k.pool[w[i - 1]].next
    BY <1>3
  <2> QED
    BY <1>1, <1>3, <2>1
<1> DEFINE S == {i \in 0..K : w[i] = at(i)}
<1>6. 0 \in S /\ \A i \in 1..K : i - 1 \in S => i \in S
  BY <1>1, <1>5
<1> HIDE DEF S
<1>7. \A i \in 0..K : i \in S
  BY <1>1, <1>6, UpTo
<1> QED
  BY <1>4, <1>7 DEF S, at, K

LEMMA ListIsRead ==
  ASSUME NEW k, NEW L, IsList(k, L)
  PROVE  Keys!SlotList(k) = L /\ Keys!Walk(k)[k.size] = 0
<1> DEFINE w == Keys!Walk(k)
           Ends == {i \in 0..KeyCapacity : w[i] = 0} \cup {KeyCapacity}
<1>1. /\ KeyCapacity \in Nat /\ k.size \in 0..KeyCapacity /\ L \in [1..k.size -> Slots]
      /\ \A i \in 1..k.size : L[i] # 0
      /\ \A i \in 0..KeyCapacity : w[i] = IF i < k.size THEN L[i + 1] ELSE 0
  BY Capacity, WalkReads DEF IsList, Slots
<1>2. Keys!SlotList(k) = [i \in 1..Keys!Lowest(Ends) |-> w[i - 1]]
  BY DEF Keys!SlotList
<1> HIDE DEF w
<1>3. Keys!Lowest(Ends) = k.size
  <2>1. Ends \in SUBSET Int /\ k.size \in Ends /\ w[k.size] = 0
    BY <1>1
  <2>2. ASSUME NEW y \in Ends PROVE k.size <= y
    <3>1. CASE y < k.size
      <4>1. y \in 0..KeyCapacity /\ y + 1 \in 1..k.size /\ y # KeyCapacity
        BY <1>1, <3>1
      <4> QED
        BY <1>1, <3>1, <4>1
    <3> QED
      BY <1>1, <3>1
  <2> HIDE DEF Ends
  <2> QED
    BY <2>1, <2>2, LowestIs
<1>4. [i \in 1..k.size |-> w[i - 1]] = L
  <2>1. \A i \in 1..k.size : w[i - 1] = L[i]
    BY <1>1
  <2> QED
    BY <1>1, <2>1
<1> QED
  BY <1>1, <1>2, <1>3, <1>4 DEF w

-----------------------------------------------------------------------------
\* The slots of a list: they differ, some slot is left unless it is full, and none then.
SlotsIn(k, L) == {L[i] : i \in 1..k.size}

LEMMA SlotsOfList ==
  ASSUME NEW k, NEW L, IsList(k, L)
  PROVE  /\ Cardinality(SlotsIn(k, L)) = k.size
         /\ k.size < KeyCapacity => \E s \in Slots : s \notin SlotsIn(k, L)
         /\ k.size = KeyCapacity => SlotsIn(k, L) = Slots
         /\ \A i, j \in 1..k.size : L[i] = L[j] => i = j
         /\ \A i \in 1..k.size : k.pool[L[i]].note # Keys!kFreeSlot
         /\ \A s \in 0..KeyCapacity : s \notin SlotsIn(k, L) => k.pool[s] = Keys!Empty
         /\ SlotsIn(k, L) = {s \in Slots : k.pool[s].note # Keys!kFreeSlot}
<1> DEFINE U == {L[i] : i \in 1..k.size}
<1>1. /\ k.size \in Nat /\ KeyCapacity \in Nat /\ L \in [1..k.size -> U]
      /\ U \in SUBSET Slots
  BY Capacity DEF IsList
<1>2. \A i, j \in 1..k.size : L[i] = L[j] => i = j
  BY DEF IsList, NotesDiffer
<1>3. \A i \in 1..k.size : k.pool[L[i]].note # Keys!kFreeSlot
  <2>1. \A n \in Notes : n # 255
    BY MaxNoteAssumption DEF Notes
  <2> QED
    BY <2>1 DEF IsList, Linked, Keys!kFreeSlot
<1>4. \A s \in 0..KeyCapacity : s \notin U => k.pool[s] = Keys!Empty
  BY DEF IsList, Linked
<1>5. ASSUME NEW n \in Nat PROVE IsFiniteSet(1..n) /\ Cardinality(1..n) = n
  <2>1. IsFiniteSet(1..n) /\ Cardinality(1..n) = IF 1 > n THEN 0 ELSE n - 1 + 1
    <3>1. 1 \in Int /\ n \in Int
      OBVIOUS
    <3> QED
      BY ONLY <3>1, FS_Interval
  <2> QED
    BY <2>1
<1>6. /\ IsFiniteSet(1..k.size) /\ Cardinality(1..k.size) = k.size
      /\ IsFiniteSet(Slots) /\ Cardinality(Slots) = KeyCapacity
  BY <1>1, <1>5 DEF Slots
<1>7. L \in Injection(1..k.size, U) /\ L \in Surjection(1..k.size, U)
  <2>1. \A u \in U : \E i \in 1..k.size : L[i] = u
    OBVIOUS
  <2> HIDE DEF U
  <2> QED
    BY <1>1, <1>2, <2>1 DEF Injection, IsInjective, Surjection
<1>8. IsFiniteSet(U) /\ Cardinality(U) = k.size
  <2>1. /\ IsFiniteSet(U)
        /\ Cardinality(U) = Cardinality(1..k.size) <=> L \in Injection(1..k.size, U)
    <3> HIDE DEF U
    <3> QED
      BY ONLY <1>6, <1>7, FS_Surjection
  <2> HIDE DEF U
  <2> QED
    BY <1>6, <1>7, <2>1
<1>9. k.size < KeyCapacity => \E s \in Slots : s \notin U
  <2> SUFFICES ASSUME \A s \in Slots : s \in U PROVE k.size = KeyCapacity
    BY <1>1
  <2> HIDE DEF U
  <2>1. U = Slots
    BY <1>1
  <2> QED
    BY <1>6, <1>8, <2>1
<1>10. k.size = KeyCapacity => U = Slots
  BY <1>1, <1>6, <1>8, FS_Subset
<1>11. U = {s \in Slots : k.pool[s].note # Keys!kFreeSlot}
  <2>1. ASSUME NEW s \in U PROVE k.pool[s].note # Keys!kFreeSlot
    BY <1>3
  <2>2. ASSUME NEW s \in Slots, s \notin U PROVE k.pool[s].note = Keys!kFreeSlot
    <3>1. k.pool[s] = Keys!Empty
      BY <1>1, <1>4, <2>2 DEF Slots
    <3> QED
      BY <3>1 DEF Keys!Empty
  <2> HIDE DEF U
  <2> QED
    BY <1>1, <2>1, <2>2
<1> QED
  BY <1>2, <1>3, <1>4, <1>8, <1>9, <1>10, <1>11 DEF SlotsIn

-----------------------------------------------------------------------------
(* A note is taken out.                                                    *)

\* The first n of s without the one in a place, and with one put in front.
CutAt(s, n, at) == [i \in 1..(n - 1) |-> IF i < at THEN s[i] ELSE s[i + 1]]
Pushed(x, s, n) == [i \in 1..(n + 1) |-> IF i = 1 THEN x ELSE s[i - 1]]

\* The slot that a note-off finds.
LEMMA NoteIsFound ==
  ASSUME NEW k, NEW L, IsList(k, L), NEW n
  PROVE  /\ (\A i \in 1..k.size : k.pool[L[i]].note # n) => Keys!AfterNoteOff(k, n) = k
         /\ \A at \in 1..k.size : k.pool[L[at]].note = n =>
              Keys!AfterNoteOff(k, n) =
                [pool   |-> Keys!Unlinked(k, L[at], IF at = 1 THEN 0 ELSE L[at - 1]),
                 root   |-> IF at = 1 THEN k.pool[L[at]].next ELSE k.root,
                 sorted |-> Keys!Unranked(k, L[at]),
                 size   |-> k.size - 1]
<1> DEFINE hits == {i \in DOMAIN L : k.pool[L[i]].note = n}
<1>1. /\ Keys!SlotList(k) = L /\ DOMAIN L = 1..k.size /\ k.size \in Nat
      /\ \A i, j \in 1..k.size : k.pool[L[i]].note = k.pool[L[j]].note => i = j
  BY ListIsRead DEF IsList, NotesDiffer
<1>2. Keys!AfterNoteOff(k, n) =
        IF hits = {} THEN k
        ELSE LET at      == Keys!Lowest(hits)
                 current == L[at]
             IN  [pool   |-> Keys!Unlinked(k, current, IF at = 1 THEN 0 ELSE L[at - 1]),
                  root   |-> IF at = 1 THEN k.pool[current].next ELSE k.root,
                  sorted |-> Keys!Unranked(k, current),
                  size   |-> k.size - 1]
  BY <1>1 DEF Keys!AfterNoteOff
<1>3. (\A i \in 1..k.size : k.pool[L[i]].note # n) => hits = {}
  BY <1>1
<1>4. ASSUME NEW at \in 1..k.size, k.pool[L[at]].note = n
      PROVE  hits # {} /\ Keys!Lowest(hits) = at
  <2>1. hits = {at}
    BY <1>1, <1>4
  <2>2. at \in Int
    OBVIOUS
  <2> HIDE DEF hits
  <2> QED
    BY <2>1, <2>2, LowestIs
<1> HIDE DEF hits
<1> QED
  BY <1>2, <1>3, <1>4

\* What the freed slot and its predecessor become.
LEMMA UnlinkedFields ==
  ASSUME NEW k, NEW L, IsList(k, L), NEW at \in 1..k.size
  PROVE  LET c == L[at]
             p == IF at = 1 THEN 0 ELSE L[at - 1]
             pool == Keys!Unlinked(k, c, p)
         IN  /\ pool \in [0..KeyCapacity -> Entry]
             /\ pool[c] = Keys!Empty
             /\ \A s \in (0..KeyCapacity) \ {c, p} : pool[s] = k.pool[s]
             /\ p = 0 => pool[0] = k.pool[0]
             /\ p # 0 => /\ pool[p].note = k.pool[p].note
                         /\ pool[p].velocity = k.pool[p].velocity
                         /\ pool[p].next = k.pool[c].next
<1> DEFINE c == L[at]
           p == IF at = 1 THEN 0 ELSE L[at - 1]
           e == Keys!Empty
           pool == Keys!Unlinked(k, c, p)
           K == KeyCapacity
<1>1. /\ c \in 0..K /\ p \in 0..K /\ p # c /\ c # 0
  <2>1. /\ L \in [1..k.size -> Slots] /\ k.size \in Nat /\ K \in Nat
        /\ \A i, j \in 1..k.size : L[i] = L[j] => i = j
    <3>1. \A i, j \in 1..k.size : L[i] = L[j] => i = j
      BY SlotsOfList
    <3> QED
      BY <3>1, Capacity DEF IsList
  <2>2. at # 1 => at - 1 \in 1..k.size
    BY <2>1
  <2> QED
    BY <2>1, <2>2 DEF Slots
<1>2. k.pool \in [0..K -> Entry] /\ e \in Entry
  <2>1. e \in Entry
    BY Capacity DEF Keys!Empty, Keys!kFreeSlot, Entry
  <2> QED
    BY <2>1 DEF IsList, Linked
<1>3. pool = IF p = 0 THEN [k.pool EXCEPT ![c] = e]
             ELSE [[k.pool EXCEPT ![c] = e] EXCEPT ![p].next = k.pool[c].next]
  BY DEF Keys!Unlinked
<1> HIDE DEF c, p, e, pool, K
<1> DEFINE b == [k.pool EXCEPT ![c] = e]
<1>4. b \in [0..K -> Entry] /\ b[c] = e /\ \A s \in (0..K) \ {c} : b[s] = k.pool[s]
  BY <1>1, <1>2
<1> HIDE DEF b
<1>5. CASE p = 0
  BY <1>1, <1>3, <1>4, <1>5 DEF b, c, p, e, pool, K
<1>6. CASE p # 0
  <2> DEFINE x == k.pool[c].next
             f == [b[p] EXCEPT !.next = x]
  <2>1. b[p] \in Entry /\ b[p] = k.pool[p] /\ x \in 0..KeyCapacity
    <3>1. k.pool[c] \in Entry
      BY ONLY <1>1, <1>2
    <3>2. b[p] \in Entry /\ b[p] = k.pool[p]
      BY ONLY <1>1, <1>4
    <3> QED
      BY ONLY <3>1, <3>2 DEF Entry
  <2> HIDE DEF x
  <2>2. f \in Entry /\ f.note = k.pool[p].note /\ f.velocity = k.pool[p].velocity /\ f.next = x
    BY <2>1 DEF Entry
  <2>3. pool = [b EXCEPT ![p] = f]
    BY <1>3, <1>6 DEF b, x
  <2> HIDE DEF f
  <2>4. /\ pool \in [0..K -> Entry] /\ pool[c] = e /\ pool[p] = f
        /\ \A s \in (0..K) \ {c, p} : pool[s] = k.pool[s]
    BY <1>1, <1>4, <2>2, <2>3
  <2> QED
    BY <1>6, <2>2, <2>4 DEF c, p, e, pool, K, x
<1> QED
  BY <1>5, <1>6

\* The list without the slot.
LEMMA CutLinked ==
  ASSUME NEW k, NEW L, IsList(k, L), NEW at \in 1..k.size,
         NEW m, m.size = k.size - 1,
         m.pool = Keys!Unlinked(k, L[at], IF at = 1 THEN 0 ELSE L[at - 1]),
         m.root = IF at = 1 THEN k.pool[L[at]].next ELSE k.root
  PROVE  LET M == CutAt(L, k.size, at)
         IN  /\ M \in [1..m.size -> Slots] /\ Linked(m, M) /\ NotesDiffer(m, M)
             /\ \A i \in 1..m.size :
                  LET j == IF i < at THEN i ELSE i + 1
                  IN  /\ j \in 1..k.size /\ M[i] = L[j]
                      /\ m.pool[M[i]].note = k.pool[L[j]].note
                      /\ m.pool[M[i]].velocity = k.pool[L[j]].velocity
<1> DEFINE c == L[at]
           p == IF at = 1 THEN 0 ELSE L[at - 1]
           K == KeyCapacity
           M == CutAt(L, k.size, at)
           J(i) == IF i < at THEN i ELSE i + 1
<1>1. /\ k.size \in Nat /\ at \in Nat /\ m.size = k.size - 1 /\ K \in Nat
      /\ \A i \in 1..k.size : L[i] \in 0..K /\ L[i] \in Slots /\ L[i] # 0
      /\ \A i, j \in 1..k.size : L[i] = L[j] => i = j
  <2>1. \A i, j \in 1..k.size : L[i] = L[j] => i = j
    BY SlotsOfList
  <2>2. k.size \in Nat /\ K \in Nat /\ L \in [1..k.size -> 1..K]
    BY Capacity DEF IsList, Slots
  <2> QED
    BY <2>1, <2>2 DEF Slots
<1>2. /\ m.pool \in [0..K -> Entry]
      /\ m.pool[c] = Keys!Empty
      /\ \A s \in (0..K) \ {c, p} : m.pool[s] = k.pool[s]
      /\ p = 0 => m.pool[0] = k.pool[0]
      /\ p # 0 => /\ m.pool[p].note = k.pool[p].note
                  /\ m.pool[p].velocity = k.pool[p].velocity
                  /\ m.pool[p].next = k.pool[c].next
  BY UnlinkedFields
<1>3. /\ k.root = IF k.size = 0 THEN 0 ELSE L[1]
      /\ \A i \in 1..k.size :
           /\ k.pool[L[i]].next = IF i = k.size THEN 0 ELSE L[i + 1]
           /\ k.pool[L[i]].note \in Notes /\ k.pool[L[i]].velocity \in Velocities
      /\ \A s \in 0..K : (\A i \in 1..k.size : L[i] # s) => k.pool[s] = Keys!Empty
      /\ \A i, j \in 1..k.size : k.pool[L[i]].note = k.pool[L[j]].note => i = j
  BY DEF IsList, Linked, NotesDiffer
<1>4. \A i \in 1..m.size : M[i] = L[J(i)] /\ J(i) \in 1..k.size /\ J(i) # at
  BY <1>1 DEF CutAt
<1>5. M \in [1..m.size -> Slots]
  <2>1. M = [i \in 1..m.size |-> L[J(i)]]
    BY <1>1 DEF CutAt
  <2> HIDE DEF M, J
  <2> QED
    BY <1>1, <1>4, <2>1
<1>6. p = 0 <=> at = 1
  BY <1>1
<1>7. \A j \in 1..k.size : j # at =>
        /\ L[j] # c
        /\ m.pool[L[j]].note = k.pool[L[j]].note
        /\ m.pool[L[j]].velocity = k.pool[L[j]].velocity
        /\ m.pool[L[j]].next = IF j = at - 1 THEN k.pool[c].next ELSE k.pool[L[j]].next
  <2> SUFFICES ASSUME NEW j \in 1..k.size, j # at
               PROVE  /\ L[j] # c
                      /\ m.pool[L[j]].note = k.pool[L[j]].note
                      /\ m.pool[L[j]].velocity = k.pool[L[j]].velocity
                      /\ m.pool[L[j]].next = IF j = at - 1 THEN k.pool[c].next ELSE k.pool[L[j]].next
    OBVIOUS
  <2>1. L[j] # c /\ L[j] # 0 /\ L[j] \in 0..K
    BY <1>1
  <2>2. CASE j = at - 1
    <3>1. p = L[j] /\ p # 0
      BY <1>1, <2>1, <2>2
    <3> QED
      BY <1>2, <2>1, <2>2, <3>1
  <2>3. CASE j # at - 1
    <3>1. L[j] # p
      <4>1. at # 1 => at - 1 \in 1..k.size
        BY <1>1
      <4> QED
        BY <1>1, <2>1, <2>3, <4>1
    <3>2. m.pool[L[j]] = k.pool[L[j]]
      BY <1>2, <2>1, <3>1
    <3> QED
      BY <2>1, <2>3, <3>2
  <2> QED
    BY <2>2, <2>3
<1> HIDE DEF c, p, K, M
<1>8. \A i \in 1..m.size :
        /\ m.pool[M[i]].note = k.pool[L[J(i)]].note
        /\ m.pool[M[i]].velocity = k.pool[L[J(i)]].velocity
  BY <1>4, <1>7
<1>9. NotesDiffer(m, M)
  <2>1. ASSUME NEW i \in 1..m.size, NEW j \in 1..m.size, m.pool[M[i]].note = m.pool[M[j]].note
        PROVE  i = j
    <3>1. J(i) = J(j)
      BY <1>3, <1>4, <1>8, <2>1
    <3> QED
      BY <1>1, <3>1
  <2> QED
    BY <2>1 DEF NotesDiffer
<1>10. Linked(m, M)
  <2>1. m.root = IF m.size = 0 THEN 0 ELSE M[1]
    <3>1. CASE at = 1
      <4>1. m.root = IF 1 = k.size THEN 0 ELSE L[2]
        BY <1>3, <3>1
      <4>2. m.size # 0 => M[1] = L[2]
        BY <1>1, <1>4, <3>1
      <4> QED
        BY <1>1, <4>1, <4>2
    <3>2. CASE at # 1
      <4>1. m.root = L[1] /\ m.size # 0 /\ 1 \in 1..m.size
        BY <1>1, <1>3, <3>2
      <4>2. M[1] = L[1]
        BY <1>1, <1>4, <3>2, <4>1
      <4> QED
        BY <4>1, <4>2
    <3> QED
      BY <3>1, <3>2
  <2>2. ASSUME NEW i \in 1..m.size
        PROVE  /\ m.pool[M[i]].next = IF i = m.size THEN 0 ELSE M[i + 1]
               /\ m.pool[M[i]].note \in Notes /\ m.pool[M[i]].velocity \in Velocities
    <3>1. m.pool[M[i]].note \in Notes /\ m.pool[M[i]].velocity \in Velocities
      BY <1>3, <1>4, <1>8
    <3>2. m.pool[M[i]].next = IF J(i) = at - 1 THEN k.pool[c].next ELSE k.pool[L[J(i)]].next
      BY <1>4, <1>7
    <3>3. i # m.size => i + 1 \in 1..m.size /\ M[i + 1] = L[J(i + 1)]
      BY <1>1, <1>4
    <3>4. CASE J(i) = at - 1
      <4>1. i = at - 1 /\ k.pool[c].next = IF at = k.size THEN 0 ELSE L[at + 1]
        BY <1>1, <1>3, <3>4 DEF c
      <4> QED
        BY <1>1, <3>1, <3>2, <3>3, <3>4, <4>1
    <3>5. CASE J(i) # at - 1
      <4>1. k.pool[L[J(i)]].next = IF J(i) = k.size THEN 0 ELSE L[J(i) + 1]
        BY <1>3, <1>4
      <4>2. i # m.size => J(i + 1) = J(i) + 1 /\ J(i) # k.size
        BY <1>1, <3>5
      <4>3. i = m.size => J(i) = k.size
        BY <1>1, <3>5
      <4> HIDE DEF J
      <4> QED
        BY <3>1, <3>2, <3>3, <3>5, <4>1, <4>2, <4>3
    <3> QED
      BY <3>4, <3>5
  <2>3. ASSUME NEW s \in 0..K, \A i \in 1..m.size : M[i] # s
        PROVE  m.pool[s] = Keys!Empty
    <3>1. CASE s = c
      BY <1>2, <3>1
    <3>2. CASE s # c
      <4>1. ASSUME NEW j \in 1..k.size PROVE L[j] # s
        <5>1. CASE j = at
          BY <3>2, <5>1 DEF c
        <5>2. CASE j # at
          <6> DEFINE i == IF j < at THEN j ELSE j - 1
          <6>1. i \in 1..m.size /\ J(i) = j
            BY <1>1, <5>2
          <6> QED
            BY <1>4, <2>3, <6>1
        <5> QED
          BY <5>1, <5>2
      <4>2. k.pool[s] = Keys!Empty
        BY <1>3, <4>1
      <4>3. p # 0 => p # s
        <5>1. at # 1 => at - 1 \in 1..k.size /\ p = L[at - 1]
          BY <1>1 DEF p
        <5> QED
          BY <1>6, <4>1, <5>1
      <4> QED
        BY <1>2, <3>2, <4>2, <4>3
    <3> QED
      BY <3>1, <3>2
  <2> QED
    BY <1>2, <2>1, <2>2, <2>3 DEF Linked, K
<1> QED
  BY <1>4, <1>5, <1>8, <1>9, <1>10 DEF M

\* The array without the slot.
LEMMA CutRanked ==
  ASSUME NEW k, NEW L, IsList(k, L), NEW at \in 1..k.size,
         NEW m, m.size = k.size - 1, m.sorted = Keys!Unranked(k, L[at]),
         \A i \in 1..k.size : i # at => m.pool[L[i]].note = k.pool[L[i]].note
  PROVE  Ranked(m, CutAt(L, k.size, at))
<1> DEFINE c == L[at]
           K == KeyCapacity
           M == CutAt(L, k.size, at)
           J(i) == IF i < at THEN i ELSE i + 1
           rank == {i \in 0..(k.size - 1) : k.sorted[i] = c}
<1>1. /\ k.size \in 0..K /\ at \in Nat /\ m.size = k.size - 1 /\ K \in Nat
      /\ k.sorted \in [0..K -> 0..K]
      /\ \A i \in 1..k.size : \E r \in 0..(k.size - 1) : k.sorted[r] = L[i]
      /\ \A r \in 0..(k.size - 1) : \E i \in 1..k.size : k.sorted[r] = L[i]
      /\ \A q, r \in 0..(k.size - 1) :
           q < r => k.pool[k.sorted[q]].note < k.pool[k.sorted[r]].note
      /\ \A i \in 1..k.size : k.pool[L[i]].note \in Nat
  <2>1. k.size \in 0..K /\ at \in Nat /\ m.size = k.size - 1 /\ K \in Nat
    BY Capacity DEF IsList
  <2>2. \A i \in 1..k.size : k.pool[L[i]].note \in Nat
    BY DEF IsList, Linked, Notes
  <2> QED
    BY <2>1, <2>2 DEF IsList, Ranked
<1>0. k.size \in Nat /\ at \in Nat /\ at >= 1 /\ at <= k.size /\ m.size = k.size - 1
  BY <1>1
<1>2. \A i, j \in 1..k.size : L[i] = L[j] => i = j
  BY SlotsOfList
<1>3. \A i \in 1..m.size : M[i] = L[J(i)] /\ J(i) \in 1..k.size /\ J(i) # at
  BY <1>0 DEF CutAt
<1>4. PICK r0 \in 0..(k.size - 1) : k.sorted[r0] = c
  BY <1>1
<1>5. \A r \in 0..(k.size - 1) : r # r0 => k.sorted[r] # c
  <2> SUFFICES ASSUME NEW r \in 0..(k.size - 1), r # r0, k.sorted[r] = c PROVE FALSE
    OBVIOUS
  <2>1. r < r0 \/ r0 < r
    BY <1>1
  <2>2. k.pool[c].note < k.pool[c].note /\ k.pool[c].note \in Nat
    BY <1>1, <1>4, <2>1
  <2> QED
    BY <2>2
<1> DEFINE G(q) == IF q < r0 THEN q ELSE q + 1
<1>6. /\ m.sorted \in [0..K -> 0..K]
      /\ \A q \in 0..(m.size - 1) :
           m.sorted[q] = k.sorted[G(q)] /\ G(q) \in 0..(k.size - 1) /\ G(q) # r0
  <2>1. rank = {r0}
    BY <1>4, <1>5
  <2>2. Keys!Lowest(rank) = r0
    <3>1. r0 \in Int
      BY <1>1
    <3> HIDE DEF rank
    <3> QED
      BY <2>1, <3>1, LowestIs
  <2>3. m.sorted = [i \in 0..K |-> IF i \in r0..(k.size - 2) THEN k.sorted[i + 1] ELSE k.sorted[i]]
    <3>1. Keys!Unranked(k, c) =
            IF rank = {} THEN k.sorted
            ELSE [i \in 0..K |-> IF i \in Keys!Lowest(rank)..(k.size - 2) THEN k.sorted[i + 1]
                                 ELSE k.sorted[i]]
      BY DEF Keys!Unranked
    <3> HIDE DEF rank
    <3> QED
      BY <2>1, <2>2, <3>1
  <2>4. /\ r0 \in Nat /\ k.size \in Nat /\ \A i \in r0..(k.size - 2) : i + 1 \in 0..K
        /\ m.size = k.size - 1 /\ 0..(m.size - 1) \subseteq 0..K
        /\ k.sorted \in [0..K -> 0..K]
    <3>1. K \in Nat /\ k.size \in 0..K
      BY ONLY <1>1
    <3>2. k.sorted \in [0..K -> 0..K]
      BY ONLY <1>1
    <3>3. r0 \in 0..(k.size - 1)
      OBVIOUS
    <3> HIDE DEF K
    <3>4. k.size <= K
      BY ONLY <3>1
    <3>5. r0 \in Nat /\ \A i \in r0..(k.size - 2) : i + 1 \in 0..K
      BY ONLY <1>0, <3>1, <3>3, <3>4
    <3>6. 0..(m.size - 1) \subseteq 0..K
      BY ONLY <1>0, <3>1, <3>4
    <3> QED
      BY ONLY <1>0, <3>2, <3>5, <3>6
  <2>5. m.sorted \in [0..K -> 0..K]
    BY <2>3, <2>4
  <2>6. ASSUME NEW q \in 0..(m.size - 1)
        PROVE  m.sorted[q] = k.sorted[G(q)] /\ G(q) \in 0..(k.size - 1) /\ G(q) # r0
    <3>1. q \in r0..(k.size - 2) <=> ~(q < r0)
      BY <2>4
    <3>2. m.sorted[q] = IF q \in r0..(k.size - 2) THEN k.sorted[q + 1] ELSE k.sorted[q]
      BY <2>3, <2>4
    <3>3. G(q) \in 0..(k.size - 1) /\ G(q) # r0
      BY <2>4
    <3> QED
      BY <3>1, <3>2, <3>3
  <2> QED
    BY <2>5, <2>6
<1>7. \A q \in 0..(m.size - 1) :
        \E i \in 1..m.size : m.sorted[q] = M[i] /\ m.pool[M[i]].note = k.pool[k.sorted[G(q)]].note
  <2> SUFFICES ASSUME NEW q \in 0..(m.size - 1)
               PROVE  \E i \in 1..m.size : m.sorted[q] = M[i]
                                           /\ m.pool[M[i]].note = k.pool[k.sorted[G(q)]].note
    OBVIOUS
  <2> HIDE DEF G
  <2>1. PICK j \in 1..k.size : k.sorted[G(q)] = L[j]
    BY <1>1, <1>6
  <2>2. j # at
    BY <1>5, <1>6, <2>1
  <2> DEFINE i == IF j < at THEN j ELSE j - 1
  <2>3. i \in 1..m.size /\ J(i) = j
    BY <1>0, <2>2
  <2> HIDE DEF i
  <2>4. M[i] = L[j]
    BY <1>3, <2>3
  <2> QED
    BY <1>6, <2>1, <2>2, <2>3, <2>4
<1>8. ASSUME NEW i \in 1..m.size PROVE \E q \in 0..(m.size - 1) : m.sorted[q] = M[i]
  <2>1. M[i] = L[J(i)] /\ J(i) \in 1..k.size /\ L[J(i)] # c
    BY <1>2, <1>3
  <2> HIDE DEF J
  <2>2. PICK r \in 0..(k.size - 1) : k.sorted[r] = L[J(i)]
    BY <1>1, <2>1
  <2>3. r # r0
    BY <1>4, <2>1, <2>2
  <2> DEFINE q == IF r < r0 THEN r ELSE r - 1
  <2>4. q \in 0..(m.size - 1) /\ G(q) = r
    BY <1>0, <2>3
  <2> HIDE DEF q, G
  <2> QED
    BY <1>6, <2>1, <2>2, <2>4
<1>9. ASSUME NEW q \in 0..(m.size - 1), NEW r \in 0..(m.size - 1), q < r
      PROVE  m.pool[m.sorted[q]].note < m.pool[m.sorted[r]].note
  <2>1. G(q) < G(r)
    BY <1>0, <1>9
  <2> HIDE DEF G, M
  <2>2. k.pool[k.sorted[G(q)]].note < k.pool[k.sorted[G(r)]].note
    BY <1>1, <1>6, <2>1
  <2>3. /\ m.pool[m.sorted[q]].note = k.pool[k.sorted[G(q)]].note
        /\ m.pool[m.sorted[r]].note = k.pool[k.sorted[G(r)]].note
    BY <1>7
  <2> QED
    BY <2>2, <2>3
<1> HIDE DEF M, G
<1> QED
  BY <1>6, <1>7, <1>8, <1>9 DEF Ranked, K, M

-----------------------------------------------------------------------------
\* The notes of a list, as AbstractStack reads them.
StackOf(k, L) ==
  [i \in 1..k.size |-> [note     |-> k.pool[L[i]].note,
                        velocity |-> k.pool[L[i]].velocity]]

Keystrokes == [note : Notes, velocity : Velocities]

LEMMA StackIsRead ==
  ASSUME NEW k, NEW L, IsList(k, L)
  PROVE  /\ StackOf(k, L) \in Seq(Keystrokes) /\ Len(StackOf(k, L)) = k.size
         /\ \A i \in 1..k.size :
              StackOf(k, L)[i] = [note     |-> k.pool[L[i]].note,
                                  velocity |-> k.pool[L[i]].velocity]
         /\ \A i \in 1..k.size : StackOf(k, L)[i].note = k.pool[L[i]].note
         /\ \A i, j \in 1..k.size : StackOf(k, L)[i].note = StackOf(k, L)[j].note => i = j
<1> DEFINE s == StackOf(k, L)
           e(i) == [note |-> k.pool[L[i]].note, velocity |-> k.pool[L[i]].velocity]
<1>1. /\ k.size \in Nat
      /\ \A i \in 1..k.size :
           k.pool[L[i]].note \in Notes /\ k.pool[L[i]].velocity \in Velocities
      /\ \A i, j \in 1..k.size : k.pool[L[i]].note = k.pool[L[j]].note => i = j
  BY Capacity DEF IsList, Linked, NotesDiffer
<1>2. /\ s = [i \in 1..k.size |-> e(i)]
      /\ \A i \in 1..k.size : /\ e(i) \in Keystrokes
                              /\ e(i).note = k.pool[L[i]].note
                              /\ e(i).velocity = k.pool[L[i]].velocity
  BY <1>1 DEF StackOf, Keystrokes
<1> HIDE DEF s, e
<1>3. s \in Seq(Keystrokes) /\ Len(s) = k.size /\ \A i \in 1..k.size : s[i] = e(i)
  BY <1>1, <1>2
<1> QED
  BY <1>1, <1>2, <1>3 DEF s, e

\* Taking out an entry, place by place.
LEMMA CutIsRemoved ==
  ASSUME NEW S, NEW s \in Seq(S), NEW at \in 1..Len(s)
  PROVE  /\ CutAt(s, Len(s), at) \in Seq(S) /\ Len(CutAt(s, Len(s), at)) = Len(s) - 1
         /\ SubSeq(s, 1, at - 1) \o SubSeq(s, at + 1, Len(s)) = CutAt(s, Len(s), at)
<1> DEFINE p == SubSeq(s, 1, at - 1)
           q == SubSeq(s, at + 1, Len(s))
           w == CutAt(s, Len(s), at)
           n == Len(s)
<1>1. /\ n \in Nat /\ at \in Nat /\ 1 <= at /\ at <= n
      /\ \A i \in 1..n : s[i] \in S
  OBVIOUS
<1>2. /\ p \in Seq(S) /\ Len(p) = at - 1 /\ \A i \in 1..(at - 1) : p[i] = s[i]
      /\ q \in Seq(S) /\ Len(q) = n - at /\ \A i \in 1..(n - at) : q[i] = s[at + i]
  OBVIOUS
<1>3. w = [i \in 1..(n - 1) |-> IF i < at THEN s[i] ELSE s[i + 1]]
  BY DEF CutAt
<1>4. w \in [1..(n - 1) -> S]
  BY <1>1, <1>3
<1> HIDE DEF w, n
<1>5. w \in Seq(S) /\ Len(w) = n - 1
  BY <1>1, <1>4
<1> HIDE DEF p, q
<1>6. /\ p \o q \in Seq(S) /\ Len(p \o q) = n - 1
      /\ \A i \in 1..(n - 1) : (p \o q)[i] = IF i < at THEN p[i] ELSE q[i - (at - 1)]
  <2>1. p \in Seq(S) /\ q \in Seq(S) /\ Len(p) = at - 1 /\ Len(q) = n - at
    BY <1>2
  <2>2. n \in Nat /\ at \in Nat /\ 1 <= at /\ at <= n
    BY <1>1
  <2>3. /\ p \o q \in Seq(S) /\ Len(p \o q) = Len(p) + Len(q)
        /\ \A i \in 1..(Len(p) + Len(q)) : (p \o q)[i] = IF i <= Len(p) THEN p[i] ELSE q[i - Len(p)]
    BY ONLY <2>1, ConcatProperties
  <2> DEFINE r == p \o q
  <2> HIDE DEF r
  <2>4. Len(p) + Len(q) = n - 1 /\ \A i \in 1..(n - 1) : i <= Len(p) <=> i < at
    BY ONLY <2>1, <2>2
  <2>5. r \in Seq(S) /\ Len(r) = n - 1
    BY ONLY <2>3, <2>4 DEF r
  <2>6. \A i \in 1..(n - 1) : r[i] = IF i < at THEN p[i] ELSE q[i - (at - 1)]
    BY ONLY <2>1, <2>3, <2>4 DEF r
  <2> QED
    BY ONLY <2>5, <2>6 DEF r
<1>7. \A i \in 1..(n - 1) : (p \o q)[i] = w[i]
  <2> SUFFICES ASSUME NEW i \in 1..(n - 1) PROVE (p \o q)[i] = w[i]
    OBVIOUS
  <2>1. CASE i < at
    BY <1>1, <1>2, <1>3, <1>6, <2>1
  <2>2. CASE ~(i < at)
    <3>1. i - (at - 1) \in 1..(n - at) /\ at + (i - (at - 1)) = i + 1
      BY <1>1, <2>2
    <3> QED
      BY <1>1, <1>2, <1>3, <1>6, <2>2, <3>1
  <2> QED
    BY <2>1, <2>2
<1> DEFINE r == p \o q
<1> HIDE DEF r
<1>8. r = w
  BY <1>5, <1>6, <1>7, SeqEqual DEF r
<1> QED
  BY <1>5, <1>8 DEF r, w, p, q, n

LEMMA WithoutOne ==
  ASSUME NEW S, NEW s \in Seq(S), NEW n
  PROVE  /\ (\A i \in 1..Len(s) : s[i].note # n) => Keys!Recency!Without(s, n) = s
         /\ \A at \in 1..Len(s) :
              s[at].note = n /\ (\A i \in 1..Len(s) : s[i].note = n => i = at)
                => Keys!Recency!Without(s, n) = CutAt(s, Len(s), at)
<1> DEFINE places == {i \in DOMAIN s : s[i].note = n}
<1>1. DOMAIN s = 1..Len(s)
  OBVIOUS
<1>2. Keys!Recency!Without(s, n) =
        IF places = {} THEN s ELSE Keys!Recency!RemoveAt(s, Keys!Recency!Min(places))
  BY DEF Keys!Recency!Without
<1>3. (\A i \in 1..Len(s) : s[i].note # n) => places = {}
  BY <1>1
<1>4. ASSUME NEW at \in 1..Len(s), s[at].note = n,
             \A i \in 1..Len(s) : s[i].note = n => i = at
      PROVE  Keys!Recency!Without(s, n) = CutAt(s, Len(s), at)
  <2>1. places = {at}
    BY <1>1, <1>4
  <2> HIDE DEF places
  <2>2. Keys!Recency!Min(places) = at
    BY <2>1 DEF Keys!Recency!Min
  <2>3. Keys!Recency!RemoveAt(s, at) = SubSeq(s, 1, at - 1) \o SubSeq(s, at + 1, Len(s))
    BY DEF Keys!Recency!RemoveAt
  <2>4. SubSeq(s, 1, at - 1) \o SubSeq(s, at + 1, Len(s)) = CutAt(s, Len(s), at)
    BY CutIsRemoved
  <2> QED
    BY <1>2, <2>1, <2>2, <2>3, <2>4
<1> QED
  BY <1>2, <1>3, <1>4

\* A note-off takes the note out of the list, and does nothing else.
LEMMA NoteOffCuts ==
  ASSUME NEW k, NEW L, IsList(k, L), NEW n, NEW m, m = Keys!AfterNoteOff(k, n)
  PROVE  \E M : /\ IsList(m, M) /\ m.size \in {k.size, k.size - 1}
                /\ StackOf(m, M) = Keys!Recency!Without(StackOf(k, L), n)
                /\ \A i \in 1..m.size : m.pool[M[i]].note # n
                /\ (\A i \in 1..k.size : k.pool[L[i]].note # n) => m = k /\ M = L
                /\ \A at \in 1..k.size : k.pool[L[at]].note = n =>
                     StackOf(m, M) = CutAt(StackOf(k, L), k.size, at) /\ m.size = k.size - 1
<1> DEFINE s == StackOf(k, L)
<1>1. /\ s \in Seq(Keystrokes) /\ Len(s) = k.size
      /\ \A i \in 1..k.size : s[i].note = k.pool[L[i]].note
      /\ \A i, j \in 1..k.size : s[i].note = s[j].note => i = j
  <2>1. /\ s \in Seq(Keystrokes) /\ Len(s) = k.size
        /\ \A i \in 1..k.size : s[i].note = k.pool[L[i]].note
    BY StackIsRead
  <2> HIDE DEF s
  <2>2. \A i, j \in 1..k.size : k.pool[L[i]].note = k.pool[L[j]].note => i = j
    BY DEF IsList, NotesDiffer
  <2> QED
    BY <2>1, <2>2
<1>2. CASE \A i \in 1..k.size : k.pool[L[i]].note # n
  <2>1. m = k
    BY <1>2, NoteIsFound
  <2>2. Keys!Recency!Without(s, n) = s
    <3>1. \A i \in 1..Len(s) : s[i].note # n
      BY <1>1, <1>2
    <3> HIDE DEF s
    <3> QED
      BY <1>1, <3>1, WithoutOne
  <2> QED
    BY <1>2, <2>1, <2>2
<1>3. ASSUME NEW at \in 1..k.size, k.pool[L[at]].note = n
      PROVE  LET M == CutAt(L, k.size, at)
             IN  /\ IsList(m, M) /\ m.size = k.size - 1
                 /\ StackOf(m, M) = Keys!Recency!Without(s, n)
                 /\ \A i \in 1..m.size : m.pool[M[i]].note # n
                 /\ StackOf(m, M) = CutAt(s, k.size, at)
  <2> DEFINE M == CutAt(L, k.size, at)
             J(i) == IF i < at THEN i ELSE i + 1
  <2>1. /\ m.pool = Keys!Unlinked(k, L[at], IF at = 1 THEN 0 ELSE L[at - 1])
        /\ m.root = IF at = 1 THEN k.pool[L[at]].next ELSE k.root
        /\ m.sorted = Keys!Unranked(k, L[at])
        /\ m.size = k.size - 1
    <3>1. m = [pool   |-> Keys!Unlinked(k, L[at], IF at = 1 THEN 0 ELSE L[at - 1]),
               root   |-> IF at = 1 THEN k.pool[L[at]].next ELSE k.root,
               sorted |-> Keys!Unranked(k, L[at]),
               size   |-> k.size - 1]
      BY <1>3, NoteIsFound
    <3> QED
      BY <3>1
  <2>2. /\ M \in [1..m.size -> Slots] /\ Linked(m, M) /\ NotesDiffer(m, M)
        /\ \A i \in 1..m.size :
             /\ J(i) \in 1..k.size /\ M[i] = L[J(i)]
             /\ m.pool[M[i]].note = k.pool[L[J(i)]].note
             /\ m.pool[M[i]].velocity = k.pool[L[J(i)]].velocity
    BY <2>1, CutLinked
  <2>3. k.size \in Nat /\ at \in Nat /\ 1 <= at /\ at <= k.size /\ m.size = k.size - 1
    BY <2>1 DEF IsList
  <2>4. \A i \in 1..k.size : i # at => m.pool[L[i]].note = k.pool[L[i]].note
    <3> SUFFICES ASSUME NEW i \in 1..k.size, i # at
                 PROVE  m.pool[L[i]].note = k.pool[L[i]].note
      OBVIOUS
    <3> DEFINE j == IF i < at THEN i ELSE i - 1
    <3>1. j \in 1..m.size /\ J(j) = i
      BY <2>3
    <3> HIDE DEF j, J, M
    <3> QED
      BY <2>2, <3>1
  <2>5. Ranked(m, M)
    BY <2>1, <2>4, CutRanked
  <2>6. IsList(m, M)
    <3>1. m.size \in 0..KeyCapacity
      BY <2>3, Capacity DEF IsList
    <3> QED
      BY <2>2, <2>5, <3>1 DEF IsList
  <2> HIDE DEF M
  <2>7. \A i \in 1..m.size : m.pool[M[i]].note # n
    <3> SUFFICES ASSUME NEW i \in 1..m.size PROVE m.pool[M[i]].note # n
      OBVIOUS
    <3>1. J(i) # at
      BY <2>3
    <3> HIDE DEF J
    <3> QED
      BY <1>1, <1>3, <2>2, <3>1
  <2>8. StackOf(m, M) = CutAt(s, k.size, at)
    <3>1. \A i \in 1..m.size :
            [note |-> m.pool[M[i]].note, velocity |-> m.pool[M[i]].velocity]
              = IF i < at THEN s[i] ELSE s[i + 1]
      <4> SUFFICES ASSUME NEW i \in 1..m.size
                   PROVE  [note |-> m.pool[M[i]].note, velocity |-> m.pool[M[i]].velocity] = s[J(i)]
        OBVIOUS
      <4> HIDE DEF J
      <4>1. s[J(i)] = [note |-> k.pool[L[J(i)]].note, velocity |-> k.pool[L[J(i)]].velocity]
        BY <2>2, StackIsRead
      <4> QED
        BY <2>2, <4>1
    <3> HIDE DEF s
    <3> QED
      BY <2>3, <3>1 DEF StackOf, CutAt
  <2>9. Keys!Recency!Without(s, n) = CutAt(s, k.size, at)
    <3>1. s[at].note = n /\ \A i \in 1..Len(s) : s[i].note = n => i = at
      BY <1>1, <1>3
    <3> HIDE DEF s
    <3> QED
      BY <1>1, <3>1, WithoutOne
  <2> QED
    BY <2>1, <2>6, <2>7, <2>8, <2>9 DEF M
<1>4. CASE \E i \in 1..k.size : k.pool[L[i]].note = n
  <2>1. PICK at \in 1..k.size : k.pool[L[at]].note = n
    BY <1>4
  <2> DEFINE M == CutAt(L, k.size, at)
  <2>2. /\ IsList(m, M) /\ m.size = k.size - 1
        /\ StackOf(m, M) = Keys!Recency!Without(s, n)
        /\ \A i \in 1..m.size : m.pool[M[i]].note # n
        /\ StackOf(m, M) = CutAt(s, k.size, at)
    BY <1>3, <2>1
  <2>3. \A i \in 1..k.size : k.pool[L[i]].note = n => i = at
    BY <2>1 DEF IsList, NotesDiffer
  <2> HIDE DEF M, s
  <2> QED
    BY <2>1, <2>2, <2>3 DEF s
<1> QED
  BY <1>2, <1>4

-----------------------------------------------------------------------------
(* A note is put in.                                                       *)

\* What NoteOn writes: the slot in front of the list, and at its place in the array.
Threaded(k, f, n, v) ==
  [k.pool EXCEPT ![f] = [note |-> n, velocity |-> v, next |-> k.root]]

Inserted(k, f, at) ==
  [i \in 0..KeyCapacity |-> IF i = at THEN f
                            ELSE IF i \in (at + 1)..k.size THEN k.sorted[i - 1]
                            ELSE k.sorted[i]]

Absent(k, L, n)  == \A i \in 1..k.size : k.pool[L[i]].note # n
FreeSlot(k, L, f) == f \in Slots /\ \A i \in 1..k.size : L[i] # f

\* The list with a free slot in front of it.
LEMMA PushLinked ==
  ASSUME NEW k, NEW L, IsList(k, L), k.size < KeyCapacity,
         NEW f, FreeSlot(k, L, f), NEW n \in Notes, NEW v \in Velocities, Absent(k, L, n),
         NEW m, m.size = k.size + 1, m.root = f,
         m.pool = Threaded(k, f, n, v)
  PROVE  LET M == Pushed(f, L, k.size)
         IN  /\ M \in [1..m.size -> Slots] /\ Linked(m, M) /\ NotesDiffer(m, M)
             /\ m.pool[f].note = n /\ m.pool[f].velocity = v
             /\ \A i \in 1..k.size : m.pool[L[i]] = k.pool[L[i]]
<1> DEFINE K == KeyCapacity
           M == Pushed(f, L, k.size)
           e == [note |-> n, velocity |-> v, next |-> k.root]
<1>1. /\ k.size \in Nat /\ K \in Nat /\ k.size < K /\ f \in 0..K /\ f # 0 /\ m.size = k.size + 1
      /\ \A i \in 1..k.size : L[i] \in 0..K /\ L[i] \in Slots /\ L[i] # 0 /\ L[i] # f
      /\ f \in Slots
  BY Capacity DEF IsList, Slots, FreeSlot
<1>2. /\ k.pool \in [0..K -> Entry]
      /\ k.root = IF k.size = 0 THEN 0 ELSE L[1]
      /\ \A i \in 1..k.size :
           /\ k.pool[L[i]].next = IF i = k.size THEN 0 ELSE L[i + 1]
           /\ k.pool[L[i]].note \in Notes /\ k.pool[L[i]].velocity \in Velocities
      /\ \A s \in 0..K : (\A i \in 1..k.size : L[i] # s) => k.pool[s] = Keys!Empty
      /\ \A i, j \in 1..k.size : k.pool[L[i]].note = k.pool[L[j]].note => i = j
  BY DEF IsList, Linked, NotesDiffer
<1>3. e \in Entry /\ e.note = n /\ e.velocity = v /\ e.next = k.root
  <2>1. k.root \in 0..KeyCapacity
    BY <1>1, <1>2
  <2>2. n \in 0..255 /\ v \in 0..255
    BY MaxNoteAssumption, KeysAndVoicesAssumption DEF Notes
  <2> QED
    BY <2>1, <2>2 DEF Entry
<1> HIDE DEF e, K, M
<1>4. /\ m.pool \in [0..K -> Entry] /\ m.pool[f] = e
      /\ \A s \in 0..K : s # f => m.pool[s] = k.pool[s]
  BY <1>1, <1>2, <1>3 DEF e, Threaded
<1>5. \A i \in 1..k.size : m.pool[L[i]] = k.pool[L[i]]
  BY <1>1, <1>4
<1>6. /\ M \in [1..m.size -> Slots] /\ M[1] = f
      /\ \A i \in 1..m.size : i # 1 => i - 1 \in 1..k.size /\ M[i] = L[i - 1]
      /\ \A i \in 1..k.size : i + 1 \in 1..m.size /\ M[i + 1] = L[i]
  <2>1. M = [i \in 1..(k.size + 1) |-> IF i = 1 THEN f ELSE L[i - 1]]
    BY DEF M, Pushed
  <2>2. \A i \in 1..(k.size + 1) : i # 1 => i - 1 \in 1..k.size
    BY <1>1
  <2> QED
    BY <1>1, <2>1, <2>2
<1>7. NotesDiffer(m, M)
  <2>1. ASSUME NEW i \in 1..m.size, NEW j \in 1..m.size, m.pool[M[i]].note = m.pool[M[j]].note
        PROVE  i = j
    <3>1. CASE i = 1 /\ j = 1
      BY <3>1
    <3>2. CASE i = 1 /\ j # 1
      BY <1>3, <1>4, <1>5, <1>6, <2>1, <3>2 DEF Absent
    <3>3. CASE i # 1 /\ j = 1
      BY <1>3, <1>4, <1>5, <1>6, <2>1, <3>3 DEF Absent
    <3>4. CASE i # 1 /\ j # 1
      <4>1. i - 1 = j - 1
        BY <1>2, <1>5, <1>6, <2>1, <3>4
      <4> QED
        BY <1>1, <4>1
    <3> QED
      BY <3>1, <3>2, <3>3, <3>4
  <2> QED
    BY <2>1 DEF NotesDiffer
<1>8. Linked(m, M)
  <2>1. m.root = IF m.size = 0 THEN 0 ELSE M[1]
    BY <1>1, <1>6
  <2>2. ASSUME NEW i \in 1..m.size
        PROVE  /\ m.pool[M[i]].next = IF i = m.size THEN 0 ELSE M[i + 1]
               /\ m.pool[M[i]].note \in Notes /\ m.pool[M[i]].velocity \in Velocities
    <3>1. CASE i = 1
      <4>1. k.size # 0 => 1 \in 1..k.size
        BY <1>1
      <4>2. m.pool[M[i]].next = IF k.size = 0 THEN 0 ELSE L[1]
        BY <1>2, <1>3, <1>4, <1>6, <3>1
      <4>3. k.size # 0 => M[i + 1] = L[1]
        BY <1>6, <3>1, <4>1
      <4>4. i = m.size <=> k.size = 0
        BY <1>1, <3>1
      <4> QED
        BY <1>3, <1>4, <1>6, <3>1, <4>2, <4>3, <4>4
    <3>2. CASE i # 1
      <4>1. /\ i - 1 \in 1..k.size /\ M[i] = L[i - 1]
            /\ m.pool[M[i]] = k.pool[L[i - 1]]
        BY <1>5, <1>6, <3>2
      <4>2. i # m.size => i \in 1..k.size /\ M[i + 1] = L[i]
        BY <1>1, <1>6, <3>2
      <4>3. i = m.size <=> i - 1 = k.size
        BY <1>1
      <4>4. /\ k.pool[L[i - 1]].next = IF i - 1 = k.size THEN 0 ELSE L[i - 1 + 1]
            /\ k.pool[L[i - 1]].note \in Notes /\ k.pool[L[i - 1]].velocity \in Velocities
        BY <1>2, <4>1
      <4>5. i - 1 + 1 = i
        BY <1>1
      <4> QED
        BY <4>1, <4>2, <4>3, <4>4, <4>5
    <3> QED
      BY <3>1, <3>2
  <2>3. ASSUME NEW s \in 0..K, \A i \in 1..m.size : M[i] # s
        PROVE  m.pool[s] = Keys!Empty
    <3>1. s # f
      <4>1. 1 \in 1..m.size
        BY <1>1
      <4> QED
        BY <1>6, <2>3, <4>1
    <3>2. \A i \in 1..k.size : L[i] # s
      BY <1>6, <2>3
    <3> QED
      BY <1>2, <1>4, <3>1, <3>2
  <2> QED
    BY <1>4, <2>1, <2>2, <2>3 DEF Linked, K
<1> QED
  BY <1>3, <1>4, <1>5, <1>6, <1>7, <1>8 DEF M

\* Where the note goes in the array: after the lower ones, before the higher ones.
LEMMA InsertionPointIs ==
  ASSUME NEW k, NEW L, IsList(k, L), NEW n \in Notes, Absent(k, L, n)
  PROVE  LET at == Keys!InsertionPoint(k, n)
         IN  /\ at \in 0..k.size
             /\ \A i \in 0..(k.size - 1) : i < at => k.pool[k.sorted[i]].note < n
             /\ \A i \in 0..(k.size - 1) : i >= at => n < k.pool[k.sorted[i]].note
<1> DEFINE at == Keys!InsertionPoint(k, n)
           p(i) == k.pool[k.sorted[i]].note
           higher == {i \in 0..(k.size - 1) : p(i) > n}
<1>1. /\ k.size \in Nat /\ n \in Nat
      /\ \A i \in 0..(k.size - 1) : p(i) \in Nat /\ p(i) # n
      /\ \A q, r \in 0..(k.size - 1) : q < r => p(q) < p(r)
  <2>1. /\ \A i \in 1..k.size : k.pool[L[i]].note \in Nat
        /\ n \in Nat
    BY DEF IsList, Linked, Notes
  <2>2. k.size \in Nat
    BY Capacity DEF IsList
  <2>3. /\ \A r \in 0..(k.size - 1) : \E i \in 1..k.size : k.sorted[r] = L[i]
        /\ \A q, r \in 0..(k.size - 1) : q < r => p(q) < p(r)
    BY DEF IsList, Ranked
  <2> QED
    BY <2>1, <2>2, <2>3 DEF Absent
<1>2. at = IF higher = {} THEN k.size ELSE Keys!Lowest(higher)
  BY DEF Keys!InsertionPoint
<1> HIDE DEF at, p
<1>3. CASE higher = {}
  <2>1. at = k.size /\ \A i \in 0..(k.size - 1) : p(i) < n
    BY <1>1, <1>2, <1>3
  <2> QED
    BY <1>1, <2>1 DEF at, p
<1>4. CASE higher # {}
  <2>1. PICK x \in higher : \A y \in higher : x <= y
    <3>1. higher \in SUBSET Nat
      OBVIOUS
    <3> HIDE DEF higher
    <3> QED
      BY <1>4, <3>1, LeastExists
  <2>2. at = x
    <3>1. higher \in SUBSET Int
      OBVIOUS
    <3> HIDE DEF higher
    <3> QED
      BY <1>2, <1>4, <2>1, <3>1, LowestIs
  <2>3. x \in 0..(k.size - 1) /\ p(x) > n
    BY <2>1
  <2>4. ASSUME NEW i \in 0..(k.size - 1), i < x PROVE p(i) < n
    <3>1. i \notin higher
      BY <2>1, <2>3, <2>4
    <3> QED
      BY <1>1, <3>1
  <2>5. ASSUME NEW i \in 0..(k.size - 1), i >= x PROVE n < p(i)
    <3>1. i = x \/ x < i
      BY <2>3, <2>5
    <3>2. p(i) >= p(x)
      BY <1>1, <2>3, <3>1
    <3> QED
      BY <1>1, <2>3, <3>2
  <2>6. at \in 0..k.size
    BY <1>1, <2>2, <2>3
  <2> QED
    BY <2>2, <2>4, <2>5, <2>6 DEF at, p
<1> QED
  BY <1>3, <1>4

\* The array with the free slot at its place.
LEMMA PushRanked ==
  ASSUME NEW k, NEW L, IsList(k, L), k.size < KeyCapacity,
         NEW f, FreeSlot(k, L, f),
         NEW at \in 0..k.size, NEW n \in Nat,
         \A i \in 0..(k.size - 1) : i < at => k.pool[k.sorted[i]].note < n,
         \A i \in 0..(k.size - 1) : i >= at => n < k.pool[k.sorted[i]].note,
         NEW m, m.size = k.size + 1, m.pool[f].note = n,
         \A i \in 1..k.size : m.pool[L[i]] = k.pool[L[i]],
         m.sorted = Inserted(k, f, at)
  PROVE  Ranked(m, Pushed(f, L, k.size))
<1> DEFINE K == KeyCapacity
           M == Pushed(f, L, k.size)
           G(q) == IF q < at THEN q ELSE q - 1
           p(i) == k.pool[k.sorted[i]].note
<1>0. k.size \in Nat /\ K \in Nat /\ k.size < K /\ at \in Nat /\ at <= k.size /\ m.size = k.size + 1
  BY Capacity DEF IsList
<1>1. /\ k.sorted \in [0..K -> 0..K] /\ f \in 0..K
      /\ \A i \in 1..k.size : \E r \in 0..(k.size - 1) : k.sorted[r] = L[i]
      /\ \A r \in 0..(k.size - 1) : \E i \in 1..k.size : k.sorted[r] = L[i]
      /\ \A q, r \in 0..(k.size - 1) : q < r => p(q) < p(r)
      /\ \A i \in 1..k.size : k.pool[L[i]].note \in Nat
  <2>1. \A i \in 1..k.size : k.pool[L[i]].note \in Nat
    BY DEF IsList, Linked, Notes
  <2>2. f \in 0..K
    BY Capacity DEF Slots, FreeSlot
  <2> QED
    BY <2>1, <2>2 DEF IsList, Ranked
<1>2. \A q \in 0..(k.size - 1) :
        p(q) \in Nat /\ m.pool[k.sorted[q]].note = p(q)
  <2> SUFFICES ASSUME NEW q \in 0..(k.size - 1)
               PROVE  p(q) \in Nat /\ m.pool[k.sorted[q]].note = p(q)
    OBVIOUS
  <2>1. PICK i \in 1..k.size : k.sorted[q] = L[i]
    BY <1>1
  <2>2. m.pool[L[i]] = k.pool[L[i]] /\ k.pool[L[i]].note \in Nat
    BY <1>1
  <2> QED
    BY <2>1, <2>2
<1> HIDE DEF p, K
<1>3. /\ M[1] = f /\ 1 \in 1..m.size
      /\ \A i \in 1..m.size : i # 1 => i - 1 \in 1..k.size /\ M[i] = L[i - 1]
      /\ \A i \in 1..k.size : i + 1 \in 1..m.size /\ M[i + 1] = L[i]
  <2>1. M = [i \in 1..(k.size + 1) |-> IF i = 1 THEN f ELSE L[i - 1]]
    BY DEF Pushed
  <2> HIDE DEF M
  <2>2. \A i \in 1..(k.size + 1) : i # 1 => i - 1 \in 1..k.size
    BY <1>0
  <2>3. \A i \in 1..k.size : i + 1 \in 1..(k.size + 1) /\ i + 1 # 1 /\ i + 1 - 1 = i
    BY <1>0
  <2>4. 1 \in 1..(k.size + 1)
    BY <1>0
  <2> QED
    BY <1>0, <2>1, <2>2, <2>3, <2>4
<1> HIDE DEF M
<1>4. /\ m.sorted \in [0..K -> 0..K] /\ m.sorted[at] = f
      /\ \A q \in 0..(m.size - 1) : q # at =>
           G(q) \in 0..(k.size - 1) /\ m.sorted[q] = k.sorted[G(q)]
  <2>1. m.sorted = [i \in 0..K |-> IF i = at THEN f
                                   ELSE IF i \in (at + 1)..k.size THEN k.sorted[i - 1]
                                   ELSE k.sorted[i]]
    BY DEF K, Inserted
  <2>2. /\ \A i \in (at + 1)..k.size : i - 1 \in 0..K
        /\ at \in 0..K /\ 0..(m.size - 1) \subseteq 0..K
    BY <1>0
  <2>3. m.sorted \in [0..K -> 0..K]
    <3>1. \A i \in 0..K : k.sorted[i] \in 0..K
      BY <1>1
    <3> QED
      BY <1>1, <2>1, <2>2, <3>1
  <2>4. m.sorted[at] = f
    BY <2>1, <2>2
  <2>5. ASSUME NEW q \in 0..(m.size - 1), q # at
        PROVE  G(q) \in 0..(k.size - 1) /\ m.sorted[q] = k.sorted[G(q)]
    <3>1. G(q) \in 0..(k.size - 1)
      BY <1>0, <2>5
    <3>2. q \in (at + 1)..k.size <=> ~(q < at)
      BY <1>0, <2>5
    <3>3. q \in 0..K
      BY <2>2
    <3> QED
      BY <2>1, <2>5, <3>1, <3>2, <3>3
  <2> QED
    BY <2>3, <2>4, <2>5
<1>5. ASSUME NEW q \in 0..(m.size - 1) PROVE \E i \in 1..m.size : m.sorted[q] = M[i]
  <2>1. CASE q = at
    BY <1>3, <1>4, <2>1
  <2>2. CASE q # at
    <3>1. G(q) \in 0..(k.size - 1) /\ m.sorted[q] = k.sorted[G(q)]
      BY <1>4, <2>2
    <3> HIDE DEF G
    <3>2. PICK j \in 1..k.size : k.sorted[G(q)] = L[j]
      BY <1>1, <3>1
    <3>3. j + 1 \in 1..m.size /\ M[j + 1] = L[j]
      BY <1>3
    <3>4. m.sorted[q] = M[j + 1]
      BY <3>1, <3>2, <3>3
    <3> QED
      BY <3>3, <3>4
  <2> QED
    BY <2>1, <2>2
<1>6. ASSUME NEW i \in 1..m.size PROVE \E q \in 0..(m.size - 1) : m.sorted[q] = M[i]
  <2>1. CASE i = 1
    <3>1. at \in 0..(m.size - 1)
      BY <1>0
    <3> QED
      BY <1>3, <1>4, <2>1, <3>1
  <2>2. CASE i # 1
    <3>1. i - 1 \in 1..k.size /\ M[i] = L[i - 1]
      BY <1>3, <2>2
    <3>2. PICK r \in 0..(k.size - 1) : k.sorted[r] = L[i - 1]
      BY <1>1, <3>1
    <3> DEFINE q == IF r < at THEN r ELSE r + 1
    <3>3. q \in 0..(m.size - 1) /\ q # at /\ G(q) = r
      BY <1>0
    <3> HIDE DEF q
    <3>4. m.sorted[q] = k.sorted[r]
      BY <1>4, <3>3
    <3> QED
      BY <3>1, <3>2, <3>3, <3>4
  <2> QED
    BY <2>1, <2>2
<1>7. ASSUME NEW q \in 0..(m.size - 1), NEW r \in 0..(m.size - 1), q < r
      PROVE  m.pool[m.sorted[q]].note < m.pool[m.sorted[r]].note
  <2>0. \A x \in 0..(m.size - 1) : x # at =>
          /\ G(x) \in 0..(k.size - 1)
          /\ m.pool[m.sorted[x]].note = p(G(x)) /\ p(G(x)) \in Nat
    <3> HIDE DEF G
    <3> QED
      BY <1>2, <1>4
  <2>01. m.pool[m.sorted[at]].note = n
    BY <1>4
  <2>1. CASE q = at
    <3>1. r # at /\ G(r) >= at
      BY <1>0, <1>7, <2>1
    <3> HIDE DEF G
    <3>2. n < p(G(r))
      BY <2>0, <3>1 DEF p
    <3> QED
      BY <2>0, <2>01, <2>1, <3>1, <3>2
  <2>2. CASE r = at
    <3>1. q # at /\ G(q) < at
      BY <1>0, <1>7, <2>2
    <3> HIDE DEF G
    <3>2. p(G(q)) < n
      BY <2>0, <3>1 DEF p
    <3> QED
      BY <2>0, <2>01, <2>2, <3>1, <3>2
  <2>3. CASE q # at /\ r # at
    <3>1. G(q) < G(r)
      BY <1>0, <1>7, <2>3
    <3> HIDE DEF G
    <3>2. p(G(q)) < p(G(r))
      BY <1>1, <2>0, <2>3, <3>1
    <3> QED
      BY <2>0, <2>3, <3>2
  <2> QED
    BY <2>1, <2>2, <2>3
<1> QED
  BY <1>4, <1>5, <1>6, <1>7 DEF Ranked, K, M

\* The slot a note-on takes, and what it makes of the stack.
LEMMA SlotIsFree ==
  ASSUME NEW k, NEW L, IsList(k, L), k.size < KeyCapacity
  PROVE  FreeSlot(k, L, Keys!Lowest({s \in Keys!Slots : k.pool[s].note = Keys!kFreeSlot}))
<1> DEFINE U == SlotsIn(k, L)
           Free == {s \in Slots : k.pool[s].note = Keys!kFreeSlot}
           f == Keys!Lowest({s \in Keys!Slots : k.pool[s].note = Keys!kFreeSlot})
<1>1. /\ k.size < KeyCapacity => \E s \in Slots : s \notin U
      /\ U = {s \in Slots : k.pool[s].note # Keys!kFreeSlot}
  BY SlotsOfList
<1>2. Free # {} /\ Free \in SUBSET Nat
  <2> HIDE DEF U
  <2> QED
    BY <1>1, Capacity DEF Slots
<1>3. f = Keys!Lowest(Free)
  BY DEF Slots, Keys!Slots
<1> HIDE DEF Free, f
<1>4. PICK x \in Free : \A y \in Free : x <= y
  BY <1>2, LeastExists
<1>5. f = x
  <2>1. Free \in SUBSET Int
    BY <1>2
  <2> QED
    BY <1>3, <1>4, <2>1, LowestIs
<1>6. f \in Slots /\ f \notin U
  <2> HIDE DEF U
  <2> QED
    BY <1>1, <1>4, <1>5 DEF Free
<1> QED
  BY <1>6 DEF SlotsIn, FreeSlot, f

LEMMA FreeSlotIsPushed ==
  ASSUME NEW k, NEW L, IsList(k, L), k.size < KeyCapacity,
         NEW n \in Notes, NEW v \in Velocities, Absent(k, L, n),
         NEW f, FreeSlot(k, L, f), NEW at, at = Keys!InsertionPoint(k, n),
         NEW m, m.size = k.size + 1, m.root = f,
         m.pool = Threaded(k, f, n, v), m.sorted = Inserted(k, f, at)
  PROVE  \E M : /\ IsList(m, M)
                /\ StackOf(m, M) = Pushed([note |-> n, velocity |-> v], StackOf(k, L), k.size)
<1> DEFINE M == Pushed(f, L, k.size)
           e == [note |-> n, velocity |-> v]
<1>0. k.size \in Nat /\ KeyCapacity \in Nat /\ m.size = k.size + 1
  BY Capacity DEF IsList
<1>2. /\ M \in [1..m.size -> Slots] /\ Linked(m, M) /\ NotesDiffer(m, M)
      /\ m.pool[f].note = n /\ m.pool[f].velocity = v
      /\ \A i \in 1..k.size : m.pool[L[i]] = k.pool[L[i]]
  BY PushLinked
<1>3. /\ at \in 0..k.size
      /\ \A i \in 0..(k.size - 1) : i < at => k.pool[k.sorted[i]].note < n
      /\ \A i \in 0..(k.size - 1) : i >= at => n < k.pool[k.sorted[i]].note
  BY InsertionPointIs
<1>4. Ranked(m, M)
  <2>1. m.pool[f].note = n /\ n \in Nat
    BY <1>2 DEF Notes
  <2> HIDE DEF M
  <2>2. \A i \in 1..k.size : m.pool[L[i]] = k.pool[L[i]]
    BY <1>2
  <2> QED
    BY <1>3, <2>1, <2>2, PushRanked DEF M
<1>5. IsList(m, M)
  <2>1. m.size \in 0..KeyCapacity
    BY <1>0
  <2> HIDE DEF M
  <2> QED
    BY <1>2, <1>4, <2>1 DEF IsList
<1>6. StackOf(m, M) = Pushed(e, StackOf(k, L), k.size)
  <2> DEFINE s == StackOf(k, L)
             g(i) == [note |-> m.pool[M[i]].note, velocity |-> m.pool[M[i]].velocity]
  <2>1. \A i \in 1..k.size : s[i] = [note |-> k.pool[L[i]].note, velocity |-> k.pool[L[i]].velocity]
    BY StackIsRead
  <2> HIDE DEF s
  <2>2. M[1] = f /\ \A i \in 1..m.size : i # 1 => i - 1 \in 1..k.size /\ M[i] = L[i - 1]
    <3>1. M = [i \in 1..(k.size + 1) |-> IF i = 1 THEN f ELSE L[i - 1]]
      BY DEF Pushed
    <3>2. \A i \in 1..(k.size + 1) : i # 1 => i - 1 \in 1..k.size
      BY <1>0
    <3>3. 1 \in 1..(k.size + 1)
      BY <1>0
    <3> HIDE DEF M
    <3> QED
      BY <1>0, <3>1, <3>2, <3>3
  <2> HIDE DEF M
  <2>3. \A i \in 1..m.size : g(i) = IF i = 1 THEN e ELSE s[i - 1]
    <3> SUFFICES ASSUME NEW i \in 1..m.size PROVE g(i) = IF i = 1 THEN e ELSE s[i - 1]
      OBVIOUS
    <3>1. CASE i = 1
      BY <1>2, <2>2, <3>1
    <3>2. CASE i # 1
      <4>1. i - 1 \in 1..k.size /\ M[i] = L[i - 1]
        BY <2>2, <3>2
      <4>2. m.pool[L[i - 1]] = k.pool[L[i - 1]]
        BY <1>2, <4>1
      <4> QED
        BY <2>1, <3>2, <4>1, <4>2
    <3> QED
      BY <3>1, <3>2
  <2>4. StackOf(m, M) = [i \in 1..m.size |-> g(i)]
    BY DEF StackOf
  <2> HIDE DEF g, e
  <2>5. StackOf(m, M) = [i \in 1..m.size |-> IF i = 1 THEN e ELSE s[i - 1]]
    BY <2>3, <2>4
  <2> QED
    BY <1>0, <2>5 DEF Pushed, s
<1> QED
  BY <1>5, <1>6

\* A full stack drops the note at the end of the list.
LEMMA SaturationCuts ==
  ASSUME NEW k, NEW L, IsList(k, L), NEW m, m = Keys!AfterSaturation(k)
  PROVE  \E M : /\ IsList(m, M) /\ m.size < KeyCapacity
                /\ k.size < KeyCapacity => m = k /\ M = L
                /\ k.size = KeyCapacity =>
                     StackOf(m, M) = CutAt(StackOf(k, L), k.size, k.size) /\ m.size = k.size - 1
<1>0. k.size \in 0..KeyCapacity /\ KeyCapacity \in Nat /\ KeyCapacity > 0
  BY Capacity DEF IsList
<1>1. CASE k.size < KeyCapacity
  <2>1. m = k
    BY <1>1 DEF Keys!AfterSaturation
  <2> QED
    BY <1>0, <1>1, <2>1
<1>2. CASE k.size = KeyCapacity
  <2> DEFINE c == L[k.size]
             Ends == {s \in Slots : k.pool[s].next = 0}
             n == k.pool[c].note
  <2>1. m = Keys!AfterNoteOff(k, k.pool[Keys!Highest(Ends)].note)
    <3>1. ~(k.size < KeyCapacity)
      BY <1>0, <1>2
    <3> QED
      BY <3>1 DEF Keys!AfterSaturation, Slots, Keys!Slots
  <2>2. Ends = {c} /\ c \in Int
    <3>1. SlotsIn(k, L) = Slots
      BY <1>2, SlotsOfList
    <3>2. /\ \A i \in 1..k.size : L[i] \in Slots /\ L[i] # 0
          /\ \A i \in 1..k.size : k.pool[L[i]].next = IF i = k.size THEN 0 ELSE L[i + 1]
      BY DEF IsList, Linked, Slots
    <3>3. k.size \in 1..k.size /\ \A i \in 1..k.size : i # k.size => i + 1 \in 1..k.size
      BY <1>0, <1>2
    <3>4. \A i \in 1..k.size : k.pool[L[i]].next = 0 <=> i = k.size
      BY <3>2, <3>3
    <3>5. c \in Ends
      BY <3>2, <3>3, <3>4
    <3>6. ASSUME NEW s \in Ends PROVE s = c
      <4>1. PICK i \in 1..k.size : s = L[i]
        BY <3>1 DEF SlotsIn
      <4> QED
        BY <3>4, <4>1
    <3>7. c \in Int
      BY <3>2, <3>3 DEF Slots
    <3> HIDE DEF Ends, c
    <3> QED
      BY <3>5, <3>6, <3>7
  <2>3. Keys!Highest(Ends) = c
    <3> HIDE DEF Ends, c
    <3> QED
      BY <2>2, HighestIs
  <2>4. m = Keys!AfterNoteOff(k, n)
    <3> HIDE DEF Ends, c
    <3> QED
      BY <2>1, <2>3
  <2>5. k.size \in 1..k.size
    BY <1>0, <1>2
  <2>6. PICK M : /\ IsList(m, M)
                 /\ \A at \in 1..k.size : k.pool[L[at]].note = n =>
                      StackOf(m, M) = CutAt(StackOf(k, L), k.size, at) /\ m.size = k.size - 1
    <3> HIDE DEF n
    <3> QED
      BY <2>4, NoteOffCuts
  <2>7. StackOf(m, M) = CutAt(StackOf(k, L), k.size, k.size) /\ m.size = k.size - 1
    BY <2>5, <2>6
  <2>8. m.size < KeyCapacity
    BY <1>0, <1>2, <2>7
  <2> QED
    BY <1>0, <1>2, <2>6, <2>7, <2>8
<1> QED
  BY <1>0, <1>1, <1>2

-----------------------------------------------------------------------------
(* A note is played: removed, room is made, and put in.                    *)

\* An entry in front of a sequence, place by place.
LEMMA PushedInFront ==
  ASSUME NEW S, NEW w \in Seq(S), NEW e \in S
  PROVE  /\ <<e>> \o w = Pushed(e, w, Len(w))
         /\ Len(<<e>> \o w) = Len(w) + 1
         /\ Len(w) > 0 => SubSeq(<<e>> \o w, 1, Len(w))
                            = Pushed(e, CutAt(w, Len(w), Len(w)), Len(w) - 1)
<1> DEFINE n == Len(w)
           t == <<e>> \o w
           u == Pushed(e, w, n)
<1>1. n \in Nat /\ \A i \in 1..n : w[i] \in S
  OBVIOUS
<1>2. t \in Seq(S) /\ Len(t) = n + 1 /\ \A i \in 1..(n + 1) : t[i] = IF i = 1 THEN e ELSE w[i - 1]
  OBVIOUS
<1>3. u = [i \in 1..(n + 1) |-> IF i = 1 THEN e ELSE w[i - 1]]
  BY DEF Pushed
<1> HIDE DEF n, t, u
<1>4. u \in Seq(S) /\ Len(u) = n + 1 /\ \A i \in 1..(n + 1) : u[i] = IF i = 1 THEN e ELSE w[i - 1]
  <2>1. \A i \in 1..(n + 1) : i # 1 => i - 1 \in 1..n
    BY <1>1
  <2>2. u \in [1..(n + 1) -> S]
    BY <1>1, <1>3, <2>1
  <2> QED
    BY <1>1, <1>3, <2>2
<1>5. t = u
  BY <1>2, <1>4, SeqEqual
<1>6. ASSUME n > 0
      PROVE  SubSeq(t, 1, n) = Pushed(e, CutAt(w, n, n), n - 1)
  <2> DEFINE q == SubSeq(t, 1, n)
             c == CutAt(w, n, n)
             r == Pushed(e, c, n - 1)
  <2>1. q \in Seq(S) /\ Len(q) = n /\ \A i \in 1..n : q[i] = t[i]
    BY ONLY <1>1, <1>2, <1>6
  <2>2. /\ c = [i \in 1..(n - 1) |-> IF i < n THEN w[i] ELSE w[i + 1]]
        /\ r = [i \in 1..(n - 1 + 1) |-> IF i = 1 THEN e ELSE c[i - 1]]
    BY DEF CutAt, Pushed
  <2> HIDE DEF q, c, r
  <2>3. \A i \in 1..(n - 1) : c[i] = w[i]
    BY <1>1, <2>2
  <2>4. n - 1 + 1 = n /\ \A i \in 1..n : i # 1 => i - 1 \in 1..(n - 1) /\ i - 1 \in 1..n
    BY <1>1
  <2>5. \A i \in 1..n : r[i] = IF i = 1 THEN e ELSE w[i - 1]
    BY <2>2, <2>3, <2>4
  <2>6. r \in [1..n -> S]
    <3>1. r = [i \in 1..n |-> IF i = 1 THEN e ELSE w[i - 1]]
      BY <2>2, <2>3, <2>4
    <3> QED
      BY <1>1, <2>4, <3>1
  <2>7. r \in Seq(S) /\ Len(r) = n
    BY ONLY <1>1, <2>6
  <2>8. \A i \in 1..n : q[i] = r[i]
    <3>1. \A i \in 1..n : i \in 1..(n + 1)
      BY <1>1
    <3> QED
      BY <1>2, <2>1, <2>5, <3>1
  <2>9. q = r
    BY <2>1, <2>7, <2>8, SeqEqual
  <2> QED
    BY <2>9 DEF q, c, r
<1> QED
  BY <1>2, <1>5, <1>6 DEF n, t, u

\* The abstract stack after an entry is played, with and without room for it.
LEMMA PlayedIsPushed ==
  ASSUME NEW S, NEW s \in Seq(S), NEW e \in S, NEW w \in Seq(S),
         w = Keys!Recency!Without(s, e.note), Len(w) <= KeyCapacity
  PROVE  /\ Len(w) < KeyCapacity =>
              Keys!Recency!Played(s, e, KeyCapacity) = Pushed(e, w, Len(w))
         /\ Len(w) = KeyCapacity =>
              Keys!Recency!Played(s, e, KeyCapacity)
                = Pushed(e, CutAt(w, Len(w), Len(w)), Len(w) - 1)
<1> DEFINE t == <<e>> \o w
<1>1. Keys!Recency!Played(s, e, KeyCapacity)
        = IF Len(t) > KeyCapacity THEN SubSeq(t, 1, KeyCapacity) ELSE t
  BY DEF Keys!Recency!Played
<1>2. /\ t = Pushed(e, w, Len(w)) /\ Len(t) = Len(w) + 1
      /\ Len(w) > 0 => SubSeq(t, 1, Len(w)) = Pushed(e, CutAt(w, Len(w), Len(w)), Len(w) - 1)
  BY PushedInFront
<1>3. Len(w) \in Nat /\ KeyCapacity \in Nat /\ KeyCapacity > 0
  BY Capacity
<1> HIDE DEF t
<1>4. CASE Len(w) < KeyCapacity
  <2>1. ~(Len(t) > KeyCapacity)
    BY <1>2, <1>3, <1>4
  <2> QED
    BY <1>1, <1>2, <1>3, <1>4, <2>1
<1>5. CASE Len(w) = KeyCapacity
  <2>1. Len(t) > KeyCapacity /\ Len(w) > 0
    BY <1>2, <1>3, <1>5
  <2> QED
    BY <1>1, <1>2, <1>3, <1>5, <2>1
<1> QED
  BY <1>3, <1>4, <1>5

LEMMA NoteOnIsPlayed ==
  ASSUME NEW k, NEW L, IsList(k, L), NEW n \in Notes, NEW v \in Velocities,
         NEW m, m = Keys!AfterNoteOn(k, n, v)
  PROVE  \E M : /\ IsList(m, M)
                /\ StackOf(m, M) = Keys!Recency!Played(StackOf(k, L),
                                     [note |-> n, velocity |-> v], KeyCapacity)
<1> DEFINE p == Keys!AfterNoteOff(k, n)
           r == Keys!AfterSaturation(p)
           f == Keys!Lowest({s \in Keys!Slots : r.pool[s].note = Keys!kFreeSlot})
           at == Keys!InsertionPoint(r, n)
           s == StackOf(k, L)
           e == [note |-> n, velocity |-> v]
<1>1. m.pool = Threaded(r, f, n, v) /\ m.root = f /\ m.sorted = Inserted(r, f, at)
      /\ m.size = r.size + 1
  BY DEF Keys!AfterNoteOn, Threaded, Inserted
<1> HIDE DEF at, e
<1>2. PICK P : /\ IsList(p, P) /\ StackOf(p, P) = Keys!Recency!Without(s, n)
               /\ \A i \in 1..p.size : p.pool[P[i]].note # n
  <2> HIDE DEF p
  <2>1. p = Keys!AfterNoteOff(k, n)
    BY DEF p
  <2> QED
    BY <2>1, NoteOffCuts
<1> HIDE DEF p
<1>3. PICK R : /\ IsList(r, R) /\ r.size < KeyCapacity
               /\ p.size < KeyCapacity => r = p /\ R = P
               /\ p.size = KeyCapacity =>
                    StackOf(r, R) = CutAt(StackOf(p, P), p.size, p.size) /\ r.size = p.size - 1
  <2> HIDE DEF r
  <2>1. r = Keys!AfterSaturation(p)
    BY DEF r
  <2> QED
    BY <1>2, <2>1, SaturationCuts
<1> HIDE DEF r
<1> DEFINE w == StackOf(p, P)
           x == StackOf(r, R)
<1>4. /\ w \in Seq(Keystrokes) /\ Len(w) = p.size
      /\ \A i \in 1..p.size : w[i].note = p.pool[P[i]].note
  BY <1>2, StackIsRead
<1>5. /\ x \in Seq(Keystrokes) /\ Len(x) = r.size
      /\ \A i \in 1..r.size : x[i].note = r.pool[R[i]].note
  BY <1>3, StackIsRead
<1>6. p.size \in Nat /\ p.size <= KeyCapacity /\ KeyCapacity \in Nat
  BY <1>2, Capacity DEF IsList
<1>7. e \in Keystrokes /\ e.note = n
  BY DEF e, Keystrokes
<1>8. s \in Seq(Keystrokes)
  BY StackIsRead
<1> HIDE DEF s, w, x
<1>9. Absent(r, R, n)
  <2>1. CASE p.size < KeyCapacity
    BY <1>2, <1>3, <2>1 DEF Absent
  <2>2. CASE p.size = KeyCapacity
    <3> SUFFICES ASSUME NEW i \in 1..r.size PROVE r.pool[R[i]].note # n
      BY DEF Absent
    <3>1. x[i] = w[i]
      <4>1. x = CutAt(w, p.size, p.size) /\ r.size = p.size - 1
        BY <1>3, <2>2 DEF x, w
      <4>2. i \in 1..(p.size - 1) /\ i < p.size
        BY <1>6, <4>1
      <4> QED
        BY <4>1, <4>2 DEF CutAt
    <3>2. i \in 1..p.size
      BY <1>3, <1>6, <2>2
    <3>3. w[i].note # n
      BY <1>2, <1>4, <3>2
    <3> QED
      BY <1>5, <3>1, <3>3
  <2> QED
    BY <1>6, <2>1, <2>2
<1>10. PICK M : IsList(m, M) /\ StackOf(m, M) = Pushed(e, x, r.size)
  <2>1. FreeSlot(r, R, f)
    BY <1>3, SlotIsFree
  <2> HIDE DEF f
  <2>2. at = Keys!InsertionPoint(r, n)
    BY DEF at
  <2> QED
    BY <1>1, <1>3, <1>9, <2>1, <2>2, FreeSlotIsPushed DEF x, e
<1>11. Pushed(e, x, r.size) = Keys!Recency!Played(s, e, KeyCapacity)
  <2>0. w = Keys!Recency!Without(s, e.note)
    BY <1>2, <1>7 DEF w
  <2>1. /\ Len(w) < KeyCapacity =>
             Keys!Recency!Played(s, e, KeyCapacity) = Pushed(e, w, Len(w))
        /\ Len(w) = KeyCapacity =>
             Keys!Recency!Played(s, e, KeyCapacity)
               = Pushed(e, CutAt(w, Len(w), Len(w)), Len(w) - 1)
    BY <1>4, <1>6, <1>7, <1>8, <2>0, PlayedIsPushed
  <2>2. CASE p.size < KeyCapacity
    <3>1. x = w /\ r.size = p.size
      BY <1>3, <2>2 DEF x, w
    <3> QED
      BY <1>4, <2>1, <2>2, <3>1
  <2>3. CASE p.size = KeyCapacity
    <3>1. x = CutAt(w, p.size, p.size) /\ r.size = p.size - 1
      BY <1>3, <2>3 DEF x, w
    <3> QED
      BY <1>4, <2>1, <2>3, <3>1
  <2> QED
    BY <1>6, <2>2, <2>3
<1> QED
  BY <1>10, <1>11 DEF s, e

\* The cleared stack is the empty list.
LEMMA ClearedIsEmpty ==
  ASSUME NEW k, k.sorted \in [0..KeyCapacity -> 0..KeyCapacity]
  PROVE  IsList(Keys!AfterClear(k), <<>>) /\ StackOf(Keys!AfterClear(k), <<>>) = <<>>
<1> DEFINE m == Keys!AfterClear(k)
<1>1. /\ m.pool = [s \in 0..KeyCapacity |-> Keys!Empty] /\ m.root = 0 /\ m.size = 0
      /\ m.sorted = [i \in 0..KeyCapacity |-> IF i = 0 THEN k.sorted[0] ELSE 0]
  BY DEF Keys!AfterClear
<1> HIDE DEF m
<1>2. KeyCapacity \in Nat /\ 0 \in 0..KeyCapacity
  BY Capacity
<1>3. Keys!Empty \in Entry
  BY Capacity DEF Keys!Empty, Keys!kFreeSlot, Entry
<1>4. 1..m.size = {} /\ 0..(m.size - 1) = {}
  BY <1>1
<1>5. Linked(m, <<>>)
  BY <1>1, <1>3, <1>4 DEF Linked
<1>6. NotesDiffer(m, <<>>)
  BY <1>4 DEF NotesDiffer
<1>7. Ranked(m, <<>>)
  <2>1. k.sorted[0] \in 0..KeyCapacity
    BY <1>2
  <2> QED
    BY <1>1, <1>2, <1>4, <2>1 DEF Ranked
<1>8. <<>> \in [1..m.size -> Slots]
  BY <1>4
<1>9. StackOf(m, <<>>) = <<>>
  BY <1>4 DEF StackOf
<1> QED
  BY <1>1, <1>2, <1>5, <1>6, <1>7, <1>8, <1>9 DEF IsList, m

-----------------------------------------------------------------------------
(* The views of the stack agree.                                           *)

LEMMA StackIsList ==
  ASSUME NEW k, NEW L, IsList(k, L)
  PROVE  LET list == Keys!SlotList(k)
         IN  [i \in DOMAIN list |-> [note     |-> k.pool[list[i]].note,
                                     velocity |-> k.pool[list[i]].velocity]] = StackOf(k, L)
<1>1. Keys!SlotList(k) = L /\ DOMAIN L = 1..k.size
  BY ListIsRead DEF IsList
<1> QED
  BY <1>1 DEF StackOf

\* The instance's Cardinality is that of FiniteSets.
LEMMA SameCardinality == \A S : Keys!Cardinality(S) = Cardinality(S)
BY DEF Keys!Cardinality, Cardinality

LEMMA ViewsOfList ==
  ASSUME NEW L, IsList(keys, L)
  PROVE  Keys!ViewsAgree
<1> DEFINE list == Keys!SlotList(keys)
           walk == Keys!Walk(keys)
           s == StackOf(keys, L)
<1>1. /\ list = L /\ walk[keys.size] = 0
      /\ \A i \in 0..KeyCapacity : walk[i] = IF i < keys.size THEN L[i + 1] ELSE 0
  BY ListIsRead, WalkReads
<1>2. /\ keys.size \in Nat /\ keys.size <= KeyCapacity /\ KeyCapacity \in Nat
      /\ L \in [1..keys.size -> Slots]
  BY Capacity DEF IsList
<1>3. L \in Seq(Slots) /\ Len(L) = keys.size /\ DOMAIN L = 1..keys.size
  BY <1>2
<1>4. Keys!UsedSlots = SlotsIn(keys, L) /\ Cardinality(SlotsIn(keys, L)) = keys.size
  <2>1. /\ Cardinality(SlotsIn(keys, L)) = keys.size
        /\ SlotsIn(keys, L) = {x \in Slots : keys.pool[x].note # Keys!kFreeSlot}
    BY SlotsOfList
  <2> QED
    BY <2>1 DEF Keys!UsedSlots, Slots, Keys!Slots
<1>5. Keys!AbstractStack = s
  BY StackIsList DEF Keys!AbstractStack
<1>6. /\ Len(s) = keys.size /\ (s # <<>> <=> keys.size # 0)
      /\ \A i \in 1..keys.size : s[i].note = keys.pool[L[i]].note
  <2>1. /\ s \in Seq(Keystrokes) /\ Len(s) = keys.size
        /\ \A i \in 1..keys.size : s[i].note = keys.pool[L[i]].note
    BY StackIsRead
  <2> HIDE DEF s
  <2> QED
    BY <2>1
<1> HIDE DEF list, walk, s
<1>7. Keys!ListThreadsUsedSlots
  <2>1. {list[i] : i \in DOMAIN list} = Keys!UsedSlots
    <3>1. {L[i] : i \in DOMAIN L} = SlotsIn(keys, L)
      BY <1>3 DEF SlotsIn
    <3> QED
      BY <1>1, <1>4, <3>1
  <2>2. Len(list) = Cardinality(Keys!UsedSlots) /\ walk[Len(list)] = 0 /\ keys.size = Len(list)
    BY <1>1, <1>3, <1>4
  <2> USE DEF list, walk
  <2> QED
    BY <2>1, <2>2, SameCardinality, Zenon DEF Keys!ListThreadsUsedSlots
<1>8. Keys!SortedByPitch
  <2>1. {keys.sorted[i] : i \in 0..(keys.size - 1)} = SlotsIn(keys, L)
    <3>1. /\ \A i \in 1..keys.size : \E r \in 0..(keys.size - 1) : keys.sorted[r] = L[i]
          /\ \A r \in 0..(keys.size - 1) : \E i \in 1..keys.size : keys.sorted[r] = L[i]
      BY DEF IsList, Ranked
    <3> QED
      BY <3>1 DEF SlotsIn
  <2>2. \A i, j \in 0..(keys.size - 1) :
          i < j => keys.pool[keys.sorted[i]].note < keys.pool[keys.sorted[j]].note
    BY DEF IsList, Ranked
  <2> QED
    BY <1>4, <2>1, <2>2 DEF Keys!SortedByPitch, Keys!SortedNote
<1>9. Keys!AccessorsAgree
  <2> SUFFICES ASSUME s # <<>>
               PROVE  /\ Keys!MostRecentNote(keys).note = s[1].note
                      /\ Keys!LeastRecentNote(keys).note = s[Len(s)].note
                      /\ \A i \in 0..(Len(s) - 1) :
                           Keys!PlayedNote(keys, i).note = s[Len(s) - i].note
    BY <1>5 DEF Keys!AccessorsAgree
  <2>1. keys.size # 0 /\ 1 \in 1..keys.size /\ keys.size \in 1..keys.size
    BY <1>2, <1>6
  <2>2. keys.root = L[1]
    BY <2>1 DEF IsList, Linked
  <2>3. Keys!MostRecentNote(keys).note = s[1].note
    BY <1>6, <2>1, <2>2 DEF Keys!MostRecentNote
  <2>4. Keys!LeastRecentNote(keys).note = s[Len(s)].note
    <3>1. Keys!LeastRecentNote(keys) = keys.pool[IF list = <<>> THEN 0 ELSE list[Len(list)]]
      BY DEF Keys!LeastRecentNote, list
    <3>2. L # <<>>
      BY <1>3, <2>1
    <3>3. Keys!LeastRecentNote(keys) = keys.pool[L[keys.size]]
      BY <1>1, <1>3, <3>1, <3>2
    <3> QED
      BY <1>6, <2>1, <3>3
  <2>5. ASSUME NEW i \in 0..(keys.size - 1)
        PROVE  Keys!PlayedNote(keys, i).note = s[keys.size - i].note
    <3>1. /\ keys.size - i - 1 \in 0..KeyCapacity /\ keys.size - i - 1 < keys.size
          /\ keys.size - i - 1 + 1 = keys.size - i /\ keys.size - i \in 1..keys.size
      BY <1>2
    <3>2. walk[keys.size - i - 1] = L[keys.size - i]
      BY <1>1, <3>1
    <3>3. Keys!PlayedNote(keys, i) = keys.pool[L[keys.size - i]]
      BY <3>2 DEF Keys!PlayedNote, walk
    <3> QED
      BY <1>6, <3>1, <3>3
  <2> QED
    BY <1>6, <2>3, <2>4, <2>5
<1> QED
  BY <1>7, <1>8, <1>9 DEF Keys!ViewsAgree

-----------------------------------------------------------------------------
(* The invariant, and the stack it represents.                             *)

\* Init clears a stack whose memory is zero.
LEMMA FirstStack ==
  PartInit => IsList(keys, <<>>) /\ StackOf(keys, <<>>) = <<>>
<1> DEFINE k == [sorted |-> [i \in 0..KeyCapacity |-> 0], size |-> 0]
<1>1. k.sorted \in [0..KeyCapacity -> 0..KeyCapacity]
  BY Capacity
<1> HIDE DEF k
<1>2. IsList(Keys!AfterClear(k), <<>>) /\ StackOf(Keys!AfterClear(k), <<>>) = <<>>
  BY <1>1, ClearedIsEmpty
<1>3. PartInit => keys = Keys!AfterClear(k)
  BY DEF PartInit, Keys!Init, k
<1> QED
  BY <1>2, <1>3

\* What each operation makes of the list.
LEMMA StackSteps ==
  ASSUME NEW k, NEW L, IsList(k, L)
  PROVE  /\ \A n \in Notes, v \in Velocities :
              \E M : /\ IsList(Keys!AfterNoteOn(k, n, v), M)
                     /\ StackOf(Keys!AfterNoteOn(k, n, v), M)
                          = Keys!Recency!Played(StackOf(k, L), [note |-> n, velocity |-> v],
                                                KeyCapacity)
         /\ \A n : \E M : /\ IsList(Keys!AfterNoteOff(k, n), M)
                          /\ StackOf(Keys!AfterNoteOff(k, n), M)
                               = Keys!Recency!Without(StackOf(k, L), n)
         /\ IsList(Keys!AfterClear(k), <<>>) /\ StackOf(Keys!AfterClear(k), <<>>) = <<>>
<1>1. k.sorted \in [0..KeyCapacity -> 0..KeyCapacity]
  BY DEF IsList, Ranked
<1>2. IsList(Keys!AfterClear(k), <<>>) /\ StackOf(Keys!AfterClear(k), <<>>) = <<>>
  BY <1>1, ClearedIsEmpty
<1>3. ASSUME NEW n
      PROVE  \E M : /\ IsList(Keys!AfterNoteOff(k, n), M)
                    /\ StackOf(Keys!AfterNoteOff(k, n), M)
                         = Keys!Recency!Without(StackOf(k, L), n)
  <2> DEFINE m == Keys!AfterNoteOff(k, n)
  <2>1. m = Keys!AfterNoteOff(k, n)
    OBVIOUS
  <2> HIDE DEF m
  <2>2. PICK M : IsList(m, M) /\ StackOf(m, M) = Keys!Recency!Without(StackOf(k, L), n)
    BY <2>1, NoteOffCuts
  <2> QED
    BY <2>1, <2>2
<1> QED
  BY <1>2, <1>3, NoteOnIsPlayed

LEMMA KeysInductive == PartSpec => []IsStack(keys)
<1>1. PartInit => IsStack(keys)
  BY FirstStack DEF IsStack
<1>2. IsStack(keys) /\ [PartNext]_<<keys, alloc>> => IsStack(keys)'
  <2> SUFFICES ASSUME IsStack(keys), [PartNext]_<<keys, alloc>>
               PROVE  \E M : IsList(keys', M)
    BY DEF IsStack, IsList, Linked, NotesDiffer, Ranked
  <2>1. PICK L : IsList(keys, L)
    BY DEF IsStack
  <2>2. ASSUME NEW n \in Notes, NEW v \in Velocities, PressKey(n, v)
        PROVE  \E M : IsList(keys', M)
    <3>1. keys' = Keys!AfterNoteOn(keys, n, v)
      BY <2>2 DEF PressKey, Keys!NoteOn
    <3> QED
      BY <2>1, <3>1, StackSteps
  <2>3. ASSUME NEW n \in Notes, ReleaseKey(n) PROVE \E M : IsList(keys', M)
    <3>1. keys' = Keys!AfterNoteOff(keys, n)
      BY <2>3 DEF ReleaseKey, Keys!NoteOff
    <3> QED
      BY <2>1, <3>1, StackSteps
  <2>4. CASE AllNotesOff \/ AllSoundOff
    <3>1. keys' = Keys!AfterClear(keys)
      BY <2>4 DEF AllNotesOff, AllSoundOff, Keys!Clear
    <3> QED
      BY <2>1, <3>1, StackSteps
  <2>5. CASE UNCHANGED <<keys, alloc>>
    BY <2>1, <2>5
  <2> QED
    BY <2>2, <2>3, <2>4, <2>5 DEF PartNext
<1> QED
  BY <1>1, <1>2, PTL DEF PartSpec

\* For every number of slots, and through every insertion, removal and saturation, the
\* linked list, the array by pitch and the accessors are views of the same notes.
THEOREM StackViewsAgree == PartSpec => []KeysAgree
<1>1. IsStack(keys) => KeysAgree
  BY ViewsOfList DEF IsStack, KeysAgree
<1> QED
  BY <1>1, KeysInductive, PTL

-----------------------------------------------------------------------------
(* The stack is a recency stack.                                           *)

\* For every number of slots, each operation of the linked list is one operation of the
\* recency stack it represents, or none: a note-off of a note that is not in it.
THEOREM KeysAreRecencyStack == PartSpec => KeysAreARecencyStack
<1>1. PartInit => Keys!Recency!Init
  <2> SUFFICES ASSUME PartInit PROVE Keys!AbstractStack = <<>>
    BY DEF Keys!Recency!Init
  <2>1. IsList(keys, <<>>) /\ StackOf(keys, <<>>) = <<>>
    BY FirstStack
  <2> QED
    BY <2>1, StackIsList DEF Keys!AbstractStack
<1>2. IsStack(keys) /\ [PartNext]_<<keys, alloc>> => [Keys!Recency!Next]_(Keys!AbstractStack)
  <2> SUFFICES ASSUME IsStack(keys), [PartNext]_<<keys, alloc>>
               PROVE  Keys!Recency!Next \/ Keys!AbstractStack' = Keys!AbstractStack
    OBVIOUS
  <2>1. PICK L : IsList(keys, L)
    BY DEF IsStack
  <2> DEFINE s == StackOf(keys, L)
  <2>2. Keys!AbstractStack = s
    BY <2>1, StackIsList DEF Keys!AbstractStack
  <2>3. ASSUME NEW M, IsList(keys', M) PROVE Keys!AbstractStack' = StackOf(keys', M)
    <3>1. Keys!AbstractStack' =
            LET list == Keys!SlotList(keys')
            IN  [i \in DOMAIN list |-> [note     |-> keys'.pool[list[i]].note,
                                        velocity |-> keys'.pool[list[i]].velocity]]
      BY DEF Keys!AbstractStack, Keys!SlotList, Keys!Walk
    <3> QED
      BY <2>3, <3>1, StackIsList
  <2> HIDE DEF s
  <2>4. ASSUME NEW n \in Notes, NEW v \in Velocities, PressKey(n, v)
        PROVE  Keys!Recency!Next
    <3> DEFINE e == [note |-> n, velocity |-> v]
    <3>1. keys' = Keys!AfterNoteOn(keys, n, v)
      BY <2>4 DEF PressKey, Keys!NoteOn
    <3>2. PICK M : /\ IsList(keys', M)
                   /\ StackOf(keys', M) = Keys!Recency!Played(s, e, KeyCapacity)
      BY <2>1, <3>1, StackSteps DEF s
    <3>3. Keys!AbstractStack' = Keys!Recency!Played(Keys!AbstractStack, e, KeyCapacity)
      BY <2>2, <2>3, <3>2
    <3>4. e \in [note : Notes, velocity : Velocities] /\ KeyCapacity > 0
      BY Capacity
    <3> HIDE DEF e
    <3> QED
      BY <3>3, <3>4 DEF Keys!Recency!Next, Keys!Recency!NoteOn
  <2>5. ASSUME NEW n \in Notes, ReleaseKey(n)
        PROVE  Keys!Recency!Next \/ Keys!AbstractStack' = Keys!AbstractStack
    <3>1. keys' = Keys!AfterNoteOff(keys, n)
      BY <2>5 DEF ReleaseKey, Keys!NoteOff
    <3>2. PICK M : /\ IsList(keys', M)
                   /\ StackOf(keys', M) = Keys!Recency!Without(s, n)
      BY <2>1, <3>1, StackSteps DEF s
    <3>3. Keys!AbstractStack' = Keys!Recency!Without(Keys!AbstractStack, n)
      BY <2>2, <2>3, <3>2
    <3>4. s \in Seq(Keystrokes)
      BY <2>1, StackIsRead DEF s
    <3>5. CASE \E i \in 1..Len(s) : s[i].note = n
      <4>1. PICK i \in 1..Len(s) : s[i].note = n
        BY <3>5
      <4> DEFINE e == s[i]
      <4>2. e \in [note : Notes, velocity : Velocities] /\ e.note = n
        <5>1. e \in Keystrokes /\ e.note = n
          BY <3>4, <4>1
        <5> HIDE DEF e
        <5> QED
          BY <5>1 DEF Keystrokes
      <4> HIDE DEF e
      <4>3. Keys!AbstractStack' = Keys!Recency!Without(Keys!AbstractStack, e.note)
        BY <3>3, <4>2
      <4> QED
        BY <4>2, <4>3 DEF Keys!Recency!Next, Keys!Recency!NoteOff
    <3>6. CASE \A i \in 1..Len(s) : s[i].note # n
      <4>1. Keys!Recency!Without(s, n) = s
        BY <3>4, <3>6, WithoutOne
      <4> QED
        BY <2>2, <3>3, <4>1
    <3> QED
      BY <3>5, <3>6
  <2>6. ASSUME AllNotesOff \/ AllSoundOff PROVE Keys!Recency!Next
    <3>1. keys' = Keys!AfterClear(keys)
      BY <2>6 DEF AllNotesOff, AllSoundOff, Keys!Clear
    <3>2. IsList(keys', <<>>) /\ StackOf(keys', <<>>) = <<>>
      BY <2>1, <3>1, StackSteps
    <3>3. Keys!AbstractStack' = <<>>
      BY <2>3, <3>2
    <3> QED
      BY <3>3 DEF Keys!Recency!Next, Keys!Recency!Clear
  <2>7. CASE UNCHANGED <<keys, alloc>>
    <3>1. IsList(keys', L) /\ StackOf(keys', L) = s
      BY <2>1, <2>7 DEF s
    <3> QED
      BY <2>2, <2>3, <3>1
  <2> QED
    BY <2>4, <2>5, <2>6, <2>7 DEF PartNext
<1> QED
  BY <1>1, <1>2, KeysInductive, PTL
     DEF PartSpec, KeysAreARecencyStack, Keys!ImplementsRecencyStack, Keys!Recency!Spec

-----------------------------------------------------------------------------
(* The voices play remembered keys.                                        *)

\* The notes of a stack, and those above a note of it.
NotesIn(s) == {s[i].note : i \in 1..Len(s)}

Above(s, x) ==
  {s[i].note : i \in {j \in 1..Len(s) : \E k \in 1..Len(s) : s[k].note = x /\ j < k}}

Distinct(s) == \A i, j \in 1..Len(s) : s[i].note = s[j].note => i = j

\* The notes that the voices of an allocator sound.
Sounding(a) == {a.pool[v].note : v \in {w \in VoicesOf(a) : a.pool[w].active}}

\* The keys above a note that sounds were struck after it, or struck again; each of them
\* that sounds has a voice, and each that does not lost it, which moved the voice of the
\* note back by one place.
Remembered(a, s) ==
  \A v \in VoicesOf(a) :
    a.pool[v].active =>
      /\ a.pool[v].note \in NotesIn(s)
      /\ Cardinality(Above(s, a.pool[v].note) \ Sounding(a)) <= PlaceOf(a, v)

\* What remains when a note is taken out.
LEMMA WithoutKeeps ==
  ASSUME NEW S, NEW s \in Seq(S), Distinct(s), NEW n, NEW w, w = Keys!Recency!Without(s, n)
  PROVE  /\ w \in Seq(S) /\ Distinct(w)
         /\ Len(w) = IF n \in NotesIn(s) THEN Len(s) - 1 ELSE Len(s)
         /\ n \notin NotesIn(s) => w = s
         /\ NotesIn(w) = NotesIn(s) \ {n}
         /\ \A x : Above(w, x) \subseteq Above(s, x)
<1>1. CASE \A i \in 1..Len(s) : s[i].note # n
  <2>1. w = s
    BY <1>1, WithoutOne
  <2> QED
    BY <1>1, <2>1 DEF NotesIn
<1>2. ASSUME NEW at \in 1..Len(s), s[at].note = n
      PROVE  /\ w \in Seq(S) /\ Distinct(w)
             /\ n \in NotesIn(s) /\ Len(w) = Len(s) - 1
             /\ NotesIn(w) = NotesIn(s) \ {n}
             /\ \A x : Above(w, x) \subseteq Above(s, x)
  <2>0. Len(s) \in Nat /\ at \in Nat /\ at >= 1 /\ at <= Len(s)
    OBVIOUS
  <2>1. \A i \in 1..Len(s) : s[i].note = n => i = at
    BY <1>2 DEF Distinct
  <2>2. w = CutAt(s, Len(s), at) /\ w \in Seq(S) /\ Len(w) = Len(s) - 1
    <3>1. w = CutAt(s, Len(s), at)
      BY <1>2, <2>1, WithoutOne
    <3>2. CutAt(s, Len(s), at) \in Seq(S) /\ Len(CutAt(s, Len(s), at)) = Len(s) - 1
      BY CutIsRemoved
    <3> QED
      BY <3>1, <3>2
  <2> DEFINE From(i) == IF i < at THEN i ELSE i + 1
  <2>3. \A i \in 1..Len(w) : From(i) \in 1..Len(s) /\ From(i) # at /\ w[i] = s[From(i)]
    BY <2>0, <2>2 DEF CutAt
  <2>4. \A i, j \in 1..Len(w) : i < j => From(i) < From(j)
    BY <2>0, <2>2
  <2>5. \A j \in 1..Len(s) : j # at => \E i \in 1..Len(w) : From(i) = j
    <3> SUFFICES ASSUME NEW j \in 1..Len(s), j # at PROVE \E i \in 1..Len(w) : From(i) = j
      OBVIOUS
    <3>1. CASE j < at
      BY <2>0, <2>2, <3>1
    <3>2. CASE ~(j < at)
      <4>1. j - 1 \in 1..Len(w) /\ From(j - 1) = j
        BY <2>0, <2>2, <3>2
      <4> QED
        BY <4>1
    <3> QED
      BY <3>1, <3>2
  <2>6. \A i, j \in 1..Len(w) : From(i) = From(j) => i = j
    BY <2>0, <2>2
  <2> HIDE DEF From
  <2>7. Distinct(w)
    <3> SUFFICES ASSUME NEW i \in 1..Len(w), NEW j \in 1..Len(w), w[i].note = w[j].note
                 PROVE  i = j
      BY DEF Distinct
    <3>1. /\ From(i) \in 1..Len(s) /\ From(j) \in 1..Len(s)
          /\ s[From(i)].note = s[From(j)].note
      BY <2>3
    <3>2. From(i) = From(j)
      BY <3>1 DEF Distinct
    <3> QED
      BY <2>6, <3>2
  <2>8. NotesIn(w) = NotesIn(s) \ {n}
    <3>1. \A i \in 1..Len(w) : w[i].note \in NotesIn(s) /\ w[i].note # n
      BY <2>1, <2>3 DEF NotesIn
    <3>2. ASSUME NEW y \in NotesIn(s), y # n PROVE y \in NotesIn(w)
      <4>1. PICK j \in 1..Len(s) : s[j].note = y
        BY DEF NotesIn
      <4>2. PICK i \in 1..Len(w) : From(i) = j
        BY <1>2, <2>5, <3>2, <4>1
      <4>3. w[i].note = y
        BY <2>3, <4>1, <4>2
      <4> QED
        BY <4>3 DEF NotesIn
    <3>3. \A y \in NotesIn(w) : y \in NotesIn(s) /\ y # n
      BY <3>1 DEF NotesIn
    <3> QED
      BY <3>2, <3>3
  <2>9. ASSUME NEW x, NEW y \in Above(w, x) PROVE y \in Above(s, x)
    <3>1. PICK i \in 1..Len(w), k \in 1..Len(w) : w[k].note = x /\ i < k /\ y = w[i].note
      BY <2>9 DEF Above
    <3>2. /\ From(i) \in 1..Len(s) /\ From(k) \in 1..Len(s) /\ From(i) < From(k)
          /\ s[From(k)].note = x /\ y = s[From(i)].note
      BY <2>3, <2>4, <3>1
    <3> QED
      BY <3>2 DEF Above
  <2> QED
    BY <1>2, <2>2, <2>7, <2>8, <2>9 DEF NotesIn
<1> QED
  BY <1>1, <1>2 DEF NotesIn

\* What is played, place by place.
LEMMA PlayedAt ==
  ASSUME NEW S, NEW v \in Seq(S), NEW e \in S, NEW cap \in Nat, cap > 0,
         NEW w \in Seq(S), w = Keys!Recency!Without(v, e.note),
         NEW p, p = Keys!Recency!Played(v, e, cap)
  PROVE  /\ p \in Seq(S) /\ Len(p) = IF Len(w) + 1 > cap THEN cap ELSE Len(w) + 1
         /\ p[1] = e /\ \A i \in 2..Len(p) : p[i] = w[i - 1]
<1> DEFINE t == <<e>> \o w
<1>1. p = IF Len(t) > cap THEN SubSeq(t, 1, cap) ELSE t
  BY DEF Keys!Recency!Played
<1>2. /\ t \in Seq(S) /\ Len(t) = Len(w) + 1 /\ t[1] = e
      /\ \A i \in 2..(Len(w) + 1) : t[i] = w[i - 1]
  OBVIOUS
<1>3. Len(w) \in Nat
  OBVIOUS
<1> HIDE DEF t
<1>4. CASE Len(t) > cap
  <2>1. cap \in Nat /\ cap > 0 /\ cap <= Len(t) /\ t \in Seq(S) /\ p = SubSeq(t, 1, cap)
    BY <1>1, <1>2, <1>3, <1>4
  <2>2. p \in Seq(S) /\ Len(p) = cap /\ \A i \in 1..cap : p[i] = t[i]
    BY ONLY <2>1
  <2>3. 1 \in 1..cap /\ \A i \in 2..cap : i \in 1..cap /\ i \in 2..(Len(w) + 1)
    BY <1>2, <1>3, <2>1
  <2> QED
    BY <1>2, <1>4, <2>2, <2>3
<1>5. CASE ~(Len(t) > cap)
  BY <1>1, <1>2, <1>5
<1> QED
  BY <1>4, <1>5

\* A note that is played goes on top, and the oldest is dropped when there is no room.
LEMMA PlayedKeeps ==
  ASSUME NEW S, NEW s \in Seq(S), Distinct(s), NEW e \in S, NEW cap \in Nat, cap > 0,
         Len(s) <= cap, NEW p, p = Keys!Recency!Played(s, e, cap)
  PROVE  /\ e.note \in NotesIn(p) /\ Above(p, e.note) = {}
         /\ \A x : x # e.note => Above(p, x) \subseteq Above(s, x) \cup {e.note}
         /\ \A x \in NotesIn(s) :
              x \in NotesIn(p) \/ (e.note \notin NotesIn(s) /\ Len(s) = cap /\ x = s[cap].note)
<1> DEFINE w == Keys!Recency!Without(s, e.note)
<1>1. /\ w \in Seq(S) /\ w = Keys!Recency!Without(s, e.note)
      /\ Len(w) = IF e.note \in NotesIn(s) THEN Len(s) - 1 ELSE Len(s)
      /\ e.note \notin NotesIn(s) => w = s
      /\ NotesIn(w) = NotesIn(s) \ {e.note}
      /\ \A x : Above(w, x) \subseteq Above(s, x)
  BY WithoutKeeps
<1> HIDE DEF w
<1>2. /\ p \in Seq(S) /\ Len(p) = IF Len(w) + 1 > cap THEN cap ELSE Len(w) + 1
      /\ p[1] = e /\ \A i \in 2..Len(p) : p[i] = w[i - 1]
  BY <1>1, PlayedAt
<1>3. /\ Len(w) \in Nat /\ Len(s) \in Nat /\ Len(p) \in Nat /\ Len(p) >= 1
      /\ Len(p) <= Len(w) + 1
  BY <1>1, <1>2
<1>4. \A i \in 2..Len(p) : i - 1 \in 1..Len(w) /\ i \in 1..Len(p)
  BY <1>3
<1>5. \A i \in 2..Len(p) : p[i].note # e.note /\ p[i].note \in NotesIn(w)
  <2>1. \A j \in 1..Len(w) : w[j].note # e.note /\ w[j].note \in NotesIn(w)
    BY <1>1 DEF NotesIn
  <2> QED
    BY <1>2, <1>4, <2>1
<1>6. e.note \in NotesIn(p)
  BY <1>2, <1>3 DEF NotesIn
<1>7. Above(p, e.note) = {}
  <2> SUFFICES ASSUME NEW y \in Above(p, e.note) PROVE FALSE
    OBVIOUS
  <2>1. PICK i \in 1..Len(p), k \in 1..Len(p) : p[k].note = e.note /\ i < k
    BY DEF Above
  <2>2. k \in 2..Len(p)
    BY <1>3, <2>1
  <2> QED
    BY <1>5, <2>1, <2>2
<1>8. ASSUME NEW x, x # e.note, NEW y \in Above(p, x)
      PROVE  y \in Above(s, x) \cup {e.note}
  <2>1. PICK i \in 1..Len(p), k \in 1..Len(p) : p[k].note = x /\ i < k /\ y = p[i].note
    BY <1>8 DEF Above
  <2>2. CASE i = 1
    BY <1>2, <2>1, <2>2
  <2>3. CASE i # 1
    <3>1. i \in 2..Len(p) /\ k \in 2..Len(p) /\ i - 1 < k - 1
      BY <1>3, <2>1, <2>3
    <3>2. /\ w[k - 1].note = x /\ y = w[i - 1].note
          /\ i - 1 \in 1..Len(w) /\ k - 1 \in 1..Len(w)
      BY <1>2, <1>4, <2>1, <3>1
    <3>3. y \in Above(w, x)
      BY <3>1, <3>2 DEF Above
    <3> QED
      BY <1>1, <3>3
  <2> QED
    BY <2>2, <2>3
<1>9. ASSUME NEW x \in NotesIn(s), x \notin NotesIn(p)
      PROVE  e.note \notin NotesIn(s) /\ Len(s) = cap /\ x = s[cap].note
  <2>1. x # e.note /\ x \in NotesIn(w)
    BY <1>1, <1>6, <1>9
  <2>2. PICK j \in 1..Len(w) : w[j].note = x
    BY <2>1 DEF NotesIn
  <2>3. ~(j + 1 \in 2..Len(p))
    <3> SUFFICES ASSUME j + 1 \in 2..Len(p) PROVE FALSE
      OBVIOUS
    <3>1. p[j + 1] = w[j] /\ j + 1 \in 1..Len(p)
      <4>1. p[j + 1] = w[(j + 1) - 1] /\ (j + 1) - 1 = j
        BY <1>2
      <4> QED
        BY <1>4, <4>1
    <3> QED
      BY <1>9, <2>2, <3>1 DEF NotesIn
  <2>4. j + 1 > Len(p)
    BY <1>3, <2>3
  <2>5. Len(w) + 1 > cap /\ Len(p) = cap
    BY <1>2, <1>3, <2>4
  <2>6. e.note \notin NotesIn(s) /\ Len(s) = cap /\ j = cap /\ w = s
    BY <1>1, <1>3, <2>4, <2>5
  <2> QED
    BY <2>2, <2>6
<1> QED
  BY <1>6, <1>7, <1>8, <1>9

\* The sets of notes are finite.
LEMMA NotesAreFinite == \A N \in SUBSET Notes : IsFiniteSet(N) /\ Cardinality(N) \in Nat
<1>1. IsFiniteSet(Notes)
  BY MaxNoteAssumption, FS_Interval DEF Notes
<1>2. ASSUME NEW N \in SUBSET Notes PROVE IsFiniteSet(N)
  BY <1>1, FS_Subset
<1> QED
  BY <1>2, FS_CardinalityType

LEMMA AboveIsNotes ==
  ASSUME NEW s \in Seq(Keystrokes), NEW x
  PROVE  NotesIn(s) \in SUBSET Notes /\ Above(s, x) \in SUBSET NotesIn(s)
<1>1. \A i \in 1..Len(s) : s[i].note \in Notes
  <2>1. \A i \in 1..Len(s) : s[i] \in Keystrokes
    OBVIOUS
  <2> QED
    BY <2>1 DEF Keystrokes
<1> QED
  BY <1>1 DEF NotesIn, Above

\* All the other notes are above the last one.
LEMMA AboveTheLast ==
  ASSUME NEW s \in Seq(Keystrokes), Distinct(s), Len(s) > 0
  PROVE  Cardinality(Above(s, s[Len(s)].note)) >= Len(s) - 1
<1> DEFINE m == Len(s) - 1
           A == Above(s, s[Len(s)].note)
           f == [i \in 1..m |-> s[i].note]
<1>1. m \in Nat /\ Len(s) = m + 1 /\ Len(s) \in 1..Len(s)
  OBVIOUS
<1>2. IsFiniteSet(A)
  BY NotesAreFinite, AboveIsNotes
<1>3. \A i \in 1..m : i \in 1..Len(s) /\ i < Len(s) /\ s[i].note \in A
  <2>1. \A i \in 1..m : i \in 1..Len(s) /\ i < Len(s)
    BY <1>1
  <2> QED
    BY <1>1, <2>1 DEF Above
<1> HIDE DEF A
<1>4. f \in Injection(1..m, A)
  <2>1. f \in [1..m -> A]
    BY <1>3
  <2>2. \A i, j \in 1..m : f[i] = f[j] => i = j
    BY <1>3 DEF Distinct
  <2> HIDE DEF f
  <2> QED
    BY <2>1, <2>2 DEF Injection, IsInjective
<1> HIDE DEF f, m
<1>5. Cardinality(1..m) <= Cardinality(A) /\ Cardinality(1..m) = m
  <2>1. Cardinality(1..m) <= Cardinality(A)
    BY <1>2, <1>4, FS_Injection
  <2>2. Cardinality(1..m) = m
    BY <1>1, FS_Interval
  <2> QED
    BY <2>1, <2>2
<1>6. Cardinality(A) \in Nat
  BY <1>2, FS_CardinalityType
<1> QED
  BY <1>1, <1>5, <1>6 DEF m, A

\* Touching a voice moves those in front of it back by one place.
LEMMA TouchPlaces ==
  ASSUME NEW a, IsPool(a), Permutes(a), NEW c \in VoicesOf(a), NEW v \in VoicesOf(a), v # c
  PROVE  PlaceOf(AfterTouch(a, c), v)
           = IF PlaceOf(a, v) < PlaceOf(a, c) THEN PlaceOf(a, v) + 1 ELSE PlaceOf(a, v)
<1> DEFINE place == PlaceOf(a, c)
           i == PlaceOf(a, v)
           b == AfterTouch(a, c)
           V == VoicesOf(a)
           q == IF i < place THEN i + 1 ELSE i
<1>1. place \in V /\ a.lru[place] = c /\ i \in V /\ a.lru[i] = v
  BY PlaceOfVoice
<1>2. /\ a.size \in Nat /\ V = 0..(a.size - 1)
      /\ VoicesOf(b) = V /\ IsPool(b) /\ Permutes(b)
  BY PoolFields, TouchFrame, TouchPermutes DEF SameKind
<1>3. \A k \in V : b.lru[k] = IF k = 0 THEN c
                              ELSE IF k <= place THEN a.lru[k - 1] ELSE a.lru[k]
  BY PoolFields DEF AfterTouch
<1>4. PlaceOf(b, v) \in V /\ b.lru[PlaceOf(b, v)] = v
  BY <1>2, PlaceOfVoice
<1>5. \A k, l \in V : b.lru[k] = b.lru[l] => k = l
  BY <1>2 DEF Permutes
<1> HIDE DEF place, i, b, V
<1>6. i # place
  BY <1>1
<1>7. q \in V /\ b.lru[q] = v
  <2>1. CASE i < place
    <3>1. i + 1 \in V /\ i + 1 # 0 /\ i + 1 <= place /\ (i + 1) - 1 = i
      BY <1>1, <1>2, <2>1
    <3> QED
      BY <1>1, <1>3, <2>1, <3>1
  <2>2. CASE ~(i < place)
    <3>1. i # 0 /\ ~(i <= place)
      BY <1>1, <1>2, <1>6, <2>2
    <3> QED
      BY <1>1, <1>3, <2>2, <3>1
  <2> QED
    BY <2>1, <2>2
<1> HIDE DEF q
<1>8. PlaceOf(b, v) = q
  BY <1>4, <1>5, <1>7
<1> QED
  BY <1>8 DEF q, b, i, place

\* The places after a voice is written and touched.
LEMMA WrittenPlaces ==
  ASSUME NEW a, NEW c \in VoicesOf(a), NEW s, NEW k, WellFormed(a),
         WellFormed(Written(a, c, s, k)), NEW v \in VoicesOf(a), v # c
  PROVE  PlaceOf(AfterTouch(Written(a, c, s, k), c), v)
           = IF PlaceOf(a, v) < PlaceOf(a, c) THEN PlaceOf(a, v) + 1 ELSE PlaceOf(a, v)
<1> DEFINE b == Written(a, c, s, k)
<1>1. b.size = a.size /\ b.lru = a.lru
  BY DEF Written
<1>2. WellFormed(b)
  OBVIOUS
<1> HIDE DEF b
<1>3. VoicesOf(b) = VoicesOf(a) /\ \A w : PlaceOf(b, w) = PlaceOf(a, w)
  BY <1>1 DEF VoicesOf, PlaceOf
<1>4. PlaceOf(AfterTouch(b, c), v)
        = IF PlaceOf(b, v) < PlaceOf(b, c) THEN PlaceOf(b, v) + 1 ELSE PlaceOf(b, v)
  BY <1>2, <1>3, TouchPlaces DEF WellFormed
<1> QED
  BY <1>3, <1>4 DEF b

\* The places after a note-on and after a note-off.
LEMMA NoteOnPlaces ==
  ASSUME NEW a, WellFormed(a), a.cyclic = NonCyclic, a.size # 0, NEW n \in Notes,
         NEW v \in VoicesOf(a), v # ChosenVoice(a, n)
  PROVE  PlaceOf(AfterNoteOn(a, n), v)
           = IF PlaceOf(a, v) < PlaceOf(a, ChosenVoice(a, n)) THEN PlaceOf(a, v) + 1
             ELSE PlaceOf(a, v)
<1> DEFINE c == ChosenVoice(a, n)
           b == Written(a, c, On(n), a.cyclic)
<1>1. c \in VoicesOf(a)
  BY NoteOnWellFormed
<1>2. On(n) \in VoiceState /\ On(n).note = n
  BY DEF On, VoiceState
<1>3. Find(a, n) \in {c, NoVoice}
  BY DEF ChosenVoice
<1>4. AfterNoteOn(a, n) = AfterTouch(b, c)
  BY DEF AfterNoteOn, Written
<1> HIDE DEF c
<1>5. WellFormed(b)
  BY <1>1, <1>2, <1>3, WrittenWellFormed
<1>6. PlaceOf(AfterTouch(b, c), v)
        = IF PlaceOf(a, v) < PlaceOf(a, c) THEN PlaceOf(a, v) + 1 ELSE PlaceOf(a, v)
  BY <1>1, <1>5, WrittenPlaces DEF c
<1> QED
  BY <1>4, <1>6 DEF c

LEMMA NoteOffPlaces ==
  ASSUME NEW a, WellFormed(a), a.cyclic = NonCyclic, NEW n, Find(a, n) # NoVoice,
         NEW v \in VoicesOf(a), v # Find(a, n)
  PROVE  PlaceOf(AfterNoteOff(a, n), v)
           = IF PlaceOf(a, v) < PlaceOf(a, Find(a, n)) THEN PlaceOf(a, v) + 1
             ELSE PlaceOf(a, v)
<1> DEFINE c == Find(a, n)
           b == Written(a, c, Off(n), a.cyclic)
<1>0. IsPool(a) /\ a.cyclic \in VoicesOf(a) \cup {0, NonCyclic}
  BY DEF WellFormed
<1>1. c \in VoicesOf(a) /\ n \in Notes
  <2>1. c \in VoicesOf(a) /\ a.pool[c].note = n
    BY <1>0, FindIsFirst
  <2> QED
    BY <1>0, <2>1, PoolFields DEF VoiceState
<1>2. Off(n) \in VoiceState /\ Off(n).note = n
  BY <1>1 DEF Off, VoiceState
<1>3. AfterNoteOff(a, n) = AfterTouch(b, c)
  <2>1. [a EXCEPT !.pool[c] = Off(n)] = b
    BY <1>0, PoolRecord DEF Written
  <2> QED
    BY <2>1 DEF AfterNoteOff
<1>4. Find(a, n) \in {c, NoVoice}
  OBVIOUS
<1> HIDE DEF c
<1>5. WellFormed(b)
  BY <1>1, <1>2, <1>4, WrittenWellFormed
<1>6. PlaceOf(AfterTouch(b, c), v)
        = IF PlaceOf(a, v) < PlaceOf(a, c) THEN PlaceOf(a, v) + 1 ELSE PlaceOf(a, v)
  BY <1>1, <1>5, WrittenPlaces DEF c
<1> QED
  BY <1>3, <1>6 DEF c

\* Some voices sound as many notes at most.
LEMMA VoicesSound ==
  ASSUME NEW a, IsPool(a), NEW W \in SUBSET VoicesOf(a),
         NEW N, N \in SUBSET {a.pool[v].note : v \in W}
  PROVE  /\ IsFiniteSet(W) /\ Cardinality(W) \in Nat
         /\ IsFiniteSet(N) /\ Cardinality(N) \in Nat /\ Cardinality(N) <= Cardinality(W)
<1> DEFINE T == {a.pool[v].note : v \in W}
           f == [v \in W |-> a.pool[v].note]
<1>1. IsFiniteSet(W) /\ Cardinality(W) \in Nat
  <2>1. a.size - 1 \in Int /\ VoicesOf(a) = 0..(a.size - 1)
    BY PoolFields
  <2>2. IsFiniteSet(0..(a.size - 1))
    BY <2>1, FS_Interval
  <2>3. IsFiniteSet(W)
    BY <2>1, <2>2, FS_Subset
  <2> QED
    BY <2>3, FS_CardinalityType
<1>2. f \in Surjection(W, T)
  <2>1. f \in [W -> T] /\ \A t \in T : \E v \in W : f[v] = t
    OBVIOUS
  <2> HIDE DEF f, T
  <2> QED
    BY <2>1 DEF Surjection
<1> HIDE DEF f
<1>3. IsFiniteSet(T) /\ Cardinality(T) <= Cardinality(W) /\ N \in SUBSET T
  BY <1>1, <1>2, FS_Surjection
<1> HIDE DEF T
<1>4. IsFiniteSet(N) /\ Cardinality(N) <= Cardinality(T)
  BY <1>3, FS_Subset
<1>5. Cardinality(N) \in Nat /\ Cardinality(T) \in Nat
  BY <1>3, <1>4, FS_CardinalityType
<1> QED
  BY <1>1, <1>3, <1>4, <1>5

\* The voices but one, and but two.
LEMMA VoicesBut ==
  ASSUME NEW a, IsPool(a), NEW v \in VoicesOf(a)
  PROVE  /\ Cardinality(VoicesOf(a) \ {v}) = a.size - 1
         /\ \A c \in VoicesOf(a) \ {v} : Cardinality((VoicesOf(a) \ {v}) \ {c}) = a.size - 2
<1>1. a.size \in Nat /\ VoicesOf(a) = 0..(a.size - 1) /\ a.size > 0
  BY PoolFields
<1>2. IsFiniteSet(VoicesOf(a)) /\ Cardinality(VoicesOf(a)) = a.size
  <2>1. 0 \in Int /\ a.size - 1 \in Int
    BY <1>1
  <2>2. /\ IsFiniteSet(0..(a.size - 1))
        /\ Cardinality(0..(a.size - 1))
             = IF 0 > a.size - 1 THEN 0 ELSE (a.size - 1) - 0 + 1
    BY <2>1, FS_Interval
  <2> QED
    BY <1>1, <2>2
<1> DEFINE W == VoicesOf(a) \ {v}
<1>3. IsFiniteSet(W) /\ Cardinality(W) = a.size - 1
  BY <1>2, FS_RemoveElement
<1> HIDE DEF W
<1>4. ASSUME NEW c \in W PROVE Cardinality(W \ {c}) = a.size - 2
  <2>1. Cardinality(W \ {c}) = Cardinality(W) - 1
    BY <1>3, FS_RemoveElement
  <2> QED
    BY <1>1, <1>3, <2>1
<1> QED
  BY <1>3, <1>4 DEF W

\* What a key that is struck makes of the two memories.
LEMMA StruckRemembered ==
  ASSUME NEW a, WellFormed(a), a.cyclic = NonCyclic, NEW s \in Seq(Keystrokes), Distinct(s),
         NEW cap \in Nat, cap > 0, Len(s) <= cap, a.size + a.size - 1 <= cap, Remembered(a, s),
         NEW n \in Notes, NEW e \in Keystrokes, e.note = n,
         NEW p, p = Keys!Recency!Played(s, e, cap)
  PROVE  Remembered(IF FindActive(a, n) = NoVoice THEN AfterNoteOn(a, n) ELSE a, p)
<1>0. IsPool(a) /\ Permutes(a) /\ a.size \in Nat /\ VoicesOf(a) = 0..(a.size - 1)
  BY PoolFields DEF WellFormed
<1>1. /\ n \in NotesIn(p) /\ Above(p, n) = {}
      /\ \A x : x # n => Above(p, x) \subseteq Above(s, x) \cup {n}
      /\ \A x \in NotesIn(s) :
           x \in NotesIn(p) \/ (n \notin NotesIn(s) /\ Len(s) = cap /\ x = s[cap].note)
  <2>1. /\ e.note \in NotesIn(p) /\ Above(p, e.note) = {}
        /\ \A x : x # e.note => Above(p, x) \subseteq Above(s, x) \cup {e.note}
        /\ \A x \in NotesIn(s) :
             x \in NotesIn(p) \/ (e.note \notin NotesIn(s) /\ Len(s) = cap /\ x = s[cap].note)
    BY PlayedKeeps
  <2> QED
    BY <2>1
<1>2. \A x : Above(s, x) \in SUBSET Notes
  BY AboveIsNotes
<1>3. \A x : /\ IsFiniteSet(Above(s, x) \ Sounding(a))
             /\ Cardinality(Above(s, x) \ Sounding(a)) \in Nat
  BY <1>2, NotesAreFinite
<1>4. \A v \in VoicesOf(a) : PlaceOf(a, v) \in VoicesOf(a)
  BY <1>0, PlaceOfVoice
<1>5. CASE FindActive(a, n) # NoVoice
  <2>1. n \in Sounding(a)
    <3>1. PICK w \in VoicesOf(a) : a.pool[w] = On(n)
      BY <1>0, <1>5, FindActiveIsFirst
    <3> QED
      BY <3>1 DEF Sounding, On
  <2>2. n \in NotesIn(s)
    BY <2>1 DEF Sounding, Remembered
  <2> SUFFICES ASSUME NEW v \in VoicesOf(a), a.pool[v].active
               PROVE  /\ a.pool[v].note \in NotesIn(p)
                      /\ Cardinality(Above(p, a.pool[v].note) \ Sounding(a)) <= PlaceOf(a, v)
    BY <1>5 DEF Remembered
  <2> DEFINE x == a.pool[v].note
  <2>3. x \in NotesIn(s) /\ Cardinality(Above(s, x) \ Sounding(a)) <= PlaceOf(a, v)
    BY DEF Remembered
  <2> HIDE DEF x
  <2>4. x \in NotesIn(p)
    BY <1>1, <2>2, <2>3
  <2>5. Above(p, x) \ Sounding(a) \in SUBSET (Above(s, x) \ Sounding(a))
    BY <1>1, <2>1
  <2>6. /\ Cardinality(Above(p, x) \ Sounding(a)) <= Cardinality(Above(s, x) \ Sounding(a))
        /\ Cardinality(Above(p, x) \ Sounding(a)) \in Nat
    <3>1. /\ IsFiniteSet(Above(p, x) \ Sounding(a))
          /\ Cardinality(Above(p, x) \ Sounding(a)) <= Cardinality(Above(s, x) \ Sounding(a))
      BY <1>3, <2>5, FS_Subset
    <3> QED
      BY <3>1, FS_CardinalityType
  <2>7. PlaceOf(a, v) \in Int
    BY <1>0, <1>4
  <2>8. Cardinality(Above(p, x) \ Sounding(a)) <= PlaceOf(a, v)
    <3>1. Cardinality(Above(s, x) \ Sounding(a)) \in Nat
      BY <1>3
    <3> QED
      BY <2>3, <2>6, <2>7, <3>1
  <2> QED
    BY <2>4, <2>8 DEF x
<1>6. CASE FindActive(a, n) = NoVoice /\ a.size = 0
  <2>1. AfterNoteOn(a, n) = a /\ VoicesOf(a) = {}
    <3>1. VoicesOf(a) = {}
      BY <1>0, <1>6
    <3>2. AfterNoteOn(a, n) = a
      BY <1>6 DEF AfterNoteOn
    <3> QED
      BY <3>1, <3>2
  <2> QED
    BY <1>6, <2>1 DEF Remembered
<1>7. CASE FindActive(a, n) = NoVoice /\ a.size # 0
  <2> DEFINE c == ChosenVoice(a, n)
             b == AfterNoteOn(a, n)
  <2>1. /\ c \in VoicesOf(a) /\ b.pool = [a.pool EXCEPT ![c] = On(n)]
        /\ VoicesOf(b) = VoicesOf(a) /\ WellFormed(b)
    BY <1>7, NoteOnWellFormed DEF SameKind
  <2>2. /\ a.pool \in [VoicesOf(a) -> VoiceState] /\ On(n).note = n /\ On(n).active
        /\ \A v \in VoicesOf(a) : a.pool[v].active => a.pool[v] = On(a.pool[v].note)
    BY <1>0, PoolFields DEF On, VoiceState
  <2>3. \A v \in VoicesOf(a) : v # c => PlaceOf(b, v)
           = IF PlaceOf(a, v) < PlaceOf(a, c) THEN PlaceOf(a, v) + 1 ELSE PlaceOf(a, v)
    BY <1>7, NoteOnPlaces
  <2>4. a.pool[c].active => PlaceOf(a, c) = a.size - 1
    <3>1. a.pool[c].active => c = LeastRecentIn(a, VoicesOf(a))
      BY <1>7, StolenWhenFull
    <3> HIDE DEF c
    <3> QED
      BY <1>7, <3>1, StolenIsLast
  <2>5. \A v, w \in VoicesOf(a) : PlaceOf(a, v) = PlaceOf(a, w) => v = w
    <3>1. \A v \in VoicesOf(a) : a.lru[PlaceOf(a, v)] = v
      BY <1>0, PlaceOfVoice
    <3> QED
      BY <3>1
  <2>6. PlaceOf(b, c) \in Nat
    <3> HIDE DEF b, c
    <3>1. PlaceOf(b, c) \in VoicesOf(b)
      BY <2>1, PlaceOfVoice DEF WellFormed
    <3> QED
      BY <1>0, <2>1, <3>1
  <2> HIDE DEF c, b
  <2>7. /\ b.pool[c] = On(n)
        /\ \A v \in VoicesOf(a) : v # c => b.pool[v] = a.pool[v]
    BY <2>1, <2>2
  <2>8. \A v \in VoicesOf(a) : a.pool[v].active => a.pool[v].note # n
    BY <1>0, <1>7, <2>2, FindActiveIsFirst
  <2>9. n \in Sounding(b)
    BY <2>1, <2>2, <2>7 DEF Sounding
  <2>10. \A y \in Sounding(a) : y \in Sounding(b) \/ (a.pool[c].active /\ y = a.pool[c].note)
    <3> SUFFICES ASSUME NEW y \in Sounding(a)
                 PROVE  y \in Sounding(b) \/ (a.pool[c].active /\ y = a.pool[c].note)
      OBVIOUS
    <3>1. PICK w \in VoicesOf(a) : a.pool[w].active /\ y = a.pool[w].note
      BY DEF Sounding
    <3>2. w # c => w \in VoicesOf(b) /\ b.pool[w].active /\ y = b.pool[w].note
      BY <2>1, <2>7, <3>1
    <3> QED
      BY <3>1, <3>2 DEF Sounding
  <2>11. ASSUME NEW v \in VoicesOf(a), v # c, a.pool[v].active
         PROVE  /\ a.pool[v].note \in NotesIn(p)
                /\ Cardinality(Above(p, a.pool[v].note) \ Sounding(b)) <= PlaceOf(b, v)
    <3> DEFINE x == a.pool[v].note
               F == Above(s, x) \ Sounding(a)
               G == Above(p, x) \ Sounding(b)
    <3>1. /\ x \in NotesIn(s) /\ Cardinality(F) <= PlaceOf(a, v) /\ x # n
          /\ IsFiniteSet(F) /\ Cardinality(F) \in Nat
      BY <1>3, <2>8, <2>11 DEF Remembered
    <3>2. /\ PlaceOf(a, v) \in Nat /\ PlaceOf(a, c) \in Nat /\ PlaceOf(a, v) # PlaceOf(a, c)
          /\ PlaceOf(a, v) <= a.size - 1
      <4>1. PlaceOf(a, v) \in 0..(a.size - 1) /\ PlaceOf(a, c) \in 0..(a.size - 1)
        BY <1>0, <1>4, <2>1
      <4> QED
        BY <1>0, <2>1, <2>5, <2>11, <4>1
    <3>3. PlaceOf(b, v) = IF PlaceOf(a, v) < PlaceOf(a, c) THEN PlaceOf(a, v) + 1
                          ELSE PlaceOf(a, v)
      BY <2>3, <2>11
    <3> HIDE DEF x
    <3>4. Cardinality(G) <= PlaceOf(b, v)
      <4>1. CASE a.pool[c].active
        <5>1. G \in SUBSET (F \cup {a.pool[c].note})
          BY <1>1, <2>9, <2>10, <3>1
        <5>2. /\ IsFiniteSet(F \cup {a.pool[c].note})
              /\ Cardinality(F \cup {a.pool[c].note})
                   = IF a.pool[c].note \in F THEN Cardinality(F) ELSE Cardinality(F) + 1
          BY <3>1, FS_AddElement
        <5> HIDE DEF F, G
        <5>3. /\ Cardinality(G) <= Cardinality(F \cup {a.pool[c].note})
              /\ IsFiniteSet(G)
          BY <5>1, <5>2, FS_Subset
        <5>4. Cardinality(G) \in Nat
          BY <5>3, FS_CardinalityType
        <5>5. PlaceOf(b, v) = PlaceOf(a, v) + 1
          BY <1>0, <2>4, <3>2, <3>3, <4>1
        <5> QED
          BY <3>1, <3>2, <5>2, <5>3, <5>4, <5>5
      <4>2. CASE ~a.pool[c].active
        <5>1. G \in SUBSET F
          BY <1>1, <2>9, <2>10, <3>1, <4>2
        <5> HIDE DEF F, G
        <5>2. Cardinality(G) <= Cardinality(F) /\ IsFiniteSet(G)
          BY <3>1, <5>1, FS_Subset
        <5>3. Cardinality(G) \in Nat
          BY <5>2, FS_CardinalityType
        <5> QED
          BY <3>1, <3>2, <3>3, <5>2, <5>3
      <4> QED
        BY <4>1, <4>2
    <3>5. x \in NotesIn(p)
      <4> SUFFICES ASSUME x \notin NotesIn(p) PROVE FALSE
        OBVIOUS
      <4>1. Len(s) = cap /\ x = s[cap].note
        BY <1>1, <3>1
      <4> DEFINE A == Above(s, x)
                 W == IF a.pool[c].active THEN VoicesOf(a) \ {v}
                      ELSE (VoicesOf(a) \ {v}) \ {c}
                 N == A \cap Sounding(a)
      <4>2. Cardinality(A) >= cap - 1
        BY <4>1, AboveTheLast
      <4>3. IsFiniteSet(A) /\ Cardinality(A) \in Nat /\ x \notin A
        <5>1. A \in SUBSET Notes
          BY <1>2
        <5>2. x \notin A
          <6> SUFFICES ASSUME x \in A PROVE FALSE
            OBVIOUS
          <6>1. PICK i \in 1..Len(s), k \in 1..Len(s) : s[k].note = x /\ i < k /\ x = s[i].note
            BY DEF Above
          <6> QED
            BY <6>1 DEF Distinct
        <5> QED
          BY <5>1, <5>2, NotesAreFinite
      <4>4. N \in SUBSET {a.pool[w].note : w \in W} /\ W \in SUBSET VoicesOf(a)
        <5> SUFFICES ASSUME NEW y \in N PROVE \E w \in W : y = a.pool[w].note
          OBVIOUS
        <5>1. PICK w \in VoicesOf(a) : a.pool[w].active /\ y = a.pool[w].note
          BY DEF Sounding
        <5>2. w # v /\ (a.pool[c].active \/ w # c)
          BY <4>3, <5>1 DEF x
        <5> QED
          BY <5>1, <5>2
      <4>5. /\ Cardinality(W) = IF a.pool[c].active THEN a.size - 1 ELSE a.size - 2
        BY <1>0, <2>1, <2>11, VoicesBut
      <4>6. F = A \ Sounding(a) /\ N = A \cap Sounding(a)
        OBVIOUS
      <4> HIDE DEF A, W, N, F, G
      <4>7. Cardinality(A \ Sounding(a)) = Cardinality(A) - Cardinality(A \cap Sounding(a))
        BY <4>3, FS_Difference
      <4>8. Cardinality(N) <= Cardinality(W) /\ Cardinality(N) \in Nat
        BY <1>0, <4>4, VoicesSound
      <4>9. Cardinality(F) + Cardinality(N) <= a.size + a.size - 3
        <5>1. CASE a.pool[c].active
          <6>1. PlaceOf(a, c) = a.size - 1 /\ Cardinality(W) = a.size - 1
            BY <2>4, <4>5, <5>1
          <6> QED
            BY <1>0, <3>1, <3>2, <4>8, <6>1
        <5>2. CASE ~a.pool[c].active
          <6>1. Cardinality(W) = a.size - 2
            BY <4>5, <5>2
          <6> QED
            BY <1>0, <3>1, <3>2, <4>8, <6>1
        <5> QED
          BY <5>1, <5>2
      <4>10. Cardinality(A) = Cardinality(F) + Cardinality(N)
        BY <3>1, <4>3, <4>6, <4>7, <4>8
      <4>11. cap - 1 >= a.size + a.size - 2 /\ cap - 1 \in Int
        BY <1>0
      <4> QED
        BY <1>0, <3>1, <4>2, <4>3, <4>8, <4>9, <4>10, <4>11
    <3> QED
      BY <3>4, <3>5 DEF x
  <2>12. Remembered(b, p)
    <3> SUFFICES ASSUME NEW v \in VoicesOf(a), b.pool[v].active
                 PROVE  /\ b.pool[v].note \in NotesIn(p)
                        /\ Cardinality(Above(p, b.pool[v].note) \ Sounding(b)) <= PlaceOf(b, v)
      BY <2>1 DEF Remembered
    <3>1. CASE v = c
      <4>1. b.pool[v].note = n
        BY <2>2, <2>7, <3>1
      <4>2. Above(p, b.pool[v].note) \ Sounding(b) = {}
        BY <1>1, <4>1
      <4>3. Cardinality({}) <= PlaceOf(b, c)
        BY <2>6, FS_EmptySet
      <4> QED
        BY <1>1, <3>1, <4>1, <4>2, <4>3
    <3>2. CASE v # c
      BY <2>7, <2>11, <3>2
    <3> QED
      BY <3>1, <3>2
  <2> QED
    BY <1>7, <2>12 DEF b
<1> QED
  BY <1>5, <1>6, <1>7

\* What a key that is released makes of them.
LEMMA ReleasedRemembered ==
  ASSUME NEW a, WellFormed(a), a.cyclic = NonCyclic, NEW s \in Seq(Keystrokes), Distinct(s),
         Remembered(a, s), NEW n \in Notes, NEW w, w = Keys!Recency!Without(s, n)
  PROVE  Remembered(AfterNoteOff(a, n), w)
<1>0. /\ IsPool(a) /\ Permutes(a) /\ a.pool \in [VoicesOf(a) -> VoiceState]
      /\ VoicesOf(a) \in SUBSET Int
  BY PoolFields DEF WellFormed
<1>1. /\ NotesIn(w) = NotesIn(s) \ {n} /\ w \in Seq(Keystrokes)
      /\ \A x : Above(w, x) \subseteq Above(s, x)
  BY WithoutKeeps
<1>2. \A x : /\ IsFiniteSet(Above(s, x) \ Sounding(a))
             /\ Cardinality(Above(s, x) \ Sounding(a)) \in Nat
  BY AboveIsNotes, NotesAreFinite
<1>3. \A x : Above(w, x) \in SUBSET (NotesIn(s) \ {n})
  BY <1>1, AboveIsNotes
<1> DEFINE b == AfterNoteOff(a, n)
<1>4. VoicesOf(b) = VoicesOf(a)
  BY NoteOffWellFormed DEF SameKind
<1>5. \A v \in VoicesOf(a) :
        b.pool[v].active => a.pool[v].active /\ b.pool[v] = a.pool[v] /\ a.pool[v].note # n
  <2>1. CASE Find(a, n) = NoVoice
    <3>1. b = a
      BY <2>1, NoteOffWellFormed
    <3>2. \A v \in VoicesOf(a) : a.pool[v].note # n
      BY <1>0, <2>1, FindIsFirst
    <3> QED
      BY <3>1, <3>2
  <2>2. CASE Find(a, n) # NoVoice
    <3>1. Find(a, n) \in VoicesOf(a) /\ b.pool = [a.pool EXCEPT ![Find(a, n)] = Off(n)]
      BY <2>2, NoteOffWellFormed
    <3> HIDE DEF b
    <3> SUFFICES ASSUME NEW v \in VoicesOf(a), b.pool[v].active
                 PROVE  a.pool[v].active /\ b.pool[v] = a.pool[v] /\ a.pool[v].note # n
      OBVIOUS
    <3>2. v # Find(a, n)
      BY <1>0, <3>1 DEF Off
    <3>3. b.pool[v] = a.pool[v]
      BY <1>0, <3>1, <3>2
    <3>4. a.pool[v].note # n
      <4> SUFFICES ASSUME a.pool[v].note = n PROVE FALSE
        OBVIOUS
      <4>1. a.pool[v] = On(n)
        BY <1>0, <3>3 DEF On, VoiceState
      <4>2. Find(a, n) = v
        BY <4>1, FindFindsActive
      <4> QED
        BY <3>2, <4>2
    <3> QED
      BY <3>3, <3>4
  <2> QED
    BY <2>1, <2>2
<1>6. \A y \in Sounding(a) : y \in Sounding(b) \/ y = n
  <2> SUFFICES ASSUME NEW y \in Sounding(a), y # n PROVE y \in Sounding(b)
    OBVIOUS
  <2>1. PICK v \in VoicesOf(a) : a.pool[v].active /\ y = a.pool[v].note
    BY DEF Sounding
  <2>2. b.pool[v] = a.pool[v]
    <3>1. CASE Find(a, n) = NoVoice
      BY <3>1, NoteOffWellFormed
    <3>2. CASE Find(a, n) # NoVoice
      <4>1. /\ Find(a, n) \in VoicesOf(a) /\ a.pool[Find(a, n)].note = n
        BY <1>0, <3>2, FindIsFirst
      <4>2. b.pool = [a.pool EXCEPT ![Find(a, n)] = Off(n)]
        BY <3>2, NoteOffWellFormed
      <4> HIDE DEF b
      <4> QED
        BY <1>0, <2>1, <4>1, <4>2
    <3> QED
      BY <3>1, <3>2
  <2> HIDE DEF b
  <2> QED
    BY <1>4, <2>1, <2>2 DEF Sounding
<1>7. \A v \in VoicesOf(a) :
        /\ PlaceOf(a, v) \in Int
        /\ b.pool[v].active => PlaceOf(b, v) \in Int /\ PlaceOf(a, v) <= PlaceOf(b, v)
  <2> SUFFICES ASSUME NEW v \in VoicesOf(a)
               PROVE  /\ PlaceOf(a, v) \in Int
                      /\ b.pool[v].active => PlaceOf(b, v) \in Int /\ PlaceOf(a, v) <= PlaceOf(b, v)
    OBVIOUS
  <2>1. PlaceOf(a, v) \in Int
    BY <1>0, PlaceOfVoice
  <2>2. CASE Find(a, n) = NoVoice
    <3>1. b = a
      BY <2>2, NoteOffWellFormed
    <3> QED
      BY <2>1, <3>1
  <2>3. CASE Find(a, n) # NoVoice /\ v = Find(a, n)
    <3>1. ~b.pool[v].active
      <4>1. a.pool[v].note = n
        BY <1>0, <2>3, FindIsFirst
      <4> QED
        BY <1>5, <4>1
    <3> QED
      BY <2>1, <3>1
  <2>4. CASE Find(a, n) # NoVoice /\ v # Find(a, n)
    <3>1. PlaceOf(b, v) = IF PlaceOf(a, v) < PlaceOf(a, Find(a, n)) THEN PlaceOf(a, v) + 1
                          ELSE PlaceOf(a, v)
      BY <2>4, NoteOffPlaces
    <3> QED
      BY <2>1, <3>1
  <2> QED
    BY <2>2, <2>3, <2>4
<1> HIDE DEF b
<1>8. ASSUME NEW v \in VoicesOf(a), b.pool[v].active
      PROVE  /\ b.pool[v].note \in NotesIn(w)
             /\ Cardinality(Above(w, b.pool[v].note) \ Sounding(b)) <= PlaceOf(b, v)
  <2> DEFINE x == a.pool[v].note
             F == Above(s, x) \ Sounding(a)
             G == Above(w, x) \ Sounding(b)
  <2>1. /\ b.pool[v].note = x /\ x # n
        /\ x \in NotesIn(s) /\ Cardinality(F) <= PlaceOf(a, v)
    BY <1>5, <1>8 DEF Remembered
  <2>2. IsFiniteSet(F) /\ Cardinality(F) \in Nat
    BY <1>2
  <2> HIDE DEF x
  <2>3. G \in SUBSET F
    BY <1>1, <1>3, <1>6
  <2> HIDE DEF F
  <2>4. Cardinality(G) <= Cardinality(F) /\ Cardinality(G) \in Nat
    <3> HIDE DEF G
    <3>1. Cardinality(G) <= Cardinality(F) /\ IsFiniteSet(G)
      BY <2>2, <2>3, FS_Subset
    <3> QED
      BY <3>1, FS_CardinalityType
  <2>5. /\ PlaceOf(a, v) \in Int /\ PlaceOf(b, v) \in Int
        /\ PlaceOf(a, v) <= PlaceOf(b, v)
    BY <1>7, <1>8
  <2> HIDE DEF G
  <2>6. Cardinality(G) <= PlaceOf(b, v)
    BY <2>1, <2>2, <2>4, <2>5
  <2>7. x \in NotesIn(w)
    BY <1>1, <2>1
  <2> QED
    BY <2>1, <2>6, <2>7 DEF G
<1> QED
  BY <1>4, <1>8 DEF Remembered, b

LEMMA AllocatorOfPart == PartSpec => []AllocatorOK
<1>1. PartInit => AllocatorInit
  BY DEF PartInit
<1>2. [PartNext]_<<keys, alloc>> => [AllocatorNext]_alloc
  BY DEF PartNext, PressKey, ReleaseKey, AllNotesOff, AllSoundOff, AllocatorNext
<1> QED
  BY <1>1, <1>2, AllocatorInductive, PTL DEF PartSpec, AllocatorSpec

\* The keys are a list, and it remembers the notes of the voices.
KeysRemembered ==
  \E L : IsList(keys, L) /\ Remembered(alloc, StackOf(keys, L))

LEMMA RememberedInductive == PartSpec => []KeysRemembered
<1>0. ASSUME NEW a, IsPool(a), a.pool = [v \in VoicesOf(a) |-> Off(0)], NEW s
      PROVE  Remembered(a, s)
  <2>1. \A v \in VoicesOf(a) : a.pool[v].active = FALSE
    BY <1>0 DEF Off
  <2> QED
    BY <2>1 DEF Remembered
<1>1. PartInit => KeysRemembered
  <2> SUFFICES ASSUME PartInit PROVE KeysRemembered
    OBVIOUS
  <2>1. WellFormed(alloc) /\ alloc.pool = [v \in VoicesOf(alloc) |-> Off(0)]
    BY AllocatorAssumption, NewPoolWellFormed DEF PartInit, AllocatorInit
  <2>2. IsList(keys, <<>>)
    BY FirstStack
  <2>3. Remembered(alloc, StackOf(keys, <<>>))
    BY <1>0, <2>1 DEF WellFormed
  <2> QED
    BY <2>2, <2>3 DEF KeysRemembered
<1>2. AllocatorOK /\ KeysRemembered /\ [PartNext]_<<keys, alloc>> => KeysRemembered'
  <2> SUFFICES ASSUME AllocatorOK, KeysRemembered, [PartNext]_<<keys, alloc>>
               PROVE  \E M : IsList(keys', M) /\ Remembered(alloc', StackOf(keys', M))
    BY DEF KeysRemembered, IsList, Linked, NotesDiffer, Ranked, Remembered, StackOf, NotesIn,
           Above, Sounding, PlaceOf, VoicesOf
  <2>1. PICK L : IsList(keys, L) /\ Remembered(alloc, StackOf(keys, L))
    BY DEF KeysRemembered
  <2> DEFINE s == StackOf(keys, L)
  <2>2. /\ WellFormed(alloc) /\ IsPool(alloc) /\ alloc.size = Size /\ alloc.cyclic = NonCyclic
        /\ KeyCapacity \in Nat /\ KeyCapacity > 0 /\ Size + Size - 1 <= KeyCapacity
    <3>1. Size + Size = 2 * Size /\ Size \in Nat
      BY AllocatorAssumption
    <3>2. KeyCapacity \in Nat /\ KeyCapacity > 0 /\ Size + Size - 1 <= KeyCapacity
      BY <3>1, KeysAndVoicesAssumption
    <3> QED
      BY <3>2, KeysAndVoicesAssumption DEF AllocatorOK, WellFormed
  <2>3. s \in Seq(Keystrokes) /\ Distinct(s) /\ Len(s) <= KeyCapacity
    <3>1. /\ s \in Seq(Keystrokes) /\ Len(s) = keys.size
          /\ \A i, j \in 1..keys.size : s[i].note = s[j].note => i = j
      BY <2>1, StackIsRead
    <3>2. keys.size <= KeyCapacity
      BY <2>1, <2>2 DEF IsList
    <3> HIDE DEF s
    <3> QED
      BY <3>1, <3>2 DEF Distinct
  <2> HIDE DEF s
  <2>4. Remembered(alloc, s)
    BY <2>1 DEF s
  <2>5. ASSUME NEW n \in Notes, NEW v \in Velocities, PressKey(n, v)
        PROVE  \E M : IsList(keys', M) /\ Remembered(alloc', StackOf(keys', M))
    <3> DEFINE e == [note |-> n, velocity |-> v]
               p == Keys!Recency!Played(s, e, KeyCapacity)
    <3>1. /\ keys' = Keys!AfterNoteOn(keys, n, v)
          /\ alloc' = IF FindActive(alloc, n) = NoVoice THEN AfterNoteOn(alloc, n) ELSE alloc
      BY <2>5 DEF PressKey, Keys!NoteOn, NoteOn
    <3>2. PICK M : IsList(keys', M) /\ StackOf(keys', M) = p
      BY <2>1, <3>1, StackSteps DEF s
    <3>3. e \in Keystrokes /\ e.note = n /\ p = Keys!Recency!Played(s, e, KeyCapacity)
      BY DEF Keystrokes
    <3> HIDE DEF e, p
    <3>4. Remembered(IF FindActive(alloc, n) = NoVoice THEN AfterNoteOn(alloc, n) ELSE alloc, p)
      BY <2>2, <2>3, <2>4, <3>3, StruckRemembered
    <3> QED
      BY <3>1, <3>2, <3>4
  <2>6. ASSUME NEW n \in Notes, ReleaseKey(n)
        PROVE  \E M : IsList(keys', M) /\ Remembered(alloc', StackOf(keys', M))
    <3> DEFINE w == Keys!Recency!Without(s, n)
    <3>1. keys' = Keys!AfterNoteOff(keys, n) /\ alloc' = AfterNoteOff(alloc, n)
      BY <2>6 DEF ReleaseKey, Keys!NoteOff, NoteOff
    <3>2. PICK M : IsList(keys', M) /\ StackOf(keys', M) = w
      BY <2>1, <3>1, StackSteps DEF s
    <3>3. Remembered(AfterNoteOff(alloc, n), w)
      BY <2>2, <2>3, <2>4, ReleasedRemembered
    <3> QED
      BY <3>1, <3>2, <3>3
  <2>7. ASSUME AllNotesOff \/ AllSoundOff
        PROVE  \E M : IsList(keys', M) /\ Remembered(alloc', StackOf(keys', M))
    <3>1. /\ keys' = Keys!AfterClear(keys)
          /\ alloc' = AfterClearNotes(alloc) \/ alloc' = AfterClear(alloc)
      BY <2>7 DEF AllNotesOff, AllSoundOff, Keys!Clear, ClearNotes, Clear
    <3>2. IsList(keys', <<>>)
      BY <2>1, <3>1, StackSteps
    <3>3. /\ IsPool(alloc') /\ VoicesOf(alloc') = VoicesOf(alloc)
          /\ alloc'.pool = [x \in VoicesOf(alloc) |-> Off(0)]
      BY <2>2, <3>1, ClearFields DEF SameKind
    <3>4. Remembered(alloc', StackOf(keys', <<>>))
      BY <1>0, <3>3
    <3> QED
      BY <3>2, <3>4
  <2>8. CASE UNCHANGED <<keys, alloc>>
    BY <2>1, <2>8
  <2> QED
    BY <2>5, <2>6, <2>7, <2>8 DEF PartNext
<1> QED
  BY <1>1, <1>2, AllocatorOfPart, PTL DEF PartSpec

\* For every number of voices and every stack with a slot more than twice the other
\* voices, whatever is played, no voice sounds a note whose key the part has forgotten:
\* the keys that are above it in the stack and lost their voices are never more than the
\* voices touched since its own.
THEOREM VoicesPlayKeys == PartSpec => []VoicesPlayRememberedKeys
<1>1. AllocatorOK /\ KeysRemembered => VoicesPlayRememberedKeys
  <2> SUFFICES ASSUME AllocatorOK, KeysRemembered, NEW n \in SoundingKeys
               PROVE  \E i \in DOMAIN Keys!AbstractStack : Keys!AbstractStack[i].note = n
    BY DEF VoicesPlayRememberedKeys
  <2>1. PICK L : IsList(keys, L) /\ Remembered(alloc, StackOf(keys, L))
    BY DEF KeysRemembered
  <2> DEFINE s == StackOf(keys, L)
  <2>2. Keys!AbstractStack = s
    BY <2>1, StackIsList DEF Keys!AbstractStack
  <2>3. s \in Seq(Keystrokes)
    BY <2>1, StackIsRead
  <2> HIDE DEF s
  <2>4. DOMAIN s = 1..Len(s)
    BY <2>3
  <2>5. PICK v \in Voices : alloc.pool[v].active /\ n = alloc.pool[v].note
    BY DEF SoundingKeys
  <2>6. v \in VoicesOf(alloc)
    BY <2>5 DEF Voices, VoicesOf, AllocatorOK
  <2>7. n \in NotesIn(s)
    BY <2>1, <2>5, <2>6 DEF Remembered, s
  <2> QED
    BY <2>2, <2>4, <2>7 DEF NotesIn
<1> QED
  BY <1>1, AllocatorOfPart, RememberedInductive, PTL
=============================================================================
