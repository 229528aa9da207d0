------------------------ MODULE VoiceAllocatorProofs ------------------------
(***************************************************************************)
(* For every number of voices, in both modes: the LRU table of the voice   *)
(* allocator remains a permutation of the voices, and in the least-        *)
(* recently-used mode a note-off finds the voice that sounds its note, and *)
(* the voices together are a recency stack of the notes that sound.        *)
(*                                                                         *)
(* The operations are CHOOSEs over non-empty sets of small naturals, so    *)
(* the proofs start from the existence of least and greatest elements.     *)
(***************************************************************************)
EXTENDS VoiceAllocator, WellFoundedInduction, SequenceTheorems, TLAPS

-----------------------------------------------------------------------------
\* A non-empty set of naturals has a least element.
LEMMA LeastExists ==
  ASSUME NEW T \in SUBSET Nat, T # {}
  PROVE  \E x \in T : \A y \in T : x <= y
<1>1. \E x \in T : \A y \in T : ~ (<<y, x>> \in OpToRel(<, Nat))
  BY NatLessThanWellFounded, WFMin
<1>2. PICK x \in T : \A y \in T : ~ (<<y, x>> \in OpToRel(<, Nat))
  BY <1>1
<1>3. ASSUME NEW y \in T PROVE x <= y
  <2>1. ~ (<<y, x>> \in OpToRel(<, Nat))
    BY <1>2
  <2>2. ~ (y < x)
    BY <2>1 DEF OpToRel
  <2> QED
    BY <2>2
<1> QED
  BY <1>3

\* A non-empty set of naturals below a bound has a greatest element.
LEMMA GreatestExists ==
  ASSUME NEW n \in Nat, NEW T \in SUBSET (0..(n - 1)), T # {}
  PROVE  \E x \in T : \A y \in T : y <= x
<1> DEFINE Mirror == {n - y : y \in T}
<1>1. PICK m \in Mirror : \A k \in Mirror : m <= k
  <2>1. \A y \in T : n - y \in Nat
    OBVIOUS
  <2>2. Mirror \in SUBSET Nat /\ Mirror # {}
    BY <2>1
  <2> QED
    BY <2>2, LeastExists
<1>2. PICK x \in T : m = n - x
  OBVIOUS
<1>3. ASSUME NEW y \in T PROVE y <= x
  <2>1. n - x <= n - y
    BY <1>1, <1>2
  <2> QED
    BY <2>1
<1> QED
  BY <1>3

-----------------------------------------------------------------------------
\* FirstIn returns the least voice of a set of voices.
LEMMA FirstInIsLeast ==
  ASSUME NEW S \in SUBSET Nat, S # {}
  PROVE  FirstIn(S) \in S /\ \A w \in S : FirstIn(S) <= w
BY LeastExists DEF FirstIn

-----------------------------------------------------------------------------
\* An allocator of a size that fits the int8_t of Touch.
IsPool(a) == a.size \in 0..127 /\ a \in Pools(a.size)

\* Voice numbers fit int8_t.
LEMMA VoiceNumbers ==
  ASSUME NEW size \in 0..127
  PROVE  \A v \in 0..(size - 1) : v \in Nat /\ v <= 126
OBVIOUS

\* Its fields.
LEMMA PoolFields ==
  ASSUME NEW a, IsPool(a)
  PROVE  /\ a.size \in Nat /\ a.size \in 0..127
         /\ VoicesOf(a) = 0..(a.size - 1)
         /\ \A v \in VoicesOf(a) : v \in Nat /\ v <= 126
         /\ a.pool \in [VoicesOf(a) -> VoiceState]
         /\ a.lru \in [VoicesOf(a) -> VoicesOf(a)]
         /\ a.cyclic \in {NonCyclic} \cup 0..a.size
<1>1. a.size \in Nat /\ a.size \in 0..127
  BY DEF IsPool
<1>2. VoicesOf(a) = 0..(a.size - 1)
  BY DEF VoicesOf
<1>3. \A v \in VoicesOf(a) : v \in Nat /\ v <= 126
  BY <1>1, <1>2, VoiceNumbers
<1>4. /\ a.pool \in [VoicesOf(a) -> VoiceState]
      /\ a.lru \in [VoicesOf(a) -> VoicesOf(a)]
      /\ a.cyclic \in {NonCyclic} \cup 0..a.size
  BY DEF IsPool, Pools, VoicesOf
<1> QED
  BY <1>1, <1>2, <1>3, <1>4

LEMMA PoolRecord ==
  ASSUME NEW a, IsPool(a)
  PROVE  a = [size |-> a.size, pool |-> a.pool, lru |-> a.lru, cyclic |-> a.cyclic]
BY DEF IsPool, Pools

\* A record of these fields is an allocator.
LEMMA PoolOfFields ==
  ASSUME NEW size \in 0..127, NEW pool \in [0..(size - 1) -> VoiceState],
         NEW lru \in [0..(size - 1) -> 0..(size - 1)],
         NEW cyclic \in {NonCyclic} \cup 0..size
  PROVE  IsPool([size |-> size, pool |-> pool, lru |-> lru, cyclic |-> cyclic])
BY DEF IsPool, Pools

\* The two halves of LruListsEveryVoice, said of any allocator.
Permutes(a) ==
  /\ \A v \in VoicesOf(a) : \E i \in VoicesOf(a) : a.lru[i] = v
  /\ \A i, j \in VoicesOf(a) : a.lru[i] = a.lru[j] => i = j

\* Two allocators of the same size and mode.
SameKind(a, b) ==
  /\ b.size = a.size /\ VoicesOf(b) = VoicesOf(a)
  /\ b.cyclic = NonCyclic <=> a.cyclic = NonCyclic

\* A permuted table has one place for each voice.
LEMMA PlaceOfVoice ==
  ASSUME NEW a, IsPool(a), Permutes(a), NEW v \in VoicesOf(a)
  PROVE  /\ PlaceOf(a, v) \in VoicesOf(a)
         /\ a.lru[PlaceOf(a, v)] = v
BY DEF Permutes, PlaceOf

\* Touch changes the table only.
LEMMA TouchFrame ==
  ASSUME NEW a, IsPool(a), Permutes(a), NEW v \in VoicesOf(a)
  PROVE  /\ IsPool(AfterTouch(a, v))
         /\ AfterTouch(a, v).size = a.size
         /\ AfterTouch(a, v).pool = a.pool
         /\ AfterTouch(a, v).cyclic = a.cyclic
         /\ SameKind(a, AfterTouch(a, v))
<1> DEFINE moved == [i \in VoicesOf(a) |->
                       IF i = 0 THEN v
                       ELSE IF i <= PlaceOf(a, v) THEN a.lru[i - 1] ELSE a.lru[i]]
<1>1. PlaceOf(a, v) \in VoicesOf(a)
  BY PlaceOfVoice
<1>2. \A i \in VoicesOf(a) : i # 0 => i - 1 \in VoicesOf(a)
  BY PoolFields
<1>3. moved \in [VoicesOf(a) -> VoicesOf(a)]
  BY <1>2, PoolFields
<1>4. AfterTouch(a, v) = [size |-> a.size, pool |-> a.pool, lru |-> moved, cyclic |-> a.cyclic]
  BY PoolRecord DEF AfterTouch
<1> HIDE DEF moved
<1>5. IsPool(AfterTouch(a, v))
  <2>1. a.size \in 0..127 /\ VoicesOf(a) = 0..(a.size - 1)
        /\ a.cyclic \in {NonCyclic} \cup 0..a.size /\ a.pool \in [VoicesOf(a) -> VoiceState]
    BY PoolFields
  <2> QED
    BY <1>3, <1>4, <2>1, PoolOfFields
<1> QED
  BY <1>4, <1>5 DEF SameKind, VoicesOf

\* Touch permutes the table.
LEMMA TouchPermutes ==
  ASSUME NEW a, IsPool(a), Permutes(a), NEW v \in VoicesOf(a)
  PROVE  Permutes(AfterTouch(a, v))
<1> DEFINE place == PlaceOf(a, v)
           b == AfterTouch(a, v)
           V == VoicesOf(a)
<1>1. place \in V /\ a.lru[place] = v
  BY PlaceOfVoice
<1>2. a.size \in Nat /\ V = 0..(a.size - 1) /\ VoicesOf(b) = V
  BY PoolFields, TouchFrame DEF SameKind
<1>4. \A i \in V : b.lru[i] = IF i = 0 THEN v
                              ELSE IF i <= place THEN a.lru[i - 1] ELSE a.lru[i]
  BY PoolFields DEF AfterTouch
<1>5. \A i, j \in V : a.lru[i] = a.lru[j] => i = j
  BY DEF Permutes
<1>6. \A w \in V : \E i \in V : a.lru[i] = w
  BY DEF Permutes
<1> HIDE DEF place, b, V
<1>7. ASSUME NEW w \in V PROVE \E i \in V : b.lru[i] = w
  <2>1. PICK i \in V : a.lru[i] = w
    BY <1>6
  <2>2. CASE w = v
    BY <1>1, <1>2, <1>4, <2>2
  <2>3. CASE w # v /\ i < place
    <3>1. i + 1 \in V /\ i + 1 # 0 /\ i + 1 <= place /\ (i + 1) - 1 = i
      BY <1>1, <1>2, <2>3
    <3>2. b.lru[i + 1] = a.lru[(i + 1) - 1]
      BY <1>4, <3>1
    <3> QED
      BY <2>1, <3>1, <3>2
  <2>4. CASE w # v /\ i > place
    <3>1. i # 0 /\ ~ (i <= place)
      BY <1>1, <1>2, <2>4
    <3> QED
      BY <1>4, <2>1, <3>1
  <2>5. i = place => w = v
    BY <1>1, <2>1
  <2>6. i < place \/ i > place \/ i = place
    BY <1>1, <1>2
  <2> QED
    BY <2>2, <2>3, <2>4, <2>5, <2>6
<1>8. ASSUME NEW i \in V, NEW j \in V, b.lru[i] = b.lru[j]
      PROVE  i = j
  <2> DEFINE Source(k) == IF k = 0 THEN place ELSE IF k <= place THEN k - 1 ELSE k
  <2>1. \A k \in V : Source(k) \in V /\ b.lru[k] = a.lru[Source(k)]
    BY <1>1, <1>2, <1>4
  <2>2. Source(i) = Source(j)
    BY <1>5, <1>8, <2>1
  <2> QED
    BY <1>1, <1>2, <2>2
<1> QED
  BY <1>2, <1>7, <1>8 DEF Permutes, b

-----------------------------------------------------------------------------
\* The least recently touched voice of a set of voices is one of them.
LEMMA LeastRecentIsMember ==
  ASSUME NEW a, IsPool(a), Permutes(a), NEW S \in SUBSET VoicesOf(a), S # {}
  PROVE  LeastRecentIn(a, S) \in S
<1> DEFINE Places == {i \in VoicesOf(a) : a.lru[i] \in S}
<1>1. PICK v \in S : TRUE
  OBVIOUS
<1>2. Places # {}
  BY <1>1 DEF Permutes
<1>3. Places \in SUBSET (0..(a.size - 1)) /\ a.size \in Nat
  BY PoolFields
<1>4. PICK i \in Places : \A j \in Places : j <= i
  BY <1>2, <1>3, GreatestExists
<1>5. \E k \in VoicesOf(a) : /\ a.lru[k] \in S
                             /\ \A j \in VoicesOf(a) : a.lru[j] \in S => j <= k
  BY <1>4
<1> QED
  BY <1>5 DEF LeastRecentIn

\* The voice Find returns is the first one that remembers the note.
LEMMA FindIsFirst ==
  ASSUME NEW a, IsPool(a), NEW n
  PROVE  /\ Find(a, n) = NoVoice => \A v \in VoicesOf(a) : a.pool[v].note # n
         /\ Find(a, n) # NoVoice =>
              /\ Find(a, n) \in VoicesOf(a)
              /\ a.pool[Find(a, n)].note = n
              /\ \A v \in VoicesOf(a) : v < Find(a, n) => a.pool[v].note # n
<1> DEFINE S == {v \in VoicesOf(a) : a.pool[v].note = n}
<1>1. Find(a, n) = FirstIn(S) /\ S \in SUBSET Nat /\ \A v \in S : v \in Nat /\ v <= 126
  <2>1. S \in SUBSET Nat /\ \A v \in S : v \in Nat /\ v <= 126
    BY PoolFields
  <2> QED
    BY <2>1 DEF Find
<1>2. CASE S = {}
  BY <1>1, <1>2 DEF FirstIn
<1>3. CASE S # {}
  <2>1. PICK f \in S : f = Find(a, n) /\ \A w \in S : f <= w
    BY <1>1, <1>3, FirstInIsLeast
  <2>2. f \in Nat /\ f <= 126 /\ f \in VoicesOf(a) /\ a.pool[f].note = n
    BY <1>1
  <2>3. ASSUME NEW v \in VoicesOf(a), v < f PROVE a.pool[v].note # n
    <3>1. v \in Nat /\ ~ (f <= v)
      BY <2>2, <2>3, PoolFields
    <3> QED
      BY <2>1, <3>1
  <2>4. f # NoVoice
    BY <2>2 DEF NoVoice
  <2> QED
    BY <2>1, <2>2, <2>3, <2>4
<1> QED
  BY <1>2, <1>3

\* Likewise for FindActive.
LEMMA FindActiveIsFirst ==
  ASSUME NEW a, IsPool(a), NEW n
  PROVE  /\ FindActive(a, n) = NoVoice => \A v \in VoicesOf(a) : a.pool[v] # On(n)
         /\ FindActive(a, n) # NoVoice =>
              FindActive(a, n) \in VoicesOf(a) /\ a.pool[FindActive(a, n)] = On(n)
<1> DEFINE S == {v \in VoicesOf(a) : a.pool[v] = On(n)}
<1>1. FindActive(a, n) = FirstIn(S) /\ S \in SUBSET Nat /\ \A v \in S : v \in Nat /\ v <= 126
  <2>1. S \in SUBSET Nat /\ \A v \in S : v \in Nat /\ v <= 126
    BY PoolFields
  <2> QED
    BY <2>1 DEF FindActive
<1>2. CASE S = {}
  BY <1>1, <1>2 DEF FirstIn
<1>3. CASE S # {}
  <2>1. FindActive(a, n) \in S
    BY <1>1, <1>3, FirstInIsLeast
  <2> QED
    BY <1>1, <2>1 DEF NoVoice
<1> QED
  BY <1>2, <1>3

\* NoteOn is never at a loss: as soon as there is a voice, it picks one.
LEMMA ChosenVoiceExists ==
  ASSUME NEW a, IsPool(a), Permutes(a), a.size # 0, NEW n
  PROVE  ChosenVoice(a, n) \in VoicesOf(a)
<1>0. a.size \in Nat /\ VoicesOf(a) # {} /\ 0 \in VoicesOf(a)
  BY PoolFields
<1>1. CASE a.cyclic # NonCyclic
  <2>1. a.cyclic \in 0..a.size
    BY <1>1, PoolFields
  <2>2. a.cyclic + 1 >= a.size \/ a.cyclic + 1 \in VoicesOf(a)
    BY <1>0, <2>1, PoolFields
  <2> QED
    BY <1>0, <1>1, <2>2 DEF ChosenVoice
<1>2. CASE a.cyclic = NonCyclic /\ Find(a, n) # NoVoice
  BY <1>2, FindIsFirst DEF ChosenVoice
<1>3. CASE a.cyclic = NonCyclic /\ Find(a, n) = NoVoice
  <2>1. Idle(a) \in SUBSET VoicesOf(a)
    BY DEF Idle
  <2>2. Idle(a) # {} => LeastRecentIn(a, Idle(a)) \in VoicesOf(a)
    BY <2>1, LeastRecentIsMember
  <2>3. LeastRecentIn(a, VoicesOf(a)) \in VoicesOf(a)
    BY <1>0, LeastRecentIsMember
  <2> QED
    BY <1>3, <2>2, <2>3 DEF ChosenVoice
<1> QED
  BY <1>1, <1>2, <1>3

-----------------------------------------------------------------------------
\* OneVoicePerNote, said of any allocator.
Remembers(a) ==
  a.cyclic = NonCyclic =>
    \A v, w \in VoicesOf(a) :
      v < w /\ a.pool[v].note = a.pool[w].note => a.pool[w] = Off(0)

WellFormed(a) ==
  /\ IsPool(a)
  /\ a.cyclic \in VoicesOf(a) \cup {0, NonCyclic}
  /\ Permutes(a)
  /\ Remembers(a)

\* Where an active voice has the note, Find and FindActive agree in the least-
\* recently-used mode: the other voices that could have it are idle, after it.
LEMMA FindFindsActive ==
  ASSUME NEW a, WellFormed(a), a.cyclic = NonCyclic, NEW n \in Notes,
         NEW w \in VoicesOf(a), a.pool[w] = On(n)
  PROVE  Find(a, n) = w
<1> DEFINE v == Find(a, n)
<1>1. IsPool(a) /\ Remembers(a) /\ VoicesOf(a) \in SUBSET Int
  BY PoolFields DEF WellFormed
<1>2. a.pool[w].note = n /\ a.pool[w] # Off(0)
  BY DEF On, Off
<1>3. v \in VoicesOf(a) /\ a.pool[v].note = n /\ ~ (w < v)
  BY <1>1, <1>2, FindIsFirst
<1>4. ~ (v < w)
  BY <1>1, <1>2, <1>3 DEF Remembers
<1> HIDE DEF v
<1>5. v = w
  BY <1>1, <1>3, <1>4
<1> QED
  BY <1>5 DEF v

\* Writing the note to a voice keeps one voice per note, when the voice is the
\* one Find returns, or when Find returns none.
LEMMA WriteRemembers ==
  ASSUME NEW a, IsPool(a), Remembers(a), NEW n \in Notes, NEW c \in VoicesOf(a),
         a.cyclic = NonCyclic,
         Find(a, n) \in {c, NoVoice},
         NEW s \in VoiceState, s.note = n,
         NEW v \in VoicesOf(a), NEW w \in VoicesOf(a), v < w,
         [a.pool EXCEPT ![c] = s][v].note = [a.pool EXCEPT ![c] = s][w].note
  PROVE  [a.pool EXCEPT ![c] = s][w] = Off(0)
<1> DEFINE q == [a.pool EXCEPT ![c] = s]
           V == VoicesOf(a)
<1>1. a.pool \in [V -> VoiceState] /\ \A x \in V : x \in Nat /\ x <= 126
  BY PoolFields
<1>2. q[c] = s /\ \A x \in V : x # c => q[x] = a.pool[x]
  BY <1>1
<1>3. q[v].note = q[w].note
  OBVIOUS
<1> HIDE DEF q, V
<1>4. NoVoice \notin V
  BY <1>1 DEF NoVoice
<1>5. CASE w = c
  <2>1. v # c /\ a.pool[v].note = n
    BY <1>1, <1>2, <1>3, <1>5 DEF V
  <2>2. Find(a, n) = c
    BY <2>1, FindIsFirst
  <2> QED
    BY <1>4, <1>5, <2>1, <2>2, FindIsFirst DEF V
<1>6. CASE v = c
  <2>1. w # c /\ a.pool[w].note = n /\ q[w] = a.pool[w]
    BY <1>1, <1>2, <1>3, <1>6 DEF V
  <2>2. Find(a, n) = c /\ a.pool[c].note = n
    BY <1>4, <2>1, FindIsFirst DEF V
  <2>3. a.pool[w] = Off(0)
    BY <1>6, <2>1, <2>2 DEF Remembers
  <2> QED
    BY <2>1, <2>3 DEF q
<1>7. CASE v # c /\ w # c
  <2>1. q[v] = a.pool[v] /\ q[w] = a.pool[w]
    BY <1>2, <1>7 DEF V
  <2>2. a.pool[w] = Off(0)
    BY <1>3, <2>1 DEF Remembers
  <2> QED
    BY <2>1, <2>2 DEF q
<1> QED
  BY <1>5, <1>6, <1>7

\* An allocator after a voice is written: the write of NoteOn and of NoteOff.
Written(a, c, s, cyclic) ==
  [size |-> a.size, pool |-> [a.pool EXCEPT ![c] = s], lru |-> a.lru, cyclic |-> cyclic]

LEMMA WrittenWellFormed ==
  ASSUME NEW a, WellFormed(a), NEW c \in VoicesOf(a), NEW s \in VoiceState,
         NEW cyclic \in VoicesOf(a) \cup {0, NonCyclic},
         cyclic = NonCyclic <=> a.cyclic = NonCyclic,
         a.cyclic = NonCyclic => s.note \in Notes /\ Find(a, s.note) \in {c, NoVoice}
  PROVE  /\ WellFormed(Written(a, c, s, cyclic))
         /\ SameKind(a, Written(a, c, s, cyclic))
<1> DEFINE b == Written(a, c, s, cyclic)
           q == [a.pool EXCEPT ![c] = s]
<1>1. IsPool(a) /\ Permutes(a) /\ Remembers(a)
  BY DEF WellFormed
<1>2. q \in [VoicesOf(a) -> VoiceState]
  BY <1>1, PoolFields
<1>3. b = [size |-> a.size, pool |-> q, lru |-> a.lru, cyclic |-> cyclic]
  BY DEF Written
<1>4. cyclic \in {NonCyclic} \cup 0..a.size
  BY <1>1, PoolFields
<1> HIDE DEF b, q
<1>5. IsPool(b) /\ b.size = a.size /\ b.lru = a.lru /\ b.cyclic = cyclic /\ b.pool = q
  BY <1>1, <1>2, <1>3, <1>4, PoolFields, PoolOfFields
<1>6. SameKind(a, b)
  BY <1>5 DEF SameKind, VoicesOf
<1>7. Permutes(b)
  BY <1>1, <1>5, <1>6 DEF Permutes, SameKind
<1>8. Remembers(b)
  <2> SUFFICES ASSUME a.cyclic = NonCyclic, NEW v \in VoicesOf(a), NEW w \in VoicesOf(a),
                      v < w, q[v].note = q[w].note
               PROVE  q[w] = Off(0)
    BY <1>5, <1>6 DEF Remembers, SameKind
  <2> QED
    BY <1>1, WriteRemembers DEF q
<1>9. WellFormed(b)
  BY <1>5, <1>6, <1>7, <1>8 DEF WellFormed, SameKind
<1> QED
  BY <1>6, <1>9 DEF b

\* Each operation keeps an allocator well formed, of its size and mode; NoteOn
\* and NoteOff write one voice.
LEMMA TouchWellFormed ==
  ASSUME NEW a, WellFormed(a), NEW v \in VoicesOf(a)
  PROVE  /\ WellFormed(AfterTouch(a, v))
         /\ SameKind(a, AfterTouch(a, v))
         /\ AfterTouch(a, v).pool = a.pool
<1>1. IsPool(a) /\ Permutes(a)
  BY DEF WellFormed
<1>2. /\ IsPool(AfterTouch(a, v)) /\ SameKind(a, AfterTouch(a, v))
      /\ AfterTouch(a, v).pool = a.pool /\ AfterTouch(a, v).cyclic = a.cyclic
  BY <1>1, TouchFrame
<1>3. Permutes(AfterTouch(a, v))
  BY <1>1, TouchPermutes
<1> QED
  BY <1>2, <1>3 DEF WellFormed, Remembers, SameKind

LEMMA NoteOnWellFormed ==
  ASSUME NEW a, WellFormed(a), NEW n \in Notes
  PROVE  /\ WellFormed(AfterNoteOn(a, n))
         /\ SameKind(a, AfterNoteOn(a, n))
         /\ a.size = 0 => AfterNoteOn(a, n) = a
         /\ a.size # 0 =>
              /\ ChosenVoice(a, n) \in VoicesOf(a)
              /\ AfterNoteOn(a, n).pool = [a.pool EXCEPT ![ChosenVoice(a, n)] = On(n)]
<1> DEFINE c == ChosenVoice(a, n)
           k == IF a.cyclic = NonCyclic THEN a.cyclic ELSE c
           b == Written(a, c, On(n), k)
<1>0. IsPool(a) /\ Permutes(a)
  BY DEF WellFormed
<1>1. CASE a.size = 0
  BY <1>1 DEF AfterNoteOn, SameKind
<1>2. CASE a.size # 0
  <2>1. c \in VoicesOf(a)
    BY <1>0, <1>2, ChosenVoiceExists
  <2>2. On(n) \in VoiceState /\ On(n).note = n
    BY DEF On, VoiceState
  <2>3. NonCyclic \notin VoicesOf(a)
    BY <1>0, PoolFields DEF NonCyclic
  <2>4. a.cyclic = NonCyclic => Find(a, n) \in {c, NoVoice}
    BY DEF ChosenVoice
  <2>5. AfterNoteOn(a, n) = AfterTouch(b, c)
    BY <1>2 DEF AfterNoteOn, Written
  <2>6. b.pool = [a.pool EXCEPT ![c] = On(n)]
    BY DEF Written
  <2> HIDE DEF b, c
  <2>7. k \in VoicesOf(a) \cup {0, NonCyclic} /\ (k = NonCyclic <=> a.cyclic = NonCyclic)
    BY <2>1, <2>3
  <2>8. WellFormed(b) /\ SameKind(a, b)
    BY <2>1, <2>2, <2>4, <2>7, WrittenWellFormed DEF b
  <2>9. /\ WellFormed(AfterTouch(b, c)) /\ SameKind(b, AfterTouch(b, c))
        /\ AfterTouch(b, c).pool = b.pool
    BY <2>1, <2>8, TouchWellFormed DEF SameKind
  <2>10. SameKind(a, AfterTouch(b, c))
    BY <2>8, <2>9 DEF SameKind
  <2> QED
    BY <1>2, <2>1, <2>5, <2>6, <2>9, <2>10 DEF c
<1> QED
  BY <1>1, <1>2

LEMMA NoteOffWellFormed ==
  ASSUME NEW a, WellFormed(a), NEW n
  PROVE  /\ WellFormed(AfterNoteOff(a, n))
         /\ SameKind(a, AfterNoteOff(a, n))
         /\ Find(a, n) = NoVoice => AfterNoteOff(a, n) = a
         /\ Find(a, n) # NoVoice =>
              /\ Find(a, n) \in VoicesOf(a) /\ n \in Notes
              /\ AfterNoteOff(a, n).pool =
                   [a.pool EXCEPT ![Find(a, n)] =
                      IF a.cyclic = NonCyclic THEN Off(n) ELSE On(MaxNote)]
<1> DEFINE c == Find(a, n)
           s == IF a.cyclic = NonCyclic THEN Off(n) ELSE On(MaxNote)
           b == Written(a, c, s, a.cyclic)
<1>0. IsPool(a) /\ Permutes(a) /\ a.cyclic \in VoicesOf(a) \cup {0, NonCyclic}
  BY DEF WellFormed
<1>1. CASE c = NoVoice
  BY <1>1 DEF AfterNoteOff, SameKind
<1>2. CASE c # NoVoice
  <2>1. c \in VoicesOf(a) /\ a.pool[c].note = n
    BY <1>0, <1>2, FindIsFirst
  <2>2. n \in Notes
    BY <1>0, <2>1, PoolFields DEF VoiceState
  <2>3. s \in VoiceState /\ (a.cyclic = NonCyclic => s.note = n)
    BY <2>2, MaxNoteAssumption DEF On, Off, VoiceState, Notes
  <2>4. AfterNoteOff(a, n) = IF a.cyclic = NonCyclic THEN AfterTouch(b, c) ELSE b
    BY <1>0, <1>2, PoolRecord DEF AfterNoteOff, Written
  <2>5. b.pool = [a.pool EXCEPT ![c] = s]
    BY DEF Written
  <2> HIDE DEF b, c, s
  <2>6. WellFormed(b) /\ SameKind(a, b)
    BY <1>0, <2>1, <2>2, <2>3, WrittenWellFormed DEF b, c
  <2>7. /\ WellFormed(AfterTouch(b, c)) /\ SameKind(b, AfterTouch(b, c))
        /\ AfterTouch(b, c).pool = b.pool
    BY <2>1, <2>6, TouchWellFormed DEF SameKind
  <2>8. SameKind(a, AfterTouch(b, c))
    BY <2>6, <2>7 DEF SameKind
  <2>9. WellFormed(AfterNoteOff(a, n)) /\ SameKind(a, AfterNoteOff(a, n))
    BY <2>4, <2>6, <2>7, <2>8
  <2>10. AfterNoteOff(a, n).pool = [a.pool EXCEPT ![c] = s]
    BY <2>4, <2>5, <2>7
  <2> QED
    BY <1>2, <2>1, <2>2, <2>9, <2>10 DEF c, s
<1> QED
  BY <1>1, <1>2

\* A new allocator is well formed, and its voices are cleared.
LEMMA NewPoolWellFormed ==
  ASSUME NEW size \in 0..127, NEW cyclic \in BOOLEAN
  PROVE  LET b == NewPool(size, cyclic)
         IN  /\ WellFormed(b) /\ b.size = size
             /\ b.cyclic = NonCyclic <=> ~cyclic
             /\ b.pool = [v \in VoicesOf(b) |-> Off(0)]
<1> DEFINE V == 0..(size - 1)
           pool == [v \in V |-> Off(0)]
           lru == [i \in V |-> size - i - 1]
           k == IF cyclic THEN 0 ELSE NonCyclic
           b == NewPool(size, cyclic)
<1>1. b = [size |-> size, pool |-> pool, lru |-> lru, cyclic |-> k]
  BY DEF NewPool
<1>2. pool \in [V -> VoiceState]
  BY MaxNoteAssumption DEF Off, VoiceState, Notes
<1>3. lru \in [V -> V] /\ \A i \in V : lru[i] = size - i - 1
  OBVIOUS
<1>4. k \in {NonCyclic} \cup 0..size /\ (k = NonCyclic <=> ~cyclic) /\ k \in {0, NonCyclic}
  BY DEF NonCyclic
<1>5. \A v \in V : pool[v] = Off(0)
  OBVIOUS
<1>6. pool = [v \in V |-> Off(0)]
  OBVIOUS
<1> HIDE DEF b, pool, lru, k
<1>7. IsPool(b) /\ b.size = size /\ b.pool = pool /\ b.lru = lru /\ b.cyclic = k
  BY <1>1, <1>2, <1>3, <1>4, PoolOfFields
<1>8. VoicesOf(b) = V
  BY <1>7 DEF VoicesOf
<1>9. Permutes(b)
  <2>1. \A v \in V : size - v - 1 \in V /\ lru[size - v - 1] = v
    BY <1>3
  <2>2. \A i, j \in V : lru[i] = lru[j] => i = j
    BY <1>3
  <2> HIDE DEF V
  <2> QED
    BY <1>7, <1>8, <2>1, <2>2 DEF Permutes
<1>10. Remembers(b)
  BY <1>5, <1>7, <1>8 DEF Remembers
<1>11. WellFormed(b)
  BY <1>4, <1>7, <1>9, <1>10 DEF WellFormed
<1>12. b.pool = [v \in VoicesOf(b) |-> Off(0)]
  BY <1>6, <1>7, <1>8
<1> QED
  BY <1>4, <1>7, <1>11, <1>12 DEF b

\* The fields of a cleared allocator, whatever it was before.
LEMMA ClearFields ==
  ASSUME NEW a, IsPool(a)
  PROVE  /\ IsPool(AfterClearNotes(a)) /\ IsPool(AfterClear(a))
         /\ SameKind(a, AfterClearNotes(a)) /\ SameKind(a, AfterClear(a))
         /\ AfterClearNotes(a).lru = a.lru
         /\ AfterClear(a).lru = [i \in VoicesOf(a) |-> a.size - i - 1]
         /\ AfterClearNotes(a).cyclic = a.cyclic /\ AfterClear(a).cyclic = a.cyclic
         /\ AfterClearNotes(a).pool = [v \in VoicesOf(a) |-> Off(0)]
         /\ AfterClear(a).pool = [v \in VoicesOf(a) |-> Off(0)]
<1> DEFINE pool == [v \in VoicesOf(a) |-> Off(0)]
           lru == [i \in VoicesOf(a) |-> a.size - i - 1]
<1>1. /\ AfterClearNotes(a) = [size |-> a.size, pool |-> pool, lru |-> a.lru,
                               cyclic |-> a.cyclic]
      /\ AfterClear(a) = [size |-> a.size, pool |-> pool, lru |-> lru, cyclic |-> a.cyclic]
  <2>1. a = [size |-> a.size, pool |-> a.pool, lru |-> a.lru, cyclic |-> a.cyclic]
    BY PoolRecord
  <2> HIDE DEF pool, lru
  <2>2. \A x : [a EXCEPT !.pool = x] =
                 [size |-> a.size, pool |-> x, lru |-> a.lru, cyclic |-> a.cyclic]
    BY <2>1
  <2>3. AfterClearNotes(a) = [size |-> a.size, pool |-> pool, lru |-> a.lru,
                              cyclic |-> a.cyclic]
    BY <2>2 DEF AfterClearNotes, pool
  <2>4. AfterClear(a) = [AfterClearNotes(a) EXCEPT !.lru = lru]
    BY DEF AfterClear, lru
  <2> QED
    BY <2>3, <2>4
<1>2. pool \in [VoicesOf(a) -> VoiceState]
  BY MaxNoteAssumption DEF Off, VoiceState, Notes
<1>3. lru \in [VoicesOf(a) -> VoicesOf(a)]
  BY PoolFields
<1>4. pool = [v \in VoicesOf(a) |-> Off(0)] /\ lru = [i \in VoicesOf(a) |-> a.size - i - 1]
  OBVIOUS
<1> HIDE DEF pool, lru
<1>5. IsPool(AfterClearNotes(a)) /\ IsPool(AfterClear(a))
  BY <1>1, <1>2, <1>3, PoolFields, PoolOfFields
<1>6. SameKind(a, AfterClearNotes(a)) /\ SameKind(a, AfterClear(a))
  BY <1>1 DEF SameKind, VoicesOf
<1> QED
  BY <1>1, <1>4, <1>5, <1>6

LEMMA ClearWellFormed ==
  ASSUME NEW a, WellFormed(a)
  PROVE  WellFormed(AfterClearNotes(a)) /\ WellFormed(AfterClear(a))
<1> DEFINE b == AfterClearNotes(a)
           d == AfterClear(a)
           V == VoicesOf(a)
<1>0. IsPool(a) /\ Permutes(a) /\ a.cyclic \in V \cup {0, NonCyclic}
  BY DEF WellFormed
<1>1. VoicesOf(b) = V /\ VoicesOf(d) = V /\ IsPool(b) /\ IsPool(d)
  BY <1>0, ClearFields DEF SameKind
<1>2. /\ \A v \in V : b.pool[v] = Off(0) /\ d.pool[v] = Off(0)
      /\ b.lru = a.lru /\ \A i \in V : d.lru[i] = a.size - i - 1
      /\ b.cyclic = a.cyclic /\ d.cyclic = a.cyclic
  <2>1. /\ b.pool = [v \in V |-> Off(0)] /\ d.pool = [v \in V |-> Off(0)]
        /\ b.lru = a.lru /\ d.lru = [i \in V |-> a.size - i - 1]
        /\ b.cyclic = a.cyclic /\ d.cyclic = a.cyclic
    BY <1>0, ClearFields
  <2> HIDE DEF b, d, V
  <2> QED
    BY <2>1
<1>3. V = 0..(a.size - 1) /\ a.size \in Nat
  BY <1>0, PoolFields
<1> HIDE DEF b, d
<1>4. Remembers(b) /\ Remembers(d)
  BY <1>1, <1>2 DEF Remembers
<1>5. Permutes(b)
  BY <1>0, <1>1, <1>2 DEF Permutes
<1>6. Permutes(d)
  <2> HIDE DEF V
  <2>1. \A v \in V : a.size - v - 1 \in V /\ d.lru[a.size - v - 1] = v
    BY <1>2, <1>3
  <2>2. \A i, j \in V : d.lru[i] = d.lru[j] => i = j
    BY <1>2, <1>3
  <2> QED
    BY <1>1, <2>1, <2>2 DEF Permutes
<1> QED
  BY <1>0, <1>1, <1>2, <1>4, <1>5, <1>6 DEF WellFormed, b, d

-----------------------------------------------------------------------------
\* The order in which the voices are given, when all of them are active: how long
\* a voice waits in cyclic mode, and which voices are given before it.
Wait(a, v) == IF v > a.cyclic THEN v - a.cyclic ELSE v + a.size - a.cyclic

Sooner(a, v) ==
  IF a.cyclic = NonCyclic
  THEN {w \in VoicesOf(a) :
          \E i, j \in VoicesOf(a) : a.lru[i] = v /\ a.lru[j] = w /\ i < j}
  ELSE {w \in VoicesOf(a) : Wait(a, w) < Wait(a, v)}

\* The turns of cyclic mode: the next voice is c.
LEMMA Turns ==
  ASSUME NEW size \in Nat, NEW k \in 0..(size - 1), NEW v \in 0..(size - 1), NEW c \in Nat,
         c = IF k + 1 >= size THEN 0 ELSE k + 1
  PROVE  LET W(x, y) == IF y > x THEN y - x ELSE y + size - x
         IN  /\ W(k, c) = 1
             /\ v # c => W(k, v) > 1
             /\ W(k, v) \in Nat /\ W(k, v) <= size
             /\ W(c, v) = IF v = c THEN size ELSE W(k, v) - 1
OBVIOUS

\* A voice that is touched waits for all the others.
LEMMA TouchSooner ==
  ASSUME NEW a, IsPool(a), Permutes(a), a.cyclic = NonCyclic,
         NEW c \in VoicesOf(a), NEW v \in VoicesOf(a), v # c
  PROVE  Sooner(AfterTouch(a, c), v) \subseteq Sooner(a, v) \ {c}
<1> DEFINE place == PlaceOf(a, c)
           b == AfterTouch(a, c)
           V == VoicesOf(a)
<1>1. place \in V /\ a.lru[place] = c
  BY PlaceOfVoice
<1>2. a.size \in Nat /\ V = 0..(a.size - 1) /\ VoicesOf(b) = V /\ b.cyclic = NonCyclic
  BY PoolFields, TouchFrame DEF SameKind
<1>3. \A i \in V : b.lru[i] = IF i = 0 THEN c
                              ELSE IF i <= place THEN a.lru[i - 1] ELSE a.lru[i]
  BY PoolFields DEF AfterTouch
<1>4. \A i, j \in V : a.lru[i] = a.lru[j] => i = j
  BY DEF Permutes
<1> HIDE DEF place, b, V
<1>5. ASSUME NEW w \in V, NEW i \in V, NEW j \in V, b.lru[i] = v, b.lru[j] = w, i < j
      PROVE  w # c /\ \E x, y \in V : a.lru[x] = v /\ a.lru[y] = w /\ x < y
  <2> DEFINE Source(k) == IF k <= place THEN k - 1 ELSE k
  <2>1. i # 0 /\ j # 0
    BY <1>2, <1>3, <1>5
  <2>2. \A k \in V : k # 0 => Source(k) \in V /\ Source(k) # place
    BY <1>1, <1>2
  <2>3. Source(i) < Source(j)
    BY <1>1, <1>2, <1>5
  <2>4. \A k \in V : k # 0 => b.lru[k] = a.lru[Source(k)]
    BY <1>3
  <2> HIDE DEF Source
  <2>5. a.lru[Source(i)] = v /\ a.lru[Source(j)] = w /\ Source(i) \in V /\ Source(j) \in V
    BY <1>5, <2>1, <2>2, <2>4
  <2>6. w # c
    BY <1>1, <1>4, <2>1, <2>2, <2>5
  <2> QED
    BY <2>3, <2>5, <2>6
<1>6. Sooner(b, v) = {w \in V : \E i, j \in V : b.lru[i] = v /\ b.lru[j] = w /\ i < j}
  BY <1>2 DEF Sooner
<1>7. Sooner(a, v) = {w \in V : \E i, j \in V : a.lru[i] = v /\ a.lru[j] = w /\ i < j}
  BY DEF Sooner, V
<1> QED
  BY <1>5, <1>6, <1>7 DEF b

\* A voice is stolen when all of them are active.
LEMMA StolenWhenFull ==
  ASSUME NEW a, WellFormed(a), a.size # 0, NEW n \in Notes, FindActive(a, n) = NoVoice,
         a.cyclic = NonCyclic, a.pool[ChosenVoice(a, n)].active
  PROVE  /\ ChosenVoice(a, n) = LeastRecentIn(a, VoicesOf(a))
         /\ \A v \in VoicesOf(a) : a.pool[v].active
<1> DEFINE c == ChosenVoice(a, n)
           V == VoicesOf(a)
<1>1. /\ IsPool(a) /\ Permutes(a) /\ c \in V /\ a.pool \in [V -> VoiceState]
  BY NoteOnWellFormed, PoolFields DEF WellFormed
<1>2. Find(a, n) = NoVoice
  <2> SUFFICES ASSUME Find(a, n) # NoVoice PROVE FALSE
    OBVIOUS
  <2>1. c = Find(a, n) /\ a.pool[c].note = n
    BY <1>1, FindIsFirst DEF ChosenVoice
  <2>2. a.pool[c] = On(n)
    BY <1>1, <2>1 DEF On, VoiceState
  <2> QED
    BY <1>1, <2>2, FindActiveIsFirst
<1>3. Idle(a) = {}
  <2> SUFFICES ASSUME Idle(a) # {} PROVE FALSE
    OBVIOUS
  <2>1. c = LeastRecentIn(a, Idle(a)) /\ Idle(a) \in SUBSET V
    BY <1>2 DEF ChosenVoice, Idle
  <2>2. c \in Idle(a)
    BY <1>1, <2>1, LeastRecentIsMember
  <2> QED
    BY <2>2 DEF Idle
<1>4. c = LeastRecentIn(a, V)
  BY <1>2, <1>3 DEF ChosenVoice
<1> QED
  BY <1>3, <1>4 DEF Idle

\* The voice that is given, when it is active or the mode is cyclic, is the one that
\* has waited longest.
LEMMA ChosenIsSooner ==
  ASSUME NEW a, WellFormed(a), a.size # 0, NEW n \in Notes, FindActive(a, n) = NoVoice,
         NEW v \in VoicesOf(a), v # ChosenVoice(a, n),
         a.cyclic # NonCyclic \/ a.pool[ChosenVoice(a, n)].active
  PROVE  ChosenVoice(a, n) \in Sooner(a, v)
<1> DEFINE c == ChosenVoice(a, n)
           V == VoicesOf(a)
<1>0. /\ IsPool(a) /\ Permutes(a) /\ c \in V /\ a.size \in Nat /\ V = 0..(a.size - 1)
      /\ a.cyclic \in V \cup {0, NonCyclic} /\ a.pool \in [V -> VoiceState]
  BY NoteOnWellFormed, PoolFields DEF WellFormed
<1>1. CASE a.cyclic # NonCyclic
  <2>1. c = IF a.cyclic + 1 >= a.size THEN 0 ELSE a.cyclic + 1
    BY <1>1 DEF ChosenVoice
  <2>2. a.cyclic \in 0..(a.size - 1) /\ v \in 0..(a.size - 1) /\ v # c
    BY <1>0, <1>1
  <2> HIDE DEF c, V
  <2>3. Wait(a, c) = 1 /\ Wait(a, v) > 1
    <3>1. c \in Nat
      BY <1>0
    <3> QED
      BY <1>0, <2>1, <2>2, <3>1, Turns DEF Wait
  <2> QED
    BY <1>0, <1>1, <2>3 DEF Sooner, c, V
<1>2. CASE a.cyclic = NonCyclic
  <2>1. c = LeastRecentIn(a, V)
    BY <1>2, StolenWhenFull
  <2>2. a.size - 1 \in V /\ \A i \in V : a.lru[i] \in V
    BY <1>0, PoolFields
  <2>3. c = a.lru[a.size - 1]
    <3> DEFINE Last(i) == a.lru[i] \in V /\ \A j \in V : a.lru[j] \in V => j <= i
    <3>1. Last(a.size - 1)
      BY <1>0, <2>2
    <3>2. \A i \in V : Last(i) => i = a.size - 1
      BY <1>0, <2>2
    <3>3. LeastRecentIn(a, V) = a.lru[CHOOSE i \in V : Last(i)]
      BY DEF LeastRecentIn
    <3> HIDE DEF Last, V
    <3>4. (CHOOSE i \in V : Last(i)) = a.size - 1
      BY <2>2, <3>1, <3>2
    <3> QED
      BY <2>1, <3>3, <3>4
  <2>4. PICK i \in V : a.lru[i] = v
    BY <1>0 DEF Permutes
  <2>5. i < a.size - 1
    <3>1. i # a.size - 1
      BY <2>3, <2>4
    <3>2. i \in 0..(a.size - 1)
      BY <2>4, <1>0
    <3> HIDE DEF c, V
    <3> QED
      BY <1>0, <3>1, <3>2
  <2> QED
    BY <1>0, <1>2, <2>2, <2>3, <2>4, <2>5 DEF Sooner
<1> QED
  BY <1>1, <1>2

\* A note-on to a voice, and a note-off, put no voice before another.
LEMMA NoteOnSooner ==
  ASSUME NEW a, WellFormed(a), a.size # 0, NEW n \in Notes,
         NEW v \in VoicesOf(a), v # ChosenVoice(a, n)
  PROVE  Sooner(AfterNoteOn(a, n), v) \subseteq Sooner(a, v) \ {ChosenVoice(a, n)}
<1> DEFINE c == ChosenVoice(a, n)
           V == VoicesOf(a)
           k == IF a.cyclic = NonCyclic THEN a.cyclic ELSE c
           b == Written(a, c, On(n), k)
<1>0. /\ IsPool(a) /\ Permutes(a) /\ c \in V /\ a.size \in Nat /\ V = 0..(a.size - 1)
      /\ a.cyclic \in V \cup {0, NonCyclic} /\ NonCyclic \notin V
  <2>1. IsPool(a) /\ Permutes(a) /\ a.cyclic \in V \cup {0, NonCyclic}
    BY DEF WellFormed
  <2>2. c \in V
    BY NoteOnWellFormed
  <2>3. a.size \in Nat /\ V = 0..(a.size - 1) /\ \A x \in V : x \in Nat /\ x <= 126
    BY <2>1, PoolFields
  <2>4. NonCyclic \notin V
    <3> HIDE DEF V
    <3> QED
      BY <2>3 DEF NonCyclic
  <2> HIDE DEF c, V
  <2> QED
    BY <2>1, <2>2, <2>3, <2>4
<1>1. AfterNoteOn(a, n) = AfterTouch(b, c)
  BY DEF AfterNoteOn, Written
<1>2. b.lru = a.lru /\ b.size = a.size /\ b.cyclic = k /\ VoicesOf(b) = V
  BY DEF Written, VoicesOf
<1>3. IsPool(b) /\ Permutes(b)
  <2>1. On(n) \in VoiceState /\ On(n).note = n
    BY DEF On, VoiceState
  <2>2. a.cyclic = NonCyclic => Find(a, n) \in {c, NoVoice}
    BY DEF ChosenVoice
  <2>3. k \in V \cup {0, NonCyclic} /\ (k = NonCyclic <=> a.cyclic = NonCyclic)
    BY <1>0
  <2> HIDE DEF c, k
  <2>4. WellFormed(b)
    BY <1>0, <2>1, <2>2, <2>3, WrittenWellFormed
  <2> QED
    BY <2>4 DEF WellFormed
<1>4. CASE a.cyclic = NonCyclic
  <2>1. b.cyclic = NonCyclic
    BY <1>2, <1>4
  <2>2. Sooner(b, v) = Sooner(a, v)
    BY <1>2, <1>4, <2>1 DEF Sooner
  <2> HIDE DEF b, c
  <2>3. Sooner(AfterTouch(b, c), v) \subseteq Sooner(b, v) \ {c}
    BY <1>0, <1>2, <1>3, <2>1, TouchSooner DEF c
  <2> QED
    BY <1>1, <2>2, <2>3 DEF c
<1>5. CASE a.cyclic # NonCyclic
  <2> DEFINE d == AfterTouch(b, c)
  <2>1. d.cyclic = c /\ d.size = a.size /\ VoicesOf(d) = V
    <3> HIDE DEF b, c
    <3>1. d.cyclic = b.cyclic /\ d.size = b.size /\ VoicesOf(d) = VoicesOf(b)
      BY <1>0, <1>2, <1>3, TouchFrame DEF SameKind
    <3> QED
      BY <1>2, <1>5, <3>1
  <2>2. c = IF a.cyclic + 1 >= a.size THEN 0 ELSE a.cyclic + 1
    BY <1>5 DEF ChosenVoice
  <2>0. a.cyclic \in 0..(a.size - 1) /\ v # c /\ v \in V
    BY <1>0, <1>5
  <2> HIDE DEF b, c, d, V
  <2>3. \A w \in V : Wait(d, w) = IF w = c THEN a.size ELSE Wait(a, w) - 1
    BY <1>0, <2>0, <2>1, <2>2, Turns DEF Wait
  <2>4. \A w \in V : Wait(a, w) \in Nat /\ Wait(a, w) <= a.size
    BY <1>0, <2>0, <2>2, Turns DEF Wait
  <2>5. \A w \in V : Wait(d, w) < Wait(d, v) => w # c /\ Wait(a, w) < Wait(a, v)
    BY <1>0, <2>0, <2>3, <2>4
  <2>6. d.cyclic # NonCyclic
    BY <1>0, <2>1
  <2>7. Sooner(d, v) \subseteq Sooner(a, v) \ {c}
    BY <1>5, <2>1, <2>5, <2>6 DEF Sooner, V
  <2> QED
    BY <1>1, <2>7 DEF c, d
<1> QED
  BY <1>4, <1>5

LEMMA NoteOffSooner ==
  ASSUME NEW a, WellFormed(a), NEW n, Find(a, n) # NoVoice,
         NEW v \in VoicesOf(a), v # Find(a, n)
  PROVE  Sooner(AfterNoteOff(a, n), v) \subseteq Sooner(a, v)
<1> DEFINE c == Find(a, n)
           s == IF a.cyclic = NonCyclic THEN Off(n) ELSE On(MaxNote)
           b == Written(a, c, s, a.cyclic)
<1>0. /\ IsPool(a) /\ Permutes(a) /\ a.cyclic \in VoicesOf(a) \cup {0, NonCyclic}
      /\ c \in VoicesOf(a) /\ a.pool[c].note = n
  BY FindIsFirst DEF WellFormed
<1>1. n \in Notes
  BY <1>0, PoolFields DEF VoiceState
<1>2. s \in VoiceState /\ (a.cyclic = NonCyclic => s.note = n)
  BY <1>1, MaxNoteAssumption DEF On, Off, VoiceState, Notes
<1>3. AfterNoteOff(a, n) = IF a.cyclic = NonCyclic THEN AfterTouch(b, c) ELSE b
  BY <1>0, PoolRecord DEF AfterNoteOff, Written
<1>4. b.lru = a.lru /\ b.size = a.size /\ b.cyclic = a.cyclic /\ VoicesOf(b) = VoicesOf(a)
  BY DEF Written, VoicesOf
<1>5. Sooner(b, v) = Sooner(a, v)
  <2> HIDE DEF b
  <2> QED
    BY <1>4 DEF Sooner, Wait
<1> HIDE DEF b, c, s
<1>6. WellFormed(b)
  BY <1>0, <1>1, <1>2, WrittenWellFormed DEF b, c
<1>7. CASE a.cyclic = NonCyclic
  <2>1. Sooner(AfterTouch(b, c), v) \subseteq Sooner(b, v) \ {c}
    BY <1>0, <1>4, <1>6, <1>7, TouchSooner DEF WellFormed, c
  <2> QED
    BY <1>3, <1>5, <1>7, <2>1
<1> QED
  BY <1>3, <1>5, <1>7

-----------------------------------------------------------------------------
\* The allocator of the state machine: well formed, of the size and the mode it
\* was made with.
AllocatorOK ==
  /\ WellFormed(alloc)
  /\ alloc.size = Size
  /\ alloc.cyclic = NonCyclic <=> ~Cyclic

LEMMA AllocatorInvariants ==
  AllocatorOK => TypeOK /\ LruListsEveryVoice /\ OneVoicePerNote
<1> SUFFICES ASSUME AllocatorOK PROVE TypeOK /\ LruListsEveryVoice /\ OneVoicePerNote
  OBVIOUS
<1>1. VoicesOf(alloc) = Voices /\ IsPool(alloc)
  BY PoolFields DEF AllocatorOK, WellFormed, Voices
<1> QED
  BY <1>1 DEF AllocatorOK, WellFormed, IsPool, Permutes, Remembers, TypeOK,
              LruListsEveryVoice, OneVoicePerNote

LEMMA AllocatorInductive == AllocatorSpec => []AllocatorOK
<1>1. AllocatorInit => AllocatorOK
  <2> DEFINE b == NewPool(Size, Cyclic)
  <2>1. WellFormed(b) /\ b.size = Size /\ (b.cyclic = NonCyclic <=> ~Cyclic)
    BY AllocatorAssumption, NewPoolWellFormed
  <2> QED
    BY <2>1 DEF AllocatorInit, AllocatorOK
<1>2. AllocatorOK /\ [AllocatorNext]_alloc => AllocatorOK'
  <2> SUFFICES ASSUME AllocatorOK, [AllocatorNext]_alloc
               PROVE  WellFormed(alloc') /\ SameKind(alloc, alloc')
    BY DEF AllocatorOK, SameKind, WellFormed, IsPool, Permutes, Remembers, VoicesOf
  <2>0. WellFormed(alloc) /\ IsPool(alloc)
    BY DEF AllocatorOK, WellFormed
  <2>1. ASSUME NEW n \in Notes, NoteOn(n) PROVE WellFormed(alloc') /\ SameKind(alloc, alloc')
    BY <2>0, <2>1, NoteOnWellFormed DEF NoteOn
  <2>2. ASSUME NEW n \in Notes, NoteOff(n) PROVE WellFormed(alloc') /\ SameKind(alloc, alloc')
    BY <2>0, <2>2, NoteOffWellFormed DEF NoteOff
  <2>3. CASE ClearNotes
    BY <2>0, <2>3, ClearWellFormed, ClearFields DEF ClearNotes
  <2>4. CASE Clear
    BY <2>0, <2>4, ClearWellFormed, ClearFields DEF Clear
  <2>5. CASE UNCHANGED alloc
    BY <2>0, <2>5 DEF SameKind
  <2> QED
    BY <2>1, <2>2, <2>3, <2>4, <2>5 DEF AllocatorNext
<1> QED
  BY <1>1, <1>2, PTL DEF AllocatorSpec

\* The allocator's arrays stay within their size in every reachable state.
THEOREM AllocatorTypeCorrect == AllocatorSpec => []TypeOK
BY AllocatorInductive, AllocatorInvariants, PTL

\* For every number of voices, the LRU table lists each voice exactly once
\* after any sequence of note-ons, note-offs and clears.
THEOREM LruStaysPermutation == AllocatorSpec => []LruListsEveryVoice
BY AllocatorInductive, AllocatorInvariants, PTL

\* For every number of voices, the least-recently-used mode remembers a note
\* on one voice.
THEOREM EachNoteOnOneVoice == AllocatorSpec => []OneVoicePerNote
BY AllocatorInductive, AllocatorInvariants, PTL

\* For every number of voices, a note-off in the least-recently-used mode
\* finds the voice that sounds the note.
THEOREM NoteOffReleasesItsNote == AllocatorSpec => []NoteOffFindsSoundingVoice
<1>1. AllocatorOK => NoteOffFindsSoundingVoice
  BY FindActiveIsFirst, FindFindsActive
     DEF AllocatorOK, WellFormed, NoteOffFindsSoundingVoice
<1> QED
  BY <1>1, AllocatorInductive, PTL

-----------------------------------------------------------------------------
\* What holds of 0, and of a number when it holds of the one before, holds up to n.
LEMMA UpTo ==
  ASSUME NEW n \in Nat, NEW S, 0 \in S, \A i \in 1..n : i - 1 \in S => i \in S
  PROVE  n \in S /\ \A i \in 0..n : i \in S
<1> DEFINE T == (0..n) \ S
<1>0. n \in 0..n
  OBVIOUS
<1> SUFFICES ASSUME T # {} PROVE FALSE
  BY <1>0
<1>1. T \in SUBSET Nat
  OBVIOUS
<1>2. PICK m \in T : \A k \in T : m <= k
  BY <1>1, LeastExists
<1>3. m \in 1..n /\ m - 1 \in 0..n /\ ~ (m <= m - 1)
  <2>1. m \in 0..n /\ m # 0
    OBVIOUS
  <2> QED
    BY <2>1
<1>4. m - 1 \in S
  BY <1>2, <1>3
<1> QED
  BY <1>3, <1>4

\* The recursive function of ActiveUpTo exists.
LEMMA ActiveSteps ==
  ASSUME NEW t \in Seq(VoiceState)
  PROVE  LET f == ActiveUpTo(t)
         IN  /\ f[0] = <<>>
             /\ \A i \in 1..Len(t) :
                  f[i] = IF t[i].active THEN Append(f[i - 1], t[i]) ELSE f[i - 1]
<1> DEFINE L == Len(t)
           All == Seq(VoiceState)
           Step(f, i) == IF i = 0 THEN <<>>
                         ELSE IF t[i].active THEN Append(f[i - 1], t[i]) ELSE f[i - 1]
           Run(f, n) == f \in [0..n -> All] /\ \A i \in 0..n : f[i] = Step(f, i)
           Reached == {n \in 0..L : \E f : Run(f, n)}
<1>1. L \in Nat /\ <<>> \in All /\ \A i \in 1..L : t[i] \in VoiceState
  OBVIOUS
<1>2. \A s \in All, i \in 1..L : Append(s, t[i]) \in All
  BY <1>1
<1> HIDE DEF L, All
<1>3. 0 \in Reached
  <2>1. Run([i \in 0..0 |-> <<>>], 0)
    BY <1>1
  <2>2. 0 \in 0..L
    BY <1>1
  <2> QED
    BY <2>1, <2>2
<1>4. ASSUME NEW m \in 1..L, m - 1 \in Reached PROVE m \in Reached
  <2>1. PICK f : Run(f, m - 1)
    BY <1>4
  <2> DEFINE last == Step(f, m)
             g == [i \in 0..m |-> IF i = m THEN last ELSE f[i]]
  <2>2. m \in Nat /\ m # 0 /\ m \in 0..L /\ m - 1 \in 0..(m - 1)
    BY <1>1
  <2>3. last \in All
    BY <1>2, <2>1, <2>2
  <2>4. g \in [0..m -> All]
    BY <2>1, <2>2, <2>3
  <2>5. ASSUME NEW i \in 0..m PROVE g[i] = Step(g, i)
    <3>1. CASE i = m
      <4>1. g[i] = last /\ g[i - 1] = f[i - 1]
        BY <2>2, <3>1
      <4> HIDE DEF g
      <4> QED
        BY <2>2, <3>1, <4>1
    <3>2. CASE i # m
      <4>1. i \in 0..(m - 1) /\ g[i] = f[i] /\ (i # 0 => g[i - 1] = f[i - 1])
        BY <2>2, <3>2
      <4>2. f[i] = Step(f, i)
        BY <2>1, <4>1
      <4> HIDE DEF g
      <4> QED
        BY <4>1, <4>2
    <3> QED
      BY <3>1, <3>2
  <2>6. Run(g, m)
    BY <2>4, <2>5
  <2> QED
    BY <2>2, <2>6
<1>5. PICK f : Run(f, L)
  <2> HIDE DEF Reached
  <2>1. L \in Reached
    BY <1>1, <1>3, <1>4, UpTo
  <2> QED
    BY <2>1 DEF Reached
<1> DEFINE Loop(first) == first = [i \in 0..L |-> Step(first, i)]
<1>6. Loop(f)
  BY <1>5
<1> DEFINE first == CHOOSE h : Loop(h)
<1>7. Loop(first)
  BY <1>6
<1>8. ActiveUpTo(t) = first
  BY DEF ActiveUpTo, L
<1> HIDE DEF first
<1>9. \A i \in 0..L : first[i] = Step(first, i)
  BY <1>7
<1> QED
  BY <1>1, <1>8, <1>9 DEF L

\* Its values: sequences of active entries, all of them where all are active.
Actives(t) == {t[j] : j \in {k \in 1..Len(t) : t[k].active}}

LEMMA ActivePrefixes ==
  ASSUME NEW t \in Seq(VoiceState), NEW i \in 0..Len(t)
  PROVE  /\ ActiveUpTo(t)[i] \in Seq(Actives(t)) /\ Len(ActiveUpTo(t)[i]) <= i
         /\ (\A k \in 1..Len(t) : t[k].active) => ActiveUpTo(t)[i] = SubSeq(t, 1, i)
<1> DEFINE f == ActiveUpTo(t)
           A == Actives(t)
           S == {k \in 0..Len(t) : f[k] \in Seq(A) /\ Len(f[k]) <= k}
           Whole == {k \in 0..Len(t) : f[k] = SubSeq(t, 1, k)}
<1>1. /\ Len(t) \in Nat /\ f[0] = <<>>
      /\ \A k \in 1..Len(t) : f[k] = IF t[k].active THEN Append(f[k - 1], t[k]) ELSE f[k - 1]
  BY ActiveSteps
<1>2. \A k \in 1..Len(t) : t[k].active => t[k] \in A
  BY DEF Actives
<1> HIDE DEF f, A
<1>3. 0 \in S
  <2>1. 0 \in 0..Len(t) /\ <<>> \in Seq(A) /\ Len(<<>>) <= 0
    BY <1>1
  <2> QED
    BY <1>1, <2>1
<1>4. ASSUME NEW k \in 1..Len(t), k - 1 \in S PROVE k \in S
  <2>1. f[k - 1] \in Seq(A) /\ Len(f[k - 1]) <= k - 1
    BY <1>4
  <2>2. f[k] = IF t[k].active THEN Append(f[k - 1], t[k]) ELSE f[k - 1]
    BY <1>1
  <2>3. CASE t[k].active
    <3>1. t[k] \in A /\ f[k] = Append(f[k - 1], t[k])
      BY <1>2, <2>2, <2>3
    <3>2. f[k] \in Seq(A) /\ Len(f[k]) = Len(f[k - 1]) + 1 /\ Len(f[k - 1]) \in Nat
      BY <2>1, <3>1, AppendProperties
    <3> QED
      BY <1>1, <2>1, <3>2
  <2>4. CASE ~t[k].active
    BY <2>1, <2>2, <2>4
  <2> QED
    BY <2>3, <2>4
<1>5. i \in S
  <2> HIDE DEF S
  <2> QED
    BY <1>1, <1>3, <1>4, UpTo
<1>6. ASSUME \A k \in 1..Len(t) : t[k].active PROVE i \in Whole
  <2>1. 0 \in Whole
    <3>1. 0 \in 0..Len(t) /\ SubSeq(t, 1, 0) = <<>>
      BY <1>1, SubSeqEmpty
    <3> QED
      BY <1>1, <3>1
  <2>2. ASSUME NEW k \in 1..Len(t), k - 1 \in Whole PROVE k \in Whole
    <3>1. f[k] = Append(SubSeq(t, 1, k - 1), t[k])
      BY <1>1, <1>6, <2>2
    <3>2. Append(SubSeq(t, 1, k - 1), t[k]) = SubSeq(t, 1, k)
      OBVIOUS
    <3> QED
      BY <3>1, <3>2
  <2> HIDE DEF Whole
  <2> QED
    BY <1>1, <2>1, <2>2, UpTo
<1> QED
  BY <1>5, <1>6 DEF f, A

LEMMA ActiveSequence ==
  ASSUME NEW t \in Seq(VoiceState)
  PROVE  /\ ActiveIn(t) \in Seq(Actives(t)) /\ ActiveIn(t) \in Seq(VoiceState)
         /\ Len(ActiveIn(t)) <= Len(t)
         /\ (\A k \in 1..Len(t) : t[k].active) => ActiveIn(t) = t
         /\ (\A k \in 1..Len(t) : ~t[k].active) => ActiveIn(t) = <<>>
<1>1. Len(t) \in 0..Len(t) /\ SubSeq(t, 1, Len(t)) = t
  OBVIOUS
<1>2. /\ ActiveIn(t) \in Seq(Actives(t)) /\ Len(ActiveIn(t)) <= Len(t)
      /\ (\A k \in 1..Len(t) : t[k].active) => ActiveIn(t) = t
  BY <1>1, ActivePrefixes DEF ActiveIn
<1>3. Actives(t) \subseteq VoiceState
  BY DEF Actives
<1>4. (\A k \in 1..Len(t) : ~t[k].active) => Actives(t) = {}
  BY DEF Actives
<1>5. \A s \in Seq({}) : s = <<>>
  OBVIOUS
<1> QED
  BY <1>2, <1>3, <1>4, <1>5

LEMMA ActiveOne ==
  ASSUME NEW x \in VoiceState
  PROVE  ActiveIn(<<x>>) = IF x.active THEN <<x>> ELSE <<>>
<1> DEFINE t == <<x>>
<1>1. t \in Seq(VoiceState) /\ Len(t) = 1 /\ t[1] = x
  OBVIOUS
<1> HIDE DEF t
<1>2. x.active => \A k \in 1..Len(t) : t[k].active
  BY <1>1
<1>3. ~x.active => \A k \in 1..Len(t) : ~t[k].active
  BY <1>1
<1>4. ActiveIn(t) = IF x.active THEN t ELSE <<>>
  BY <1>1, <1>2, <1>3, ActiveSequence
<1> QED
  BY <1>4 DEF t

LEMMA AppendAfter ==
  ASSUME NEW s \in Seq(VoiceState), NEW t \in Seq(VoiceState), NEW x \in VoiceState
  PROVE  Append(s \o t, x) = s \o Append(t, x)
OBVIOUS

LEMMA ActiveConcat ==
  ASSUME NEW t \in Seq(VoiceState), NEW u \in Seq(VoiceState)
  PROVE  ActiveIn(t \o u) = ActiveIn(t) \o ActiveIn(u)
<1> DEFINE w == t \o u
           f == ActiveUpTo(t)
           g == ActiveUpTo(u)
           h == ActiveUpTo(w)
           m == Len(t)
           n == Len(u)
           Same == {k \in 0..m : h[k] = f[k]}
           Ahead == {k \in 0..n : h[m + k] = f[m] \o g[k]}
<1>1. /\ w \in Seq(VoiceState) /\ m \in Nat /\ n \in Nat /\ Len(w) = m + n
      /\ \A k \in 1..m : w[k] = t[k]
      /\ \A k \in 1..n : w[m + k] = u[k]
  OBVIOUS
<1> HIDE DEF w, m, n
<1>2. /\ f[0] = <<>> /\ \A k \in 1..m :
           f[k] = IF t[k].active THEN Append(f[k - 1], t[k]) ELSE f[k - 1]
      /\ g[0] = <<>> /\ \A k \in 1..n :
           g[k] = IF u[k].active THEN Append(g[k - 1], u[k]) ELSE g[k - 1]
      /\ h[0] = <<>> /\ \A k \in 1..(m + n) :
           h[k] = IF w[k].active THEN Append(h[k - 1], w[k]) ELSE h[k - 1]
  BY <1>1, ActiveSteps DEF m, n
<1>3. f[m] \in Seq(VoiceState) /\ \A k \in 0..n : g[k] \in Seq(VoiceState)
  <2>1. m \in 0..m
    BY <1>1
  <2>2. f[m] \in Seq(Actives(t)) /\ \A k \in 0..n : g[k] \in Seq(Actives(u))
    BY <2>1, ActivePrefixes DEF m, n
  <2>3. Actives(t) \subseteq VoiceState /\ Actives(u) \subseteq VoiceState
    BY DEF Actives
  <2> QED
    BY <2>2, <2>3
<1> HIDE DEF f, g, h
<1>4. h[m] = f[m]
  <2>1. 0 \in Same
    BY <1>1, <1>2
  <2>2. ASSUME NEW k \in 1..m, k - 1 \in Same PROVE k \in Same
    <3>1. k \in 1..(m + n) /\ k \in 0..m
      BY <1>1
    <3> QED
      BY <1>1, <1>2, <2>2, <3>1
  <2> HIDE DEF Same
  <2>3. m \in Same
    BY <1>1, <2>1, <2>2, UpTo
  <2> QED
    BY <2>3 DEF Same
<1>5. h[m + n] = f[m] \o g[n]
  <2>1. 0 \in Ahead
    <3>1. 0 \in 0..n /\ m + 0 = m /\ f[m] \o <<>> = f[m]
      BY <1>1, <1>3, ConcatEmptySeq
    <3> QED
      BY <1>2, <1>4, <3>1
  <2>2. ASSUME NEW k \in 1..n, k - 1 \in Ahead PROVE k \in Ahead
    <3>1. k \in 0..n /\ k - 1 \in 0..n /\ m + k \in 1..(m + n) /\ (m + k) - 1 = m + (k - 1)
      BY <1>1
    <3>2. h[m + (k - 1)] = f[m] \o g[k - 1]
      BY <2>2
    <3>3. h[m + k] = IF u[k].active THEN Append(h[m + (k - 1)], u[k]) ELSE h[m + (k - 1)]
      BY <1>1, <1>2, <3>1
    <3>4. g[k] = IF u[k].active THEN Append(g[k - 1], u[k]) ELSE g[k - 1]
      BY <1>2
    <3>5. u[k] \in VoiceState /\ g[k - 1] \in Seq(VoiceState)
      BY <1>3, <3>1 DEF n
    <3>6. CASE u[k].active
      <4>1. h[m + k] = Append(h[m + (k - 1)], u[k]) /\ g[k] = Append(g[k - 1], u[k])
        BY <3>3, <3>4, <3>6
      <4>2. Append(f[m] \o g[k - 1], u[k]) = f[m] \o Append(g[k - 1], u[k])
        BY <1>3, <3>5, AppendAfter, Zenon
      <4> QED
        BY <3>1, <3>2, <4>1, <4>2
    <3>7. CASE ~u[k].active
      BY <3>1, <3>2, <3>3, <3>4, <3>7
    <3> QED
      BY <3>6, <3>7
  <2> HIDE DEF Ahead
  <2>3. n \in Ahead
    BY <1>1, <2>1, <2>2, UpTo
  <2> QED
    BY <2>3 DEF Ahead
<1> QED
  BY <1>1, <1>4, <1>5 DEF ActiveIn, f, g, h, m, n, w

-----------------------------------------------------------------------------
Joined(p, q, r) == (p \o q) \o r

\* A sequence around one of its places.
LEMMA AroundPlace ==
  ASSUME NEW t \in Seq(VoiceState), NEW k \in 1..Len(t)
  PROVE  LET p == SubSeq(t, 1, k - 1)
             q == SubSeq(t, k + 1, Len(t))
         IN  /\ p \in Seq(VoiceState) /\ Len(p) = k - 1 /\ \A i \in 1..(k - 1) : p[i] = t[i]
             /\ q \in Seq(VoiceState) /\ Len(q) = Len(t) - k
             /\ \A i \in 1..(Len(t) - k) : q[i] = t[k + i]
             /\ t = Joined(p, <<t[k]>>, q)
<1> DEFINE p == SubSeq(t, 1, k - 1)
           q == SubSeq(t, k + 1, Len(t))
           e == <<t[k]>>
<1>1. p \in Seq(VoiceState) /\ Len(p) = k - 1 /\ \A i \in 1..(k - 1) : p[i] = t[i]
  OBVIOUS
<1>2. /\ q \in Seq(VoiceState) /\ Len(q) = Len(t) - k
      /\ \A i \in 1..(Len(t) - k) : q[i] = t[k + i]
  OBVIOUS
<1>3. e \in Seq(VoiceState) /\ Len(e) = 1 /\ e[1] = t[k]
  OBVIOUS
<1> HIDE DEF p, q, e
<1>4. /\ (p \o e) \o q \in Seq(VoiceState) /\ Len((p \o e) \o q) = Len(t)
      /\ \A i \in 1..Len(t) : ((p \o e) \o q)[i] = t[i]
  <2> DEFINE r == p \o e
             w == r \o q
  <2>1. r = p \o e /\ w = r \o q
    OBVIOUS
  <2> HIDE DEF r, w
  <2>2. /\ r \in Seq(VoiceState) /\ Len(r) = Len(p) + Len(e)
        /\ \A i \in 1..Len(p) : r[i] = p[i]
        /\ \A i \in 1..Len(e) : r[Len(p) + i] = e[i]
    <3>1. p \in Seq(VoiceState) /\ e \in Seq(VoiceState) /\ r = p \o e
      BY <1>1, <1>3, <2>1
    <3> QED
      BY ONLY <3>1
  <2>3. Len(r) = k /\ \A i \in 1..k : r[i] = t[i]
    <3>1. Len(r) = k /\ 1 \in 1..Len(e) /\ Len(p) + 1 = k
      BY <1>1, <1>3, <2>2
    <3>2. r[k] = t[k]
      BY <1>3, <2>2, <3>1
    <3>3. \A i \in 1..k : i = k \/ i \in 1..(k - 1)
      OBVIOUS
    <3> QED
      BY <1>1, <2>2, <3>1, <3>2, <3>3
  <2>4. /\ w \in Seq(VoiceState) /\ Len(w) = Len(r) + Len(q)
        /\ \A i \in 1..Len(r) : w[i] = r[i]
        /\ \A i \in 1..Len(q) : w[Len(r) + i] = q[i]
    <3>1. r \in Seq(VoiceState) /\ q \in Seq(VoiceState) /\ w = r \o q
      BY <1>2, <2>1, <2>2
    <3> QED
      BY ONLY <3>1
  <2>5. \A i \in 1..Len(t) : i \in 1..k \/ (i - k \in 1..(Len(t) - k) /\ k + (i - k) = i)
    OBVIOUS
  <2>6. Len(w) = Len(t)
    BY <1>2, <2>3, <2>4
  <2>7. ASSUME NEW i \in 1..Len(t) PROVE w[i] = t[i]
    <3>1. CASE i \in 1..k
      BY <2>3, <2>4, <3>1
    <3>2. ASSUME NEW j \in 1..(Len(t) - k), k + j = i PROVE w[i] = t[i]
      BY <1>2, <2>3, <2>4, <3>2
    <3> QED
      BY <2>5, <3>1, <3>2
  <2>8. w \in Seq(VoiceState)
    BY <2>4
  <2> QED
    BY <2>6, <2>7, <2>8, Zenon DEF r, w
<1>5. t = (p \o e) \o q
  BY <1>4, SeqEqual
<1> QED
  BY <1>1, <1>2, <1>5 DEF p, q, e, Joined

LEMMA TableSequence ==
  ASSUME NEW a, IsPool(a)
  PROVE  /\ TableOf(a) \in Seq(VoiceState) /\ Len(TableOf(a)) = a.size
         /\ \A i \in 1..a.size : i - 1 \in VoicesOf(a) /\ a.lru[i - 1] \in VoicesOf(a)
                                 /\ TableOf(a)[i] = a.pool[a.lru[i - 1]]
<1>1. /\ a.size \in Nat /\ VoicesOf(a) = 0..(a.size - 1)
      /\ a.pool \in [VoicesOf(a) -> VoiceState] /\ a.lru \in [VoicesOf(a) -> VoicesOf(a)]
  BY PoolFields
<1>2. \A i \in 1..a.size : i - 1 \in VoicesOf(a) /\ a.lru[i - 1] \in VoicesOf(a)
  BY <1>1
<1>3. \A i \in 1..a.size : a.pool[a.lru[i - 1]] \in VoiceState
  BY <1>1, <1>2
<1> DEFINE f == TableOf(a)
<1>4. f \in [1..a.size -> VoiceState] /\ \A i \in 1..a.size : f[i] = a.pool[a.lru[i - 1]]
  BY <1>3 DEF TableOf
<1> HIDE DEF f
<1>5. f \in Seq(VoiceState) /\ Len(f) = a.size
  BY <1>1, <1>4
<1> QED
  BY <1>2, <1>4, <1>5 DEF f

\* A voice that is written and touched goes to the front, and the others keep their order.
LEMMA TouchedTable ==
  ASSUME NEW a, WellFormed(a), NEW c \in VoicesOf(a), NEW s \in VoiceState, NEW cyclic,
         NEW b, b = AfterTouch(Written(a, c, s, cyclic), c),
         NEW k, k = PlaceOf(a, c) + 1, NEW t, t = TableOf(a)
  PROVE  /\ k \in 1..a.size /\ t[k] = a.pool[c]
         /\ \A i \in (1..a.size) \ {k} : a.lru[i - 1] \in VoicesOf(a) \ {c}
         /\ TableOf(b) = Joined(<<s>>, SubSeq(t, 1, k - 1), SubSeq(t, k + 1, Len(t)))
<1> DEFINE V == VoicesOf(a)
           p == SubSeq(t, 1, k - 1)
           q == SubSeq(t, k + 1, Len(t))
           u == (<<s>> \o p) \o q
<1>1. /\ IsPool(a) /\ Permutes(a) /\ a.size \in Nat /\ V = 0..(a.size - 1)
      /\ a.pool \in [V -> VoiceState] /\ a.lru \in [V -> V]
  BY PoolFields DEF WellFormed
<1>2. /\ t \in Seq(VoiceState) /\ Len(t) = a.size
      /\ \A i \in 1..a.size : i - 1 \in V /\ a.lru[i - 1] \in V /\ t[i] = a.pool[a.lru[i - 1]]
  BY <1>1, TableSequence
<1>3. PlaceOf(a, c) \in V /\ a.lru[PlaceOf(a, c)] = c
  BY <1>1, PlaceOfVoice
<1>4. k \in 1..a.size /\ k - 1 = PlaceOf(a, c) /\ t[k] = a.pool[c]
  BY <1>1, <1>2, <1>3
<1>5. \A i \in V : i # k - 1 => a.lru[i] \in V \ {c}
  BY <1>1, <1>3, <1>4 DEF Permutes
<1>6. /\ p \in Seq(VoiceState) /\ Len(p) = k - 1 /\ \A i \in 1..(k - 1) : p[i] = t[i]
      /\ q \in Seq(VoiceState) /\ Len(q) = a.size - k /\ \A i \in 1..(a.size - k) : q[i] = t[k + i]
  BY <1>2, <1>4, AroundPlace
<1>7. /\ b.size = a.size
      /\ b.pool = [a.pool EXCEPT ![c] = s]
      /\ \A i \in V : b.lru[i] = IF i = 0 THEN c ELSE IF i <= k - 1 THEN a.lru[i - 1] ELSE a.lru[i]
  BY <1>4 DEF AfterTouch, Written, PlaceOf, VoicesOf
<1> HIDE DEF p, q
<1>8. /\ u \in Seq(VoiceState) /\ Len(u) = a.size /\ u[1] = s
      /\ \A i \in 1..(k - 1) : u[i + 1] = p[i]
      /\ \A i \in 1..(a.size - k) : u[k + i] = q[i]
  <2> DEFINE e == <<s>>
             r == e \o p
  <2>1. e \in Seq(VoiceState) /\ Len(e) = 1 /\ e[1] = s /\ r = e \o p /\ u = r \o q
    OBVIOUS
  <2> HIDE DEF e, r, u
  <2>2. /\ r \in Seq(VoiceState) /\ Len(r) = Len(e) + Len(p)
        /\ \A i \in 1..Len(e) : r[i] = e[i]
        /\ \A i \in 1..Len(p) : r[Len(e) + i] = p[i]
    <3>1. e \in Seq(VoiceState) /\ p \in Seq(VoiceState) /\ r = e \o p
      BY <1>6, <2>1
    <3> QED
      BY ONLY <3>1
  <2>3. /\ Len(r) = k /\ 1 \in 1..Len(e) /\ 1 \in 1..k /\ Len(e) = 1
        /\ \A i \in 1..(k - 1) : 1 + i = i + 1 /\ i + 1 \in 1..k /\ i \in 1..Len(p)
    BY <1>1, <1>4, <1>6, <2>1, <2>2
  <2>4. /\ u \in Seq(VoiceState) /\ Len(u) = Len(r) + Len(q)
        /\ \A i \in 1..Len(r) : u[i] = r[i]
        /\ \A i \in 1..Len(q) : u[Len(r) + i] = q[i]
    <3>1. r \in Seq(VoiceState) /\ q \in Seq(VoiceState) /\ u = r \o q
      BY <1>6, <2>1, <2>2
    <3> QED
      BY ONLY <3>1
  <2>5. Len(u) = a.size /\ \A i \in 1..k : u[i] = r[i]
    BY <1>1, <1>4, <1>6, <2>3, <2>4
  <2>6. r[1] = s /\ \A i \in 1..(k - 1) : r[i + 1] = p[i]
    BY <2>1, <2>2, <2>3
  <2>7. \A i \in 1..(a.size - k) : u[k + i] = q[i]
    BY <1>6, <2>3, <2>4
  <2> QED
    BY <2>3, <2>4, <2>5, <2>6, <2>7
<1> HIDE DEF u
<1>9. ASSUME NEW i \in 1..a.size PROVE b.pool[b.lru[i - 1]] = u[i]
  <2>1. CASE i = 1
    <3>1. 0 \in V /\ b.lru[0] = c /\ b.pool[c] = s
      BY <1>1, <1>7
    <3> QED
      BY <1>8, <2>1, <3>1
  <2>2. CASE i # 1 /\ i <= k
    <3> DEFINE j == i - 1
    <3>1. j \in 1..(k - 1) /\ j \in V /\ j # 0 /\ j <= k - 1 /\ j - 1 \in V /\ j - 1 # k - 1
          /\ j \in 1..a.size /\ i = j + 1
      BY <1>1, <1>4, <2>2
    <3> HIDE DEF j
    <3>2. b.lru[j] = a.lru[j - 1] /\ a.lru[j - 1] \in V \ {c}
      BY <1>5, <1>7, <3>1
    <3>3. b.pool[a.lru[j - 1]] = a.pool[a.lru[j - 1]]
      BY <1>1, <1>7, <3>2
    <3>4. u[i] = t[j]
      BY <1>6, <1>8, <3>1
    <3> QED
      BY <1>2, <3>1, <3>2, <3>3, <3>4 DEF j
  <2>3. CASE i > k
    <3> DEFINE j == i - k
    <3>1. j \in 1..(a.size - k) /\ i = k + j /\ i - 1 \in V /\ i - 1 # 0 /\ ~ (i - 1 <= k - 1)
          /\ i - 1 # k - 1
      BY <1>1, <1>4, <2>3
    <3> HIDE DEF j
    <3>2. b.lru[i - 1] = a.lru[i - 1] /\ a.lru[i - 1] \in V \ {c}
      BY <1>5, <1>7, <3>1
    <3>3. b.pool[a.lru[i - 1]] = a.pool[a.lru[i - 1]]
      BY <1>1, <1>7, <3>2
    <3>4. u[i] = t[i]
      BY <1>6, <1>8, <3>1
    <3> QED
      BY <1>2, <3>2, <3>3, <3>4
  <2>4. i = 1 \/ (i # 1 /\ i <= k) \/ i > k
    BY <1>1, <1>4
  <2> QED
    BY <2>1, <2>2, <2>3, <2>4
<1>10. TableOf(b) = u
  <2>1. TableOf(b) = [i \in 1..a.size |-> b.pool[b.lru[i - 1]]]
    BY <1>7 DEF TableOf
  <2>2. u = [i \in 1..a.size |-> u[i]]
    BY <1>8
  <2> QED
    BY <1>9, <2>1, <2>2
<1>11. \A i \in (1..a.size) \ {k} : a.lru[i - 1] \in V \ {c}
  <2>1. \A i \in 1..a.size : i # k => i - 1 \in V /\ i - 1 # k - 1
    BY <1>1, <1>4
  <2> QED
    BY <1>5, <2>1
<1> QED
  BY <1>4, <1>10, <1>11 DEF p, q, u, Joined

\* The active entries around a place of a table.
IfActive(x) == IF x.active THEN <<x>> ELSE <<>>

LEMMA ActiveAround ==
  ASSUME NEW p \in Seq(VoiceState), NEW x \in VoiceState, NEW q \in Seq(VoiceState)
  PROVE  /\ ActiveIn(Joined(p, <<x>>, q)) = Joined(ActiveIn(p), IfActive(x), ActiveIn(q))
         /\ ActiveIn(Joined(<<x>>, p, q)) = Joined(IfActive(x), ActiveIn(p), ActiveIn(q))
<1> DEFINE e == <<x>>
           front == e \o p
           back == p \o e
<1>1. e \in Seq(VoiceState) /\ front \in Seq(VoiceState) /\ back \in Seq(VoiceState)
  OBVIOUS
<1>2. ActiveIn(e) = IfActive(x)
  BY ActiveOne DEF IfActive
<1> HIDE DEF e
<1>3. ActiveIn(front) = ActiveIn(e) \o ActiveIn(p) /\ ActiveIn(back) = ActiveIn(p) \o ActiveIn(e)
  BY <1>1, ActiveConcat, Zenon
<1> HIDE DEF front, back
<1>4. /\ ActiveIn(front \o q) = ActiveIn(front) \o ActiveIn(q)
      /\ ActiveIn(back \o q) = ActiveIn(back) \o ActiveIn(q)
  BY <1>1, ActiveConcat, Zenon
<1> QED
  BY <1>2, <1>3, <1>4, Zenon DEF front, back, e, Joined

-----------------------------------------------------------------------------
\* What the abstract stack takes out.
LEMMA WithoutNone ==
  ASSUME NEW S, NEW s \in Seq(S), NEW n, \A i \in 1..Len(s) : s[i].note # n
  PROVE  Polyphony!Without(s, n) = s
<1>1. DOMAIN s = 1..Len(s)
  OBVIOUS
<1> QED
  BY <1>1 DEF Polyphony!Without

LEMMA WithoutMiddle ==
  ASSUME NEW S, NEW P \in Seq(S), NEW Q \in Seq(S), NEW x \in S, NEW n, x.note = n,
         \A i \in 1..Len(P) : P[i].note # n,
         NEW s, s = Joined(P, <<x>>, Q)
  PROVE  Polyphony!Without(s, n) = P \o Q
<1> DEFINE k == Len(P) + 1
           places == {i \in DOMAIN s : s[i].note = n}
<1>1. /\ Len(P) \in Nat /\ Len(Q) \in Nat
      /\ s \in Seq(S) /\ Len(s) = k + Len(Q) /\ DOMAIN s = 1..Len(s)
      /\ s[k] = x /\ \A i \in 1..Len(P) : s[i] = P[i]
  BY DEF Joined
<1>2. SubSeq(s, 1, k - 1) = P /\ SubSeq(s, k + 1, Len(s)) = Q
  BY DEF Joined
<1>3. k \in places /\ \A i \in places : k <= i
  <2>1. k \in 1..Len(s)
    BY <1>1
  <2>2. ASSUME NEW i \in 1..Len(s), s[i].note = n PROVE k <= i
    <3>1. i \notin 1..Len(P)
      BY <1>1, <2>2
    <3> QED
      BY <1>1, <3>1
  <2> QED
    BY <1>1, <2>1, <2>2
<1>4. places \in SUBSET Nat
  BY <1>1
<1> HIDE DEF places
<1>5. Polyphony!Min(places) = k
  <2>1. /\ Polyphony!Min(places) \in places
        /\ \A i \in places : Polyphony!Min(places) <= i
    BY <1>3 DEF Polyphony!Min
  <2> DEFINE m == Polyphony!Min(places)
  <2>2. m \in Nat /\ k \in Nat /\ k <= m /\ m <= k
    BY <1>3, <1>4, <2>1
  <2> HIDE DEF m, k
  <2>3. m = k
    BY <2>2
  <2> QED
    BY <2>3 DEF m
<1>6. Polyphony!Without(s, n) = Polyphony!RemoveAt(s, Polyphony!Min(places))
  BY <1>3 DEF Polyphony!Without, places
<1>7. Polyphony!RemoveAt(s, k) = SubSeq(s, 1, k - 1) \o SubSeq(s, k + 1, Len(s))
  BY DEF Polyphony!RemoveAt
<1> QED
  BY <1>2, <1>5, <1>6, <1>7

\* The note is on one voice at most.
LEMMA OtherNotes ==
  ASSUME NEW a, WellFormed(a), a.cyclic = NonCyclic, NEW n \in Notes, NEW c,
         Find(a, n) \in {c, NoVoice}, NEW v \in VoicesOf(a) \ {c}
  PROVE  a.pool[v] # On(n)
<1> SUFFICES ASSUME a.pool[v] = On(n) PROVE FALSE
  OBVIOUS
<1>1. Find(a, n) = v
  BY FindFindsActive
<1>2. v # NoVoice
  BY PoolFields DEF WellFormed, NoVoice
<1> QED
  BY <1>1, <1>2

\* The elements of the active entries of a part of the table.
LEMMA ActivesNotNamed ==
  ASSUME NEW p \in Seq(VoiceState), NEW n \in Notes,
         \A i \in 1..Len(p) : p[i] # On(n)
  PROVE  \A i \in 1..Len(ActiveIn(p)) : ActiveIn(p)[i].note # n
<1>1. ASSUME NEW e \in Actives(p) PROVE e.note # n
  <2>1. PICK j \in 1..Len(p) : p[j].active /\ e = p[j]
    BY DEF Actives
  <2>2. p[j] \in VoiceState /\ p[j] # On(n)
    OBVIOUS
  <2>3. \A x \in VoiceState : x.active /\ x # On(n) => x.note # n
    BY DEF VoiceState, On
  <2> QED
    BY <2>1, <2>2, <2>3
<1>2. ActiveIn(p) \in Seq(Actives(p))
  BY ActiveSequence
<1> DEFINE A == ActiveIn(p)
<1>3. A \in Seq(Actives(p))
  BY <1>2
<1> HIDE DEF A
<1>4. \A i \in 1..Len(A) : A[i] \in Actives(p)
  BY <1>3
<1> QED
  BY <1>1, <1>4 DEF A

\* What sounds before and after a voice is written and touched.
LEMMA TouchedSounding ==
  ASSUME NEW a, WellFormed(a), a.cyclic = NonCyclic, NEW c \in VoicesOf(a),
         NEW s \in VoiceState, NEW cyclic, NEW n \in Notes, Find(a, n) \in {c, NoVoice},
         NEW b, b = AfterTouch(Written(a, c, s, cyclic), c)
  PROVE  \E P, Q \in Seq(VoiceState) :
           /\ ActiveIn(TableOf(a)) = Joined(P, IfActive(a.pool[c]), Q)
           /\ ActiveIn(TableOf(b)) = Joined(IfActive(s), P, Q)
           /\ \A i \in 1..Len(P) : P[i].note # n
           /\ \A i \in 1..Len(Q) : Q[i].note # n
           /\ Len(P) <= PlaceOf(a, c) /\ Len(Q) < a.size - PlaceOf(a, c)
<1> DEFINE t == TableOf(a)
           k == PlaceOf(a, c) + 1
           p == SubSeq(t, 1, k - 1)
           q == SubSeq(t, k + 1, Len(t))
           x == a.pool[c]
<1>0. k = PlaceOf(a, c) + 1 /\ t = TableOf(a) /\ x = a.pool[c]
      /\ p = SubSeq(t, 1, k - 1) /\ q = SubSeq(t, k + 1, Len(t))
  OBVIOUS
<1>1. /\ IsPool(a) /\ a.size \in Nat /\ x \in VoiceState
      /\ t \in Seq(VoiceState) /\ Len(t) = a.size
      /\ \A i \in 1..a.size : t[i] = a.pool[a.lru[i - 1]]
  BY PoolFields, TableSequence DEF WellFormed
<1> HIDE DEF t, k, x, p, q
<1>2. /\ k \in 1..a.size /\ t[k] = x
      /\ \A i \in (1..a.size) \ {k} : a.lru[i - 1] \in VoicesOf(a) \ {c}
      /\ TableOf(b) = Joined(<<s>>, p, q)
  <2>1. /\ k \in 1..a.size /\ t[k] = a.pool[c]
        /\ \A i \in (1..a.size) \ {k} : a.lru[i - 1] \in VoicesOf(a) \ {c}
        /\ TableOf(b) = Joined(<<s>>, SubSeq(t, 1, k - 1), SubSeq(t, k + 1, Len(t)))
    BY <1>0, TouchedTable
  <2> QED
    BY <1>0, <2>1, Zenon
<1>3. /\ p \in Seq(VoiceState) /\ Len(p) = k - 1 /\ \A i \in 1..(k - 1) : p[i] = t[i]
      /\ q \in Seq(VoiceState) /\ Len(q) = a.size - k /\ \A i \in 1..(a.size - k) : q[i] = t[k + i]
      /\ t = Joined(p, <<x>>, q)
  <2>1. k \in 1..Len(t)
    BY <1>1, <1>2
  <2>2. /\ p \in Seq(VoiceState) /\ Len(p) = k - 1 /\ \A i \in 1..(k - 1) : p[i] = t[i]
        /\ q \in Seq(VoiceState) /\ Len(q) = Len(t) - k /\ \A i \in 1..(Len(t) - k) : q[i] = t[k + i]
        /\ t = Joined(p, <<t[k]>>, q)
    BY <1>0, <1>1, <2>1, AroundPlace, Zenon
  <2> QED
    BY <1>1, <1>2, <2>2, Zenon
<1>4. \A i \in (1..a.size) \ {k} : t[i] # On(n)
  <2>1. \A v \in VoicesOf(a) \ {c} : a.pool[v] # On(n)
    BY OtherNotes
  <2> QED
    BY <1>1, <1>2, <2>1
<1>5. (\A i \in 1..Len(p) : p[i] # On(n)) /\ (\A i \in 1..Len(q) : q[i] # On(n))
  <2>1. \A i \in 1..(k - 1) : i \in (1..a.size) \ {k}
    BY <1>1, <1>2
  <2>2. \A i \in 1..(a.size - k) : k + i \in (1..a.size) \ {k}
    BY <1>1, <1>2
  <2> QED
    BY <1>3, <1>4, <2>1, <2>2
<1> DEFINE P == ActiveIn(p)
           Q == ActiveIn(q)
<1>6. P \in Seq(VoiceState) /\ Q \in Seq(VoiceState) /\ Len(P) <= k - 1 /\ Len(Q) <= a.size - k
  BY <1>3, ActiveSequence
<1>7. (\A i \in 1..Len(P) : P[i].note # n) /\ (\A i \in 1..Len(Q) : Q[i].note # n)
  <2>1. p \in Seq(VoiceState) /\ q \in Seq(VoiceState)
    BY <1>3
  <2> QED
    BY <1>5, <2>1, ActivesNotNamed, Zenon
<1>8. ActiveIn(t) = Joined(P, IfActive(x), Q) /\ ActiveIn(TableOf(b)) = Joined(IfActive(s), P, Q)
  BY <1>1, <1>2, <1>3, ActiveAround
<1> HIDE DEF P, Q
<1>9. Len(P) <= PlaceOf(a, c) /\ Len(Q) < a.size - PlaceOf(a, c)
  <2> DEFINE place == PlaceOf(a, c)
  <2>1. place \in VoicesOf(a)
    BY <1>1, PlaceOfVoice DEF WellFormed
  <2>2. place \in Nat /\ k = place + 1
    BY <1>0, <1>1, <2>1, PoolFields
  <2> HIDE DEF place
  <2>3. Len(P) <= place /\ Len(Q) < a.size - place
    BY <1>1, <1>2, <1>6, <2>2
  <2> QED
    BY <2>3 DEF place
<1> QED
  BY <1>0, <1>6, <1>7, <1>8, <1>9

-----------------------------------------------------------------------------
\* What the abstract stack makes of an entry that is played: it is in front, and the
\* last one goes when there is no room.
LEMMA PlayedWithinRoom ==
  ASSUME NEW P \in Seq(VoiceState), NEW Q \in Seq(VoiceState), NEW e \in VoiceState,
         NEW cap \in Nat, Len(P) + Len(Q) < cap,
         NEW s, Polyphony!Without(s, e.note) = P \o Q
  PROVE  Polyphony!Played(s, e, cap) = Joined(<<e>>, P, Q)
<1> DEFINE t == <<e>> \o (P \o Q)
<1>1. Len(t) <= cap
  OBVIOUS
<1>2. t = (<<e>> \o P) \o Q
  OBVIOUS
<1> HIDE DEF t
<1>3. Len(t) \in Int
  BY DEF t
<1>4. ~ (Len(t) > cap)
  BY <1>1, <1>3
<1>5. Polyphony!Played(s, e, cap) = IF Len(t) > cap THEN SubSeq(t, 1, cap) ELSE t
  BY DEF Polyphony!Played, t
<1> QED
  BY <1>2, <1>4, <1>5, Zenon DEF Joined

LEMMA PlayedWithoutRoom ==
  ASSUME NEW P \in Seq(VoiceState), NEW x \in VoiceState, NEW e \in VoiceState,
         NEW s, s = Joined(P, <<x>>, <<>>), Polyphony!Without(s, e.note) = s
  PROVE  Polyphony!Played(s, e, Len(P) + 1) = Joined(<<e>>, P, <<>>)
<1> DEFINE t == <<e>> \o s
           cap == Len(P) + 1
<1>1. s = P \o <<x>>
  BY DEF Joined
<1>2. Len(t) = cap + 1 /\ cap \in Nat
  BY <1>1
<1>3. SubSeq(t, 1, cap) = <<e>> \o P
  <2> DEFINE f == <<e>>
             g == <<x>>
             u == f \o P
             w == u \o g
  <2>1. /\ f \in Seq(VoiceState) /\ Len(f) = 1 /\ g \in Seq(VoiceState) /\ Len(g) = 1
        /\ u = f \o P /\ w = u \o g
    OBVIOUS
  <2>2. t = f \o s /\ s = P \o g
    BY <1>1
  <2> HIDE DEF f, g, u, w, t
  <2>3. u \in Seq(VoiceState) /\ Len(u) = cap /\ t = w
    <3>1. f \in Seq(VoiceState) /\ P \in Seq(VoiceState) /\ g \in Seq(VoiceState)
          /\ u = f \o P /\ w = u \o g /\ s = P \o g /\ t = f \o s
      BY <2>1, <2>2
    <3>2. u \in Seq(VoiceState) /\ Len(u) = Len(f) + Len(P)
      BY ONLY <3>1
    <3>3. t = w
      BY ONLY <3>1
    <3> QED
      BY <2>1, <3>2, <3>3
  <2>4. /\ Len(w) = Len(u) + Len(g) /\ w \in Seq(VoiceState)
        /\ \A i \in 1..Len(u) : w[i] = u[i]
    <3>1. u \in Seq(VoiceState) /\ g \in Seq(VoiceState) /\ w = u \o g
      BY <2>1, <2>3
    <3> QED
      BY ONLY <3>1
  <2> DEFINE y == SubSeq(w, 1, cap)
  <2>5. y \in Seq(VoiceState) /\ Len(y) = cap /\ \A i \in 1..cap : y[i] = w[i]
    <3>1. cap \in Nat /\ cap <= Len(w)
      BY <1>2, <2>1, <2>3, <2>4
    <3> HIDE DEF cap
    <3> QED
      BY <2>4, <3>1
  <2> HIDE DEF y
  <2>6. \A i \in 1..Len(y) : y[i] = u[i]
    BY <2>3, <2>4, <2>5
  <2>7. y = u
    BY <2>3, <2>5, <2>6, SeqEqual
  <2> QED
    BY <2>3, <2>7 DEF u, f, y
<1>4. (<<e>> \o P) \o <<>> = <<e>> \o P
  OBVIOUS
<1> HIDE DEF t, cap
<1>5. Len(t) > cap
  BY <1>2
<1>6. Polyphony!Played(s, e, cap) = IF Len(t) > cap THEN SubSeq(t, 1, cap) ELSE t
  BY DEF Polyphony!Played, t
<1> QED
  BY <1>3, <1>4, <1>5, <1>6 DEF cap, Joined

\* The voice that is stolen is the last of the table.
LEMMA StolenIsLast ==
  ASSUME NEW a, WellFormed(a), a.size # 0
  PROVE  PlaceOf(a, LeastRecentIn(a, VoicesOf(a))) = a.size - 1
<1> DEFINE V == VoicesOf(a)
           Last(i) == a.lru[i] \in V /\ \A j \in V : a.lru[j] \in V => j <= i
           i == CHOOSE i \in V : Last(i)
<1>1. /\ IsPool(a) /\ Permutes(a) /\ a.size \in Nat /\ V = 0..(a.size - 1)
      /\ a.lru \in [V -> V]
  BY PoolFields DEF WellFormed
<1>2. a.size - 1 \in V /\ Last(a.size - 1)
  BY <1>1
<1>3. i \in V /\ Last(i)
  BY <1>2
<1> HIDE DEF V
<1>4. i = a.size - 1
  <2>1. a.size - 1 <= i
    BY <1>1, <1>2, <1>3
  <2> HIDE DEF i
  <2> QED
    BY <1>1, <1>3, <2>1
<1>5. LeastRecentIn(a, V) = a.lru[i]
  BY DEF LeastRecentIn, V
<1> DEFINE c == LeastRecentIn(a, V)
<1> HIDE DEF i
<1>6. c \in V /\ a.lru[a.size - 1] = c
  BY <1>1, <1>3, <1>4, <1>5
<1> HIDE DEF c
<1>7. PlaceOf(a, c) \in V /\ a.lru[PlaceOf(a, c)] = c
  BY <1>1, <1>6, PlaceOfVoice DEF V
<1>8. PlaceOf(a, c) = a.size - 1
  BY <1>1, <1>2, <1>6, <1>7 DEF Permutes, V
<1> QED
  BY <1>8 DEF c, V

-----------------------------------------------------------------------------
\* The notes of a sequence made of two.
LEMMA ConcatNotes ==
  ASSUME NEW P \in Seq(VoiceState), NEW Q \in Seq(VoiceState), NEW n,
         \A i \in 1..Len(P) : P[i].note # n,
         \A i \in 1..Len(Q) : Q[i].note # n
  PROVE  \A i \in 1..Len(P \o Q) : (P \o Q)[i].note # n
<1> DEFINE r == P \o Q
<1>1. r = P \o Q
  OBVIOUS
<1> HIDE DEF r
<1>2. P \in Seq(VoiceState) /\ Q \in Seq(VoiceState) /\ r = P \o Q
  BY <1>1
<1>3. /\ Len(P) \in Nat /\ Len(Q) \in Nat /\ Len(r) = Len(P) + Len(Q)
      /\ \A i \in 1..Len(P) : r[i] = P[i]
      /\ \A i \in 1..Len(Q) : r[Len(P) + i] = Q[i]
  BY ONLY <1>2
<1>4. ASSUME NEW i \in 1..Len(r) PROVE r[i].note # n
  <2>1. i \in 1..Len(P) \/ (i - Len(P) \in 1..Len(Q) /\ Len(P) + (i - Len(P)) = i)
    BY <1>3
  <2>2. CASE i \in 1..Len(P)
    BY <1>3, <2>2
  <2>3. ASSUME NEW j \in 1..Len(Q), Len(P) + j = i PROVE r[i].note # n
    BY <1>3, <2>3
  <2> QED
    BY <2>1, <2>2, <2>3
<1> QED
  BY <1>4 DEF r

\* The voice that a note-on takes sounds the note already, or is idle, or is stolen.
LEMMA PlayedAround ==
  ASSUME NEW P \in Seq(VoiceState), NEW Q \in Seq(VoiceState), NEW x \in VoiceState,
         NEW n \in Notes, NEW size \in Nat,
         \A i \in 1..Len(P) : P[i].note # n,
         \A i \in 1..Len(Q) : Q[i].note # n,
         Len(P) + Len(Q) < size,
         x.active /\ x.note # n => Q = <<>> /\ Len(P) + 1 = size,
         NEW s, s = Joined(P, IfActive(x), Q)
  PROVE  Polyphony!Played(s, On(n), size) = Joined(<<On(n)>>, P, Q)
<1> DEFINE e == On(n)
<1>1. e \in VoiceState /\ e.note = n
  BY DEF On, VoiceState
<1> HIDE DEF e
<1>2. CASE ~x.active
  <2>1. s = P \o Q
    BY <1>2 DEF IfActive, Joined
  <2>2. P \o Q \in Seq(VoiceState)
    OBVIOUS
  <2>3. \A i \in 1..Len(P \o Q) : (P \o Q)[i].note # n
    BY ConcatNotes
  <2>4. Polyphony!Without(s, n) = P \o Q
    BY <2>1, <2>2, <2>3, WithoutNone, Zenon
  <2>5. e \in VoiceState /\ Polyphony!Without(s, e.note) = P \o Q
    BY <1>1, <2>4, Zenon
  <2> QED
    BY <2>5, PlayedWithinRoom, Zenon DEF e
<1>3. CASE x.active /\ x.note = n
  <2>1. s = Joined(P, <<x>>, Q)
    BY <1>3 DEF IfActive
  <2>2. /\ P \in Seq(VoiceState) /\ Q \in Seq(VoiceState) /\ x \in VoiceState /\ x.note = n
        /\ \A i \in 1..Len(P) : P[i].note # n
    BY <1>3
  <2>3. Polyphony!Without(s, n) = P \o Q
    BY ONLY <2>1, <2>2, WithoutMiddle
  <2>4. e \in VoiceState /\ Polyphony!Without(s, e.note) = P \o Q
    BY <1>1, <2>3, Zenon
  <2> QED
    BY <2>4, PlayedWithinRoom, Zenon DEF e
<1>4. CASE x.active /\ x.note # n
  <2> DEFINE f == <<x>>
  <2>1. f \in Seq(VoiceState) /\ Len(f) = 1 /\ f[1] = x /\ <<>> \in Seq(VoiceState)
    OBVIOUS
  <2>2. Q = <<>> /\ size = Len(P) + 1 /\ s = Joined(P, f, <<>>)
    BY <1>4 DEF IfActive
  <2> HIDE DEF f
  <2>3. \A i \in 1..Len(f) : f[i].note # n
    BY <1>4, <2>1
  <2>4. P \o f \in Seq(VoiceState) /\ \A i \in 1..Len(P \o f) : (P \o f)[i].note # n
    <3>1. f \in Seq(VoiceState) /\ P \o f \in Seq(VoiceState)
      BY <2>1
    <3> QED
      BY <2>3, <3>1, ConcatNotes, Zenon
  <2>5. s = P \o f
    BY <2>1, <2>2, <2>4, ConcatEmptySeq DEF Joined
  <2>6. Polyphony!Without(s, n) = s
    BY <2>4, <2>5, WithoutNone, Zenon
  <2>7. Polyphony!Played(s, e, Len(P) + 1) = Joined(<<e>>, P, <<>>)
    BY <1>1, <2>2, <2>6, PlayedWithoutRoom DEF f
  <2> QED
    BY <2>2, <2>7 DEF e
<1> QED
  BY <1>2, <1>3, <1>4

\* A note-on plays its note on the stack of the notes that sound.
LEMMA NoteOnPlays ==
  ASSUME NEW a, WellFormed(a), a.cyclic = NonCyclic, a.size # 0, NEW n \in Notes
  PROVE  ActiveIn(TableOf(AfterNoteOn(a, n)))
           = Polyphony!Played(ActiveIn(TableOf(a)), On(n), a.size)
<1> DEFINE c == ChosenVoice(a, n)
           x == a.pool[c]
           b == AfterNoteOn(a, n)
           s == ActiveIn(TableOf(a))
<1>1. /\ IsPool(a) /\ c \in VoicesOf(a) /\ a.size \in Nat /\ x \in VoiceState
      /\ On(n) \in VoiceState /\ IfActive(On(n)) = <<On(n)>>
  <2>1. c \in VoicesOf(a)
    BY NoteOnWellFormed
  <2>2. IsPool(a) /\ a.size \in Nat /\ a.pool \in [VoicesOf(a) -> VoiceState]
    BY PoolFields DEF WellFormed
  <2>3. On(n) \in VoiceState /\ On(n).active
    BY DEF On, VoiceState
  <2> HIDE DEF c
  <2> QED
    BY <2>1, <2>2, <2>3 DEF IfActive
<1>2. Find(a, n) \in {c, NoVoice}
  BY DEF ChosenVoice
<1>3. b = AfterTouch(Written(a, c, On(n), a.cyclic), c)
  BY DEF AfterNoteOn, Written
<1> HIDE DEF c, b
<1>4. PICK P, Q \in Seq(VoiceState) :
        /\ s = Joined(P, IfActive(x), Q)
        /\ ActiveIn(TableOf(b)) = Joined(IfActive(On(n)), P, Q)
        /\ \A i \in 1..Len(P) : P[i].note # n
        /\ \A i \in 1..Len(Q) : Q[i].note # n
        /\ Len(P) <= PlaceOf(a, c) /\ Len(Q) < a.size - PlaceOf(a, c)
  BY <1>1, <1>2, <1>3, TouchedSounding
<1> DEFINE place == PlaceOf(a, c)
<1>5. place \in Nat /\ Len(P) <= place /\ Len(Q) < a.size - place
  <2>1. place \in VoicesOf(a)
    BY <1>1, PlaceOfVoice DEF WellFormed
  <2> QED
    BY <1>1, <1>4, <2>1, PoolFields
<1> HIDE DEF place
<1>6. Len(P) + Len(Q) < a.size
  BY <1>1, <1>5
<1>7. ASSUME x.active, x.note # n PROVE Q = <<>> /\ Len(P) + 1 = a.size
  <2>1. FindActive(a, n) = NoVoice
    <3> SUFFICES ASSUME FindActive(a, n) # NoVoice PROVE FALSE
      OBVIOUS
    <3>1. FindActive(a, n) \in VoicesOf(a) /\ a.pool[FindActive(a, n)] = On(n)
      BY <1>1, FindActiveIsFirst
    <3>2. FindActive(a, n) = c
      <4>1. Find(a, n) = FindActive(a, n)
        BY <3>1, FindFindsActive
      <4> QED
        BY <1>2, <4>1
    <3> QED
      BY <1>7, <3>1, <3>2 DEF On
  <2>2. c = LeastRecentIn(a, VoicesOf(a)) /\ \A v \in VoicesOf(a) : a.pool[v].active
    BY <1>7, <2>1, StolenWhenFull DEF c
  <2>3. place = a.size - 1
    BY <2>2, StolenIsLast DEF place
  <2>4. Len(Q) = 0 /\ Q = <<>>
    <3>1. Len(Q) = 0
      BY <1>1, <1>5, <2>3
    <3> QED
      BY <3>1
  <2>5. s = TableOf(a) /\ Len(TableOf(a)) = a.size
    BY <1>1, <2>2, ActiveSequence, TableSequence
  <2>6. Joined(P, IfActive(x), Q) = P \o <<x>>
    BY <1>1, <1>7, <2>4 DEF Joined, IfActive
  <2>7. Len(P \o <<x>>) = Len(P) + 1
    BY <1>1
  <2> QED
    BY <1>4, <2>4, <2>5, <2>6, <2>7
<1> HIDE DEF s, x
<1>8. Polyphony!Played(s, On(n), a.size) = Joined(<<On(n)>>, P, Q)
  BY <1>1, <1>4, <1>6, <1>7, PlayedAround
<1> QED
  BY <1>1, <1>4, <1>8 DEF s, b

\* A note-off takes its note out of it.
LEMMA NoteOffTakesOut ==
  ASSUME NEW a, WellFormed(a), a.cyclic = NonCyclic, NEW n \in Notes
  PROVE  ActiveIn(TableOf(AfterNoteOff(a, n)))
           = Polyphony!Without(ActiveIn(TableOf(a)), n)
<1> DEFINE c == Find(a, n)
           x == a.pool[c]
           b == AfterNoteOff(a, n)
           t == TableOf(a)
           s == ActiveIn(t)
<1>1. IsPool(a) /\ t \in Seq(VoiceState) /\ Len(t) = a.size
      /\ \A i \in 1..a.size : a.lru[i - 1] \in VoicesOf(a) /\ t[i] = a.pool[a.lru[i - 1]]
  BY TableSequence DEF WellFormed
<1>2. CASE c = NoVoice
  <2>1. AfterNoteOff(a, n) = a
    BY <1>2, NoteOffWellFormed
  <2>2. \A v \in VoicesOf(a) : a.pool[v].note # n
    BY <1>1, <1>2, FindIsFirst
  <2>3. \A v \in VoicesOf(a) : a.pool[v] # On(n)
    BY <2>2 DEF On
  <2> HIDE DEF t
  <2>4. \A i \in 1..Len(t) : t[i] # On(n)
    BY <1>1, <2>3
  <2>5. \A i \in 1..Len(s) : s[i].note # n
    BY <1>1, <2>4, ActivesNotNamed
  <2>6. s \in Seq(VoiceState)
    BY <1>1, ActiveSequence
  <2> HIDE DEF s
  <2>7. Polyphony!Without(s, n) = s
    BY <2>5, <2>6, WithoutNone
  <2> QED
    BY <2>1, <2>7 DEF s, t
<1>3. CASE c # NoVoice
  <2>1. c \in VoicesOf(a) /\ x.note = n
    BY <1>1, <1>3, FindIsFirst
  <2>2. a = [size |-> a.size, pool |-> a.pool, lru |-> a.lru, cyclic |-> a.cyclic]
    BY <1>1, PoolRecord
  <2>3. b = AfterTouch(Written(a, c, Off(n), a.cyclic), c)
    BY <1>3, <2>2 DEF AfterNoteOff, Written
  <2>4. x \in VoiceState /\ Off(n) \in VoiceState /\ IfActive(Off(n)) = <<>>
    <3>1. Off(n) \in VoiceState /\ ~Off(n).active
      BY DEF Off, VoiceState
    <3>2. a.pool \in [VoicesOf(a) -> VoiceState]
      BY <1>1, PoolFields
    <3> HIDE DEF c
    <3> QED
      BY <2>1, <3>1, <3>2 DEF IfActive
  <2>5. Find(a, n) \in {c, NoVoice}
    OBVIOUS
  <2> HIDE DEF c, b
  <2>6. PICK P, Q \in Seq(VoiceState) :
          /\ ActiveIn(TableOf(a)) = Joined(P, IfActive(x), Q)
          /\ ActiveIn(TableOf(b)) = Joined(IfActive(Off(n)), P, Q)
          /\ \A i \in 1..Len(P) : P[i].note # n
          /\ \A i \in 1..Len(Q) : Q[i].note # n
    BY <2>1, <2>3, <2>4, <2>5, TouchedSounding
  <2> HIDE DEF x
  <2>7. ActiveIn(TableOf(b)) = P \o Q
    BY <2>4, <2>6 DEF Joined
  <2>8. CASE ~x.active
    <3>1. s = P \o Q
      BY <2>6, <2>8 DEF IfActive, Joined
    <3>2. P \o Q \in Seq(VoiceState) /\ \A i \in 1..Len(P \o Q) : (P \o Q)[i].note # n
      BY <2>6, ConcatNotes
    <3> HIDE DEF s
    <3>3. Polyphony!Without(s, n) = P \o Q
      BY <3>1, <3>2, WithoutNone, Zenon
    <3> QED
      BY <2>7, <3>3 DEF s, b
  <2>9. CASE x.active
    <3>1. s = Joined(P, <<x>>, Q)
      BY <2>6, <2>9 DEF IfActive
    <3> HIDE DEF s
    <3>2. Polyphony!Without(s, n) = P \o Q
      BY <2>1, <2>4, <2>6, <3>1, WithoutMiddle
    <3> QED
      BY <2>7, <3>2 DEF s, b
  <2> QED
    BY <2>8, <2>9
<1> QED
  BY <1>2, <1>3

-----------------------------------------------------------------------------
\* Nothing sounds in a cleared allocator.
LEMMA NothingSounds ==
  ASSUME NEW a, IsPool(a), a.pool = [v \in VoicesOf(a) |-> Off(0)]
  PROVE  ActiveIn(TableOf(a)) = <<>>
<1> DEFINE t == TableOf(a)
<1>1. t \in Seq(VoiceState) /\ Len(t) = a.size
      /\ \A i \in 1..a.size : a.lru[i - 1] \in VoicesOf(a) /\ t[i] = a.pool[a.lru[i - 1]]
  BY TableSequence
<1>2. \A v \in VoicesOf(a) : ~a.pool[v].active
  BY DEF Off
<1> HIDE DEF t
<1>3. \A k \in 1..Len(t) : ~t[k].active
  BY <1>1, <1>2
<1> QED
  BY <1>1, <1>3, ActiveSequence DEF t

\* For every number of voices, the least-recently-used mode is a recency stack of that
\* many notes: a playing note is retriggered on its own voice, and a new one steals the
\* least recently played only when no voice is idle.
THEOREM VoicesAreARecencyStack ==
  ASSUME ~Cyclic
  PROVE  AllocatorSpec => ImplementsRecencyStack
<1>1. AllocatorInit => Polyphony!Init
  <2> SUFFICES ASSUME AllocatorInit PROVE SoundingNotes = <<>>
    BY DEF Polyphony!Init
  <2>1. WellFormed(alloc) /\ alloc.pool = [v \in VoicesOf(alloc) |-> Off(0)]
    BY AllocatorAssumption, NewPoolWellFormed DEF AllocatorInit
  <2> QED
    BY <2>1, NothingSounds DEF SoundingNotes, WellFormed
<1>2. AllocatorOK /\ [AllocatorNext]_alloc => [Polyphony!Next]_SoundingNotes
  <2> SUFFICES ASSUME AllocatorOK, [AllocatorNext]_alloc
               PROVE  Polyphony!Next \/ SoundingNotes' = SoundingNotes
    OBVIOUS
  <2>1. WellFormed(alloc) /\ IsPool(alloc) /\ alloc.size = Size /\ alloc.cyclic = NonCyclic
    BY DEF AllocatorOK, WellFormed
  <2>2. SoundingNotes = ActiveIn(TableOf(alloc)) /\ SoundingNotes' = ActiveIn(TableOf(alloc'))
    BY DEF SoundingNotes, TableOf, ActiveIn, ActiveUpTo
  <2>3. \A n \in Notes : On(n) \in [note : Notes, active : {TRUE}] /\ On(n).note = n
    BY DEF On
  <2>4. ASSUME NEW n \in Notes, NoteOn(n), Size = 0
        PROVE  SoundingNotes' = SoundingNotes
    BY <2>1, <2>2, <2>4, NoteOnWellFormed DEF NoteOn
  <2>5. ASSUME NEW n \in Notes, NoteOn(n), Size # 0
        PROVE  Polyphony!Next
    <3>1. SoundingNotes' = Polyphony!Played(SoundingNotes, On(n), Size)
      BY <2>1, <2>2, <2>5, NoteOnPlays DEF NoteOn
    <3>2. Size > 0
      BY <2>5, AllocatorAssumption
    <3> QED
      BY <2>3, <3>1, <3>2 DEF Polyphony!Next, Polyphony!NoteOn
  <2>6. ASSUME NEW n \in Notes, NoteOff(n)
        PROVE  Polyphony!Next
    <3>1. SoundingNotes' = Polyphony!Without(SoundingNotes, n)
      BY <2>1, <2>2, <2>6, NoteOffTakesOut DEF NoteOff
    <3> QED
      BY <2>3, <3>1 DEF Polyphony!Next, Polyphony!NoteOff
  <2>7. ASSUME ClearNotes \/ Clear
        PROVE  Polyphony!Next
    <3>1. /\ IsPool(alloc') /\ VoicesOf(alloc') = VoicesOf(alloc)
          /\ alloc'.pool = [v \in VoicesOf(alloc) |-> Off(0)]
      BY <2>1, <2>7, ClearFields DEF ClearNotes, Clear, SameKind
    <3>2. SoundingNotes' = <<>>
      BY <2>2, <3>1, NothingSounds
    <3> QED
      BY <3>2 DEF Polyphony!Next, Polyphony!Clear
  <2>8. CASE UNCHANGED alloc
    BY <2>2, <2>8
  <2> QED
    BY <2>4, <2>5, <2>6, <2>7, <2>8 DEF AllocatorNext
<1> QED
  BY <1>1, <1>2, AllocatorInductive, PTL
     DEF AllocatorSpec, ImplementsRecencyStack, Polyphony!Spec
=============================================================================
