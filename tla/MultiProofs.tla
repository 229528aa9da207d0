----------------------------- MODULE MultiProofs -----------------------------
(***************************************************************************)
(* Proofs about the Multi: how it shares the voice cards (MultiVoices) and *)
(* how it keeps time (Transport).                                          *)
(*                                                                         *)
(* For any number of parts and of cards, no card belongs to two parts and  *)
(* the notes that sound are on cards of their parts.  The lemma the rest   *)
(* stands on is SolvedDisjoint: whatever bytes the parts hold, the sets    *)
(* left by SolveAllocationConflicts do not intersect.                      *)
(*                                                                         *)
(* For any number of parts, tempos, grooves and backlogs, no pulse is lost *)
(* or taken twice between the interrupt and the main loop, parts that      *)
(* divide the clock alike stay in step, and a step of the arpeggiator or   *)
(* of the chord sequence stays in range.                                   *)
(***************************************************************************)
EXTENDS MultiVoices, Transport, WellFoundedInduction, TLAPS

-----------------------------------------------------------------------------
(* The voice cards.                                                        *)

\* The parts an allocation byte can be solved for: none, or one of them.
LEMMA SolvedType ==
  ASSUME NEW a \in [PartNumbers -> SUBSET Cards], NEW constraint
  PROVE  Solved(a, constraint) \in [PartNumbers -> SUBSET Cards]
BY DEF Solved

\* With no part left out, the sets are disjoint: of two parts the later one has
\* lost what the earlier one had.
LEMMA SolvedDisjoint ==
  ASSUME NEW a \in [PartNumbers -> SUBSET Cards],
         NEW i \in PartNumbers, NEW j \in PartNumbers, i # j
  PROVE  Solved(a, -1)[i] \cap Solved(a, -1)[j] = {}
<1>1. Solved(a, -1)[i] = a[i] \ TakenBefore(a, i, -1)
  BY DEF Solved, PartNumbers
<1>2. Solved(a, -1)[j] = a[j] \ TakenBefore(a, j, -1)
  BY DEF Solved, PartNumbers
<1>3. CASE i < j
  <2>1. a[i] \subseteq TakenBefore(a, j, -1)
    BY <1>3 DEF TakenBefore, PartNumbers
  <2> QED BY <1>1, <1>2, <2>1
<1>4. CASE j < i
  <2>1. a[j] \subseteq TakenBefore(a, i, -1)
    BY <1>4 DEF TakenBefore, PartNumbers
  <2> QED BY <1>1, <1>2, <2>1
<1> QED BY <1>3, <1>4 DEF PartNumbers

\* What SolveAllocationConflicts returns for a part meets no other part's set.
LEMMA AvailableIsFree ==
  ASSUME NEW a \in [PartNumbers -> SUBSET Cards], NEW p \in PartNumbers,
         NEW i \in PartNumbers, i # p
  PROVE  Available(a, p) \cap a[i] = {}
<1>1. i < NumParts
  BY MultiVoicesAssumption DEF PartNumbers
<1>2. a[i] \subseteq TakenBefore(a, NumParts, p)
  BY <1>1 DEF TakenBefore
<1> QED BY <1>2 DEF Available

\* Solving what is disjoint changes nothing.
LEMMA SolvedIdle ==
  ASSUME NEW a \in [PartNumbers -> SUBSET Cards], NEW constraint,
         \A i, j \in PartNumbers : i # j => a[i] \cap a[j] = {}
  PROVE  Solved(a, constraint) = a
<1>1. ASSUME NEW i \in PartNumbers PROVE a[i] \ TakenBefore(a, i, constraint) = a[i]
  <2>1. ASSUME NEW c \in a[i], c \in TakenBefore(a, i, constraint) PROVE FALSE
    <3>1. PICK j \in PartNumbers : j < i /\ c \in a[j]
      BY <2>1 DEF TakenBefore
    <3> QED BY <3>1, <2>1 DEF PartNumbers
  <2> QED BY <2>1
<1> QED BY <1>1 DEF Solved

-----------------------------------------------------------------------------
\* A non-empty set of naturals has a least element.
LEMMA LeastExists ==
  ASSUME NEW T \in SUBSET Nat, T # {}
  PROVE  \E x \in T : \A y \in T : x <= y
<1>1. \E x \in T : \A y \in T : ~ (<<y, x>> \in OpToRel(<, Nat))
  BY NatLessThanWellFounded, WFMin
<1>2. PICK x \in T : \A y \in T : ~ (<<y, x>> \in OpToRel(<, Nat))
  BY <1>1
<1>3. ASSUME NEW y \in T PROVE x <= y
  <2>1. ~ (<<y, x>> \in OpToRel(<, Nat))
    BY <1>2
  <2>2. ~ (y < x)
    BY <2>1 DEF OpToRel
  <2> QED
    BY <2>2
<1> QED
  BY <1>3

\* The first bit of a byte that is not zero is one of its bits.
LEMMA LowestCardIsMember ==
  ASSUME NEW S \in SUBSET Cards, S # {}
  PROVE  LowestCard(S) \in S
<1>1. S \in SUBSET Nat
  BY DEF Cards
<1> QED BY <1>1, LeastExists DEF LowestCard

-----------------------------------------------------------------------------
\* The parts of the invariant, said of an allocation.
Disjoint(a) == \A i, j \in PartNumbers : i # j => a[i] \cap a[j] = {}

\* A part that has cards has the first of them in front.
FirstIsOwn == \A p \in PartNumbers : cards[p] # {} => first[p] \in cards[p]

Invariant == TypeOK /\ CardsAreShared /\ FirstIsOwn

\* AssignVoicesToParts keeps the invariant when it is given disjoint sets.
LEMMA AssignKeeps ==
  ASSUME TypeOK, NEW a \in [PartNumbers -> SUBSET Cards], Disjoint(a), Assign(a)
  PROVE  Invariant'
<1>1. first' \in [PartNumbers -> Cards]
  <2>1. ASSUME NEW i \in PartNumbers
        PROVE  (IF a[i] = {} THEN first[i] ELSE LowestCard(a[i])) \in Cards
    <3>1. CASE a[i] = {}
      BY <3>1 DEF TypeOK
    <3>2. CASE a[i] # {}
      BY <3>2, LowestCardIsMember
    <3> QED BY <3>1, <3>2
  <2> QED BY <2>1 DEF Assign
<1>2. player' \in [Cards -> PartNumbers \cup {Nobody}]
  <2>1. ASSUME NEW c \in Cards
        PROVE  (IF \E i \in PartNumbers : c \in cards[i] THEN Nobody ELSE player[c])
                 \in PartNumbers \cup {Nobody}
    BY DEF TypeOK
  <2> QED BY <2>1 DEF Assign
<1>3. TypeOK'
  BY <1>1, <1>2 DEF TypeOK, Assign
<1>4. CardsAreShared'
  BY DEF CardsAreShared, Disjoint, Assign
<1>5. FirstIsOwn'
  <2> SUFFICES ASSUME NEW p \in PartNumbers, a[p] # {}
               PROVE  first'[p] \in a[p]
    BY DEF FirstIsOwn, Assign
  <2>1. first'[p] = LowestCard(a[p])
    BY DEF Assign
  <2> QED BY <2>1, LowestCardIsMember
<1> QED BY <1>3, <1>4, <1>5 DEF Invariant

\* The steps that hand the solved bytes to the parts.
LEMMA SolvedAssignKeeps ==
  ASSUME TypeOK, NEW a \in [PartNumbers -> SUBSET Cards], Assign(Solved(a, -1))
  PROVE  Invariant'
<1>1. Solved(a, -1) \in [PartNumbers -> SUBSET Cards]
  BY SolvedType
<1>2. Disjoint(Solved(a, -1))
  BY SolvedDisjoint DEF Disjoint
<1> QED BY <1>1, <1>2, AssignKeeps

\* The knob of the voice assigner.
LEMMA TurnPotKeeps ==
  ASSUME Invariant, NEW p \in PartNumbers, NEW pair \in Pairs, NEW S \in SUBSET pair,
         TurnPot(p, pair, S)
  PROVE  Invariant'
<1> DEFINE new == ((allocation[p] \ pair) \cup S) \cap Available(allocation, p)
<1>1. allocation \in [PartNumbers -> SUBSET Cards] /\ Disjoint(allocation)
  BY DEF Invariant, TypeOK, CardsAreShared, Disjoint
<1>2. Solved(allocation, p) = allocation
  BY <1>1, SolvedIdle DEF Disjoint
<1>3. CASE new = allocation[p]
  <2>1. UNCHANGED multiVars
    BY <1>2, <1>3 DEF TurnPot, multiVars
  <2> QED BY <2>1 DEF Invariant, TypeOK, CardsAreShared, FirstIsOwn, multiVars
<1>4. CASE new # allocation[p]
  <2> DEFINE b == [allocation EXCEPT ![p] = new]
  <2>1. Assign(b)
    BY <1>2, <1>4 DEF TurnPot
  <2>2. new \in SUBSET Cards
    BY DEF Available
  <2>3. b \in [PartNumbers -> SUBSET Cards]
    BY <1>1, <2>2
  <2>4. ASSUME NEW i \in PartNumbers, i # p PROVE new \cap allocation[i] = {}
    BY <1>1, <2>4, AvailableIsFree
  <2>5. Disjoint(b)
    <3> SUFFICES ASSUME NEW i \in PartNumbers, NEW j \in PartNumbers, i # j
                 PROVE  b[i] \cap b[j] = {}
      BY DEF Disjoint
    <3>1. CASE i = p
      <4>1. b[i] = new /\ b[j] = allocation[j]
        BY <1>1, <3>1
      <4> QED BY <4>1, <3>1, <2>4
    <3>2. CASE j = p
      <4>1. b[j] = new /\ b[i] = allocation[i]
        BY <1>1, <3>2
      <4> QED BY <4>1, <3>2, <2>4
    <3>3. CASE i # p /\ j # p
      <4>1. b[j] = allocation[j] /\ b[i] = allocation[i]
        BY <1>1, <3>3
      <4> QED BY <4>1, <1>1 DEF Disjoint
    <3> QED BY <3>1, <3>2, <3>3
  <2> HIDE DEF b
  <2> QED BY <2>1, <2>3, <2>5, AssignKeeps DEF Invariant
<1> QED BY <1>3, <1>4

-----------------------------------------------------------------------------
\* The invariant holds of every behaviour: one step for each action.
LEMMA InvariantHolds == MultiSpec => []Invariant
<1>1. MultiInit => Invariant
  BY MultiVoicesAssumption
     DEF MultiInit, Invariant, TypeOK, CardsAreShared, FirstIsOwn, Cards
<1>2. Invariant /\ [MultiNext]_multiVars => Invariant'
  <2> SUFFICES ASSUME Invariant, [MultiNext]_multiVars PROVE Invariant'
    OBVIOUS
  <2>0. TypeOK /\ allocation \in [PartNumbers -> SUBSET Cards]
    BY DEF Invariant, TypeOK
  <2>1. ASSUME NEW p \in PartNumbers, NEW S \in SUBSET Cards, SetAllocation(p, S)
        PROVE  Invariant'
    <3>1. [allocation EXCEPT ![p] = S] \in [PartNumbers -> SUBSET Cards]
      BY <2>0
    <3> QED BY <3>1, <2>0, <2>1, SolvedAssignKeeps DEF SetAllocation
  <2>2. ASSUME NEW a \in [PartNumbers -> SUBSET Cards], LoadMulti(a)
        PROVE  Invariant'
    BY <2>0, <2>2, SolvedAssignKeeps DEF LoadMulti
  <2>3. ASSUME NEW p \in PartNumbers, NEW card \in Cards, ClickCard(p, card)
        PROVE  Invariant'
    <3> DEFINE others == IF card \in allocation[p] THEN allocation
                         ELSE [i \in PartNumbers |-> allocation[i] \ {card}]
               toggled == IF card \in allocation[p] THEN allocation[p] \ {card}
                          ELSE allocation[p] \cup {card}
    <3>1. others \in [PartNumbers -> SUBSET Cards] /\ toggled \in SUBSET Cards
      BY <2>0
    <3>2. [others EXCEPT ![p] = toggled] \in [PartNumbers -> SUBSET Cards]
      BY <3>1
    <3>3. Assign(Solved([others EXCEPT ![p] = toggled], -1))
      BY <2>3 DEF ClickCard
    <3> HIDE DEF others, toggled
    <3> QED BY <3>2, <3>3, <2>0, SolvedAssignKeeps
  <2>4. ASSUME NEW p \in PartNumbers, NEW pair \in Pairs, NEW S \in SUBSET pair,
               TurnPot(p, pair, S)
        PROVE  Invariant'
    BY <2>4, TurnPotKeeps
  <2>5. ASSUME NEW p \in PartNumbers, NEW card \in Cards, Trigger(p, card)
        PROVE  Invariant'
    BY <2>5 DEF Trigger, Invariant, TypeOK, CardsAreShared, FirstIsOwn
  <2>6. ASSUME NEW p \in PartNumbers, NEW card \in Cards, Release(p, card)
        PROVE  Invariant'
    BY <2>6 DEF Release, Invariant, TypeOK, CardsAreShared, FirstIsOwn
  <2>7. ASSUME NEW p \in PartNumbers, NEW m \in Modes, ChangeMode(p, m)
        PROVE  Invariant'
    BY <2>7 DEF ChangeMode, Invariant, TypeOK, CardsAreShared, FirstIsOwn
  <2>8. CASE UNCHANGED multiVars
    BY <2>8 DEF multiVars, Invariant, TypeOK, CardsAreShared, FirstIsOwn
  <2> QED BY <2>1, <2>2, <2>3, <2>4, <2>5, <2>6, <2>7, <2>8 DEF MultiNext
<1> QED BY <1>1, <1>2, PTL DEF MultiSpec

\* Type correctness, for any number of parts and cards.
THEOREM TypeCorrect == MultiSpec => []TypeOK
<1>1. Invariant => TypeOK
  BY DEF Invariant
<1> QED BY <1>1, InvariantHolds, PTL

\* A card is never allocated to two parts, and the parts play on the cards the
\* multi shows: what SolveAllocationConflicts is for.
THEOREM NoCardIsSharedByParts == MultiSpec => []CardsAreShared
<1>1. Invariant => CardsAreShared
  BY DEF Invariant
<1> QED BY <1>1, InvariantHolds, PTL

-----------------------------------------------------------------------------
\* In every polyphony mode and whatever the changes of allocation while notes sound, a card
\* sounds only for the part that has it, but for a card that was last triggered by a part in
\* the SOLO mode that had none (part.cc:729-731).
THEOREM NotesStayOnTheirPart == MultiSpec => []PlayersOwnTheirCards
<1> DEFINE Inv == Invariant /\ PlayersOwnTheirCards
<1>1. MultiInit => PlayersOwnTheirCards
  BY DEF MultiInit, PlayersOwnTheirCards
<1>2. Invariant /\ PlayersOwnTheirCards /\ [MultiNext]_multiVars => PlayersOwnTheirCards'
  <2> SUFFICES ASSUME Invariant, PlayersOwnTheirCards, [MultiNext]_multiVars
               PROVE  PlayersOwnTheirCards'
    OBVIOUS
  <2>0. TypeOK
    BY DEF Invariant
  <2>1. ASSUME NEW a, Assign(a) PROVE PlayersOwnTheirCards'
    <3> SUFFICES ASSUME NEW c \in Cards \ strays', player'[c] # Nobody
                 PROVE  FALSE
      BY DEF PlayersOwnTheirCards
    <3>1. player'[c] = player[c] /\ strays' = strays /\ ~ \E i \in PartNumbers : c \in cards[i]
      BY <2>1 DEF Assign
    <3>2. player[c] \in PartNumbers /\ c \in cards[player[c]]
      BY <2>0, <3>1 DEF PlayersOwnTheirCards, TypeOK
    <3> QED BY <3>1, <3>2
  <2>2. ASSUME NEW p \in PartNumbers, NEW card \in Cards, Trigger(p, card)
        PROVE  PlayersOwnTheirCards'
    <3>1. CASE mode[p] = "SOLO" /\ cards[p] = {}
      BY <2>0, <2>2, <3>1 DEF Trigger, PlayersOwnTheirCards, TypeOK
    <3>2. CASE ~(mode[p] = "SOLO" /\ cards[p] = {})
      <4>1. card \in cards[p]
        BY <2>2, <3>2 DEF Trigger, Targets, Invariant, FirstIsOwn
      <4> QED BY <2>0, <2>2, <3>2, <4>1 DEF Trigger, PlayersOwnTheirCards, TypeOK
    <3> QED BY <3>1, <3>2
  <2>3. ASSUME NEW p \in PartNumbers, NEW card \in Cards, Release(p, card)
        PROVE  PlayersOwnTheirCards'
    BY <2>0, <2>3 DEF Release, PlayersOwnTheirCards, TypeOK
  <2>4. ASSUME NEW p \in PartNumbers, NEW m \in Modes, ChangeMode(p, m)
        PROVE  PlayersOwnTheirCards'
    BY <2>0, <2>4 DEF ChangeMode, PlayersOwnTheirCards, TypeOK
  <2>5. ASSUME NEW p \in PartNumbers, NEW pair \in Pairs, NEW S \in SUBSET pair,
               TurnPot(p, pair, S)
        PROVE  PlayersOwnTheirCards'
    <3>1. CASE UNCHANGED <<cards, first, mode, player, strays>>
      BY <3>1 DEF PlayersOwnTheirCards
    <3>2. CASE ~ UNCHANGED <<cards, first, mode, player, strays>>
      BY <2>1, <2>5, <3>2 DEF TurnPot
    <3> QED BY <3>1, <3>2
  <2>6. CASE UNCHANGED multiVars
    BY <2>6 DEF multiVars, PlayersOwnTheirCards
  <2> QED
    BY <2>1, <2>2, <2>3, <2>4, <2>5, <2>6
       DEF MultiNext, SetAllocation, LoadMulti, ClickCard
<1> QED BY <1>1, <1>2, InvariantHolds, PTL DEF MultiSpec


-----------------------------------------------------------------------------
(* The hand-over of pulses.                                                *)

\* What the main loop has taken is what it has still to work off.
PulseInv ==
  /\ events \in Nat /\ pending \in Nat
  /\ pc \in {"serve", "locked", "work"}
  /\ pc = "locked" => pending = events
  /\ pc = "serve" => pending = 0
  /\ pc = "work" => pending > 0
  /\ tick \in 0..(TicksPerStep - 1)
  /\ step \in 0..(GrooveSteps - 1)

LEMMA MultiplicationIsMonotone ==
  ASSUME NEW t \in Nat, NEW a \in Nat, NEW b \in Nat, a <= b PROVE t * a <= t * b
<1>1. PICK d \in Nat : b = a + d
  <2>1. b - a \in Nat /\ b = a + (b - a)
    OBVIOUS
  <2> QED
    BY <2>1
<1>2. t * d \in Nat /\ t * a \in Nat
  OBVIOUS
<1>3. t * b = t * a + t * d
  BY <1>1
<1> QED
  BY <1>2, <1>3

\* The next song position, from the tick and the step.
LEMMA PositionAdvances ==
  ASSUME NEW t \in 0..(TicksPerStep - 1), NEW s \in 0..(GrooveSteps - 1)
  PROVE  /\ t + 1 # TicksPerStep =>
              TicksPerStep * s + (t + 1) = (TicksPerStep * s + t + 1) % (TicksPerStep * GrooveSteps)
         /\ t + 1 = TicksPerStep =>
              TicksPerStep * ((s + 1) % GrooveSteps) + 0
                = (TicksPerStep * s + t + 1) % (TicksPerStep * GrooveSteps)
<1> DEFINE period == TicksPerStep * GrooveSteps
           here   == TicksPerStep * s
<1>1. TicksPerStep \in Nat \ {0} /\ GrooveSteps \in Nat \ {0} /\ s \in Nat /\ t \in Nat
  BY TransportAssumption
<1>2. here \in Nat /\ period \in Nat
  BY <1>1
<1>3. here + TicksPerStep = TicksPerStep * (s + 1)
  BY <1>1
<1>4. here + TicksPerStep <= period
  BY <1>1, <1>3, MultiplicationIsMonotone
<1>5. s + 1 < GrooveSteps => here + TicksPerStep < period
  <2>1. SUFFICES ASSUME s + 1 < GrooveSteps PROVE here + TicksPerStep < period
    OBVIOUS
  <2>2. TicksPerStep * (s + 2) <= period
    BY <1>1, <2>1, MultiplicationIsMonotone
  <2>3. TicksPerStep * (s + 2) = here + TicksPerStep + TicksPerStep
    BY <1>1
  <2> QED
    BY <1>1, <1>2, <2>2, <2>3
<1>6. s + 1 = GrooveSteps => here + TicksPerStep = period
  BY <1>3
<1> HIDE DEF here, period
<1>7. \A n \in Nat : n < period => n % period = n
  BY <1>2
<1>8. period > 0 => period % period = 0
  BY <1>2
<1>9. CASE t + 1 # TicksPerStep
  <2>1. here + t + 1 \in Nat /\ here + t + 1 < period
    BY <1>1, <1>2, <1>4, <1>9
  <2> QED
    BY <1>1, <1>2, <1>7, <1>9, <2>1 DEF here, period
<1>10. CASE t + 1 = TicksPerStep /\ s + 1 < GrooveSteps
  <2>1. (s + 1) % GrooveSteps = s + 1
    BY <1>1, <1>10
  <2>2. here + t + 1 = here + TicksPerStep
    BY <1>1, <1>2, <1>10
  <2> QED
    BY <1>1, <1>2, <1>3, <1>5, <1>7, <1>10, <2>1, <2>2 DEF here, period
<1>11. CASE t + 1 = TicksPerStep /\ s + 1 = GrooveSteps
  <2>1. (s + 1) % GrooveSteps = 0
    BY <1>1, <1>11
  <2>2. here + t + 1 = period
    BY <1>1, <1>2, <1>6, <1>11
  <2>3. TicksPerStep * 0 = 0
    BY <1>1
  <2>4. period > 0
    BY <1>1, <1>2, <1>4
  <2> QED
    BY <1>8, <1>11, <2>1, <2>2, <2>3, <2>4 DEF here, period
<1> QED
  BY <1>1, <1>9, <1>10, <1>11

LEMMA ClockMultiAdvances ==
  ASSUME PulseInv, ClockMulti
  PROVE  /\ tick' \in 0..(TicksPerStep - 1) /\ step' \in 0..(GrooveSteps - 1)
         /\ TicksPerStep * step' + tick'
              = (TicksPerStep * step + tick + 1) % (TicksPerStep * GrooveSteps)
<1>1. TicksPerStep \in Nat \ {0} /\ GrooveSteps \in Nat \ {0}
  BY TransportAssumption
<1>2. tick \in 0..(TicksPerStep - 1) /\ step \in 0..(GrooveSteps - 1)
  BY DEF PulseInv
<1>3. CASE tick + 1 = TicksPerStep
  <2>1. tick' = 0 /\ step' = (step + 1) % GrooveSteps
    BY <1>3 DEF ClockMulti
  <2>2. step' \in 0..(GrooveSteps - 1)
    BY <1>1, <1>2, <2>1
  <2> QED
    BY <1>1, <1>2, <1>3, <2>1, <2>2, PositionAdvances
<1>4. CASE tick + 1 # TicksPerStep
  <2>1. tick' = tick + 1 /\ step' = step
    BY <1>4 DEF ClockMulti
  <2> QED
    BY <1>1, <1>2, <1>4, <2>1, PositionAdvances
<1> QED
  BY <1>3, <1>4

LEMMA InitPulses == Init => PulseInv /\ Pulses!Init
<1> SUFFICES ASSUME Init PROVE PulseInv /\ Pulses!Init
  OBVIOUS
<1>1. events = 0 /\ pending = 0 /\ pc = "serve" /\ tick = 0 /\ step = 0
  BY DEF Init
<1>2. TicksPerStep \in Nat \ {0} /\ GrooveSteps \in Nat \ {0}
  BY TransportAssumption
<1> QED
  BY <1>1, <1>2 DEF PulseInv, Pulses!Init, Internal

LEMMA NextPulses ==
  PulseInv /\ [Next]_vars => PulseInv' /\ [Pulses!Next]_(Pulses!vars)
<1> SUFFICES ASSUME PulseInv, [Next]_vars PROVE PulseInv' /\ [Pulses!Next]_(Pulses!vars)
  OBVIOUS
<1> DEFINE due == IF pc = "locked" THEN events ELSE events + pending
           position == TicksPerStep * step + tick
<1>1. due \in Nat
  BY DEF PulseInv
<1>2. 0 \in 0..(TicksPerStep - 1) /\ 0 \in 0..(GrooveSteps - 1) /\ TicksPerStep * 0 + 0 = 0
  BY TransportAssumption
\* Nothing the clock promises something about has moved.
<1>3. ASSUME UNCHANGED <<tick, step, tempo>>, due' = due PROVE [Pulses!Next]_(Pulses!vars)
  BY <1>3 DEF Pulses!vars, Internal
<1>4. ASSUME UNCHANGED <<events, pc, pending, tempo>>, tick' = 0, step' = 0
      PROVE  PulseInv' /\ [Pulses!Next]_(Pulses!vars)
  <2>1. PulseInv'
    BY <1>2, <1>4 DEF PulseInv
  <2>2. position' = 0 /\ due' = due /\ Internal' = Internal
    BY <1>2, <1>4 DEF Internal
  <2>3. Pulses!Restart
    BY <2>2 DEF Pulses!Restart
  <2> QED
    BY <2>1, <2>3 DEF Pulses!Next
<1>5. CASE Tick
  <2>1. UNCHANGED <<pc, pending, tick, step, tempo>> /\ pc # "locked"
    BY <1>5 DEF Tick, transport, settings
  <2>2. events' = events + 1 \/ events' = events
    BY <1>5 DEF Tick
  <2>3. PulseInv'
    BY <2>1, <2>2 DEF PulseInv
  <2>4. CASE events' = events + 1
    <3>1. due' = due + 1 /\ position' = position /\ Internal' = Internal
      BY <2>1, <2>4 DEF PulseInv, Internal
    <3>2. Pulses!Make
      BY <3>1 DEF Pulses!Make
    <3> QED
      BY <2>3, <3>2 DEF Pulses!Next
  <2>5. CASE events' = events
    BY <1>3, <2>1, <2>3, <2>5
  <2> QED
    BY <2>2, <2>4, <2>5
<1>6. CASE LockEvents
  <2>1. /\ pc = "serve" /\ pc' = "locked" /\ pending' = events
        /\ UNCHANGED <<events, tick, step, tempo>>
    BY <1>6 DEF LockEvents, timer, transport, settings
  <2> QED
    BY <1>3, <2>1 DEF PulseInv
<1>7. CASE ClearEvents
  <2>1. /\ pc = "locked" /\ events' = 0 /\ pc' = IF pending = 0 THEN "serve" ELSE "work"
        /\ UNCHANGED <<pending, tick, step, tempo>>
    BY <1>7 DEF ClearEvents, transport, settings
  <2> QED
    BY <1>3, <2>1 DEF PulseInv
<1>8. CASE DropEvents
  <2>1. /\ pc = "work" /\ ~Internal /\ pending' = 0 /\ pc' = "serve"
        /\ UNCHANGED <<events, tick, step, tempo>>
    BY <1>8 DEF DropEvents, timer, transport, settings
  <2>2. PulseInv'
    BY <2>1 DEF PulseInv
  <2>3. due' \in 0..due /\ position' = position /\ Internal' = Internal
    BY <2>1 DEF PulseInv, Internal
  <2>4. Pulses!Drop
    BY <2>1, <2>3 DEF Pulses!Drop
  <2> QED
    BY <2>2, <2>4 DEF Pulses!Next
<1>9. CASE WorkOff
  <2>1. /\ pc = "work" /\ Internal /\ pending' = pending - 1 /\ ClockMulti
        /\ pc' = IF pending = 1 THEN "serve" ELSE "work"
        /\ UNCHANGED <<events, tempo>>
    BY <1>9 DEF WorkOff, timer, settings
  <2>2. /\ tick' \in 0..(TicksPerStep - 1) /\ step' \in 0..(GrooveSteps - 1)
        /\ position' = (position + 1) % (TicksPerStep * GrooveSteps)
    BY <2>1, ClockMultiAdvances
  <2>3. PulseInv'
    BY <2>1, <2>2 DEF PulseInv
  <2>4. due > 0 /\ due' = due - 1 /\ Internal' = Internal
    BY <2>1 DEF PulseInv, Internal
  <2>5. Pulses!Take
    BY <2>1, <2>2, <2>4 DEF Pulses!Take, Pulses!Advance
  <2> QED
    BY <2>3, <2>5 DEF Pulses!Next
<1>10. CASE ReceiveClock
  <2>1. ~Internal /\ ClockMulti /\ UNCHANGED <<events, pc, pending, tempo>>
    BY <1>10 DEF ReceiveClock, Serving, timer, settings
  <2>2. /\ tick' \in 0..(TicksPerStep - 1) /\ step' \in 0..(GrooveSteps - 1)
        /\ position' = (position + 1) % (TicksPerStep * GrooveSteps)
    BY <2>1, ClockMultiAdvances
  <2>3. PulseInv'
    BY <2>1, <2>2 DEF PulseInv
  <2>4. due' = due /\ Internal' = Internal
    BY <2>1 DEF Internal
  <2>5. Pulses!Follow
    BY <2>1, <2>2, <2>4 DEF Pulses!Follow, Pulses!Advance
  <2> QED
    BY <2>3, <2>5 DEF Pulses!Next
<1>11. CASE ReceiveStart
  BY <1>4, <1>11 DEF ReceiveStart, Serving, StartMulti, timer, settings
<1>12. ASSUME NEW i, PressKey(i) PROVE PulseInv' /\ [Pulses!Next]_(Pulses!vars)
  <2>1. UNCHANGED <<events, pc, pending, tempo>>
    BY <1>12 DEF PressKey, Serving, timer, settings
  <2>2. UNCHANGED <<tick, step>> \/ (tick' = 0 /\ step' = 0)
    BY <1>12 DEF PressKey, transport
  <2>3. CASE UNCHANGED <<tick, step>>
    BY <1>3, <2>1, <2>3 DEF PulseInv
  <2> QED
    BY <1>4, <2>1, <2>2, <2>3
<1>13. ASSUME UNCHANGED <<events, pc, pending, tick, step>>
       PROVE  PulseInv' /\ (tempo' = tempo => [Pulses!Next]_(Pulses!vars))
  BY <1>3, <1>13 DEF PulseInv
<1>14. CASE ReceiveStop \/ EditRelease \/ UNCHANGED vars
  BY <1>13, <1>14 DEF ReceiveStop, EditRelease, Serving, timer, transport, settings, vars
<1>15. ASSUME NEW i, ReleaseKey(i) \/ EditPart(i) \/ LoadProgram(i)
       PROVE  PulseInv' /\ [Pulses!Next]_(Pulses!vars)
  BY <1>13, <1>15 DEF ReleaseKey, EditPart, LoadProgram, Serving, timer, transport, settings
<1>16. CASE EditTempo
  <2>1. UNCHANGED <<events, pc, pending, tick, step>>
    BY <1>16 DEF EditTempo, Serving, timer, transport
  <2>2. due' = due /\ position' = position /\ Internal' \in BOOLEAN
    BY <2>1 DEF Internal
  <2>3. Pulses!Switch
    BY <2>2 DEF Pulses!Switch
  <2> QED
    BY <1>13, <2>1, <2>3 DEF Pulses!Next
<1> QED
  BY <1>5, <1>6, <1>7, <1>8, <1>9, <1>10, <1>11, <1>12, <1>14, <1>15, <1>16 DEF Next, MainLoop

\* For all tempos and grooves, and whatever interrupts what: the pulses the timer
\* makes are worked off each once (Tick in multi.h and UpdateClocks in multi.cc).
THEOREM PulsesAreNotLost == Spec => ImplementsClockPulses
<1>1. Spec => Pulses!Init /\ [][Pulses!Next]_(Pulses!vars)
  BY InitPulses, NextPulses, PTL DEF Spec
<1> QED
  BY <1>1 DEF ImplementsClockPulses, Pulses!Spec

-----------------------------------------------------------------------------
(* The counters of the parts.                                              *)

HasClock(c) == {"prescaler", "counter", "bit"} \subseteq DOMAIN c

\* A step that leaves the clock of a part alone.
SameClock(c, d) ==
  /\ DOMAIN d = DOMAIN c
  /\ d.prescaler = c.prescaler /\ d.counter = c.counter /\ d.bit = c.bit

LEMMA SameClockTrans ==
  ASSUME NEW c, NEW d, NEW e, SameClock(c, d), SameClock(d, e) PROVE SameClock(c, e)
  BY DEF SameClock

LEMMA StartArpeggioClock ==
  ASSUME NEW c, HasClock(c) PROVE SameClock(c, StartArpeggio(c))
  BY DEF HasClock, SameClock, StartArpeggio

LEMMA WalkClock ==
  ASSUME NEW c, HasClock(c) PROVE SameClock(c, Walk(c))
  BY DEF HasClock, SameClock, Walk

LEMMA TurnClock ==
  ASSUME NEW c, HasClock(c) PROVE SameClock(c, TurnOrRestart(c))
<1> DEFINE turned == [c EXCEPT !.arpDir = -@]
           t      == StartArpeggio(turned)
<1>1. HasClock(turned) /\ SameClock(c, turned)
  BY DEF HasClock, SameClock
<1> HIDE DEF turned
<1>2. SameClock(turned, t)
  BY <1>1, StartArpeggioClock
<1>3. HasClock(t) /\ SameClock(c, t)
  BY <1>1, <1>2, SameClockTrans DEF HasClock, SameClock
<1> HIDE DEF t
<1>4. SameClock(c, Walk(t))
  BY <1>3, WalkClock, SameClockTrans
<1>5. TurnOrRestart(c) \in {StartArpeggio(c), t, Walk(t)}
  BY DEF TurnOrRestart, t, turned
<1> QED
  BY <1>3, <1>4, <1>5, StartArpeggioClock

LEMMA StepArpeggioClock ==
  ASSUME NEW c, HasClock(c), NEW d \in StepArpeggio(c) PROVE SameClock(c, d)
<1>1. CASE c.direction = "RANDOM"
  <2>1. PICK w \in (0..(c.keys - 1)) \X (0..(c.octaves - 1)) :
          d = [c EXCEPT !.arpStep = w[1], !.arpOct = w[2]]
    BY <1>1 DEF StepArpeggio
  <2> QED
    BY <2>1 DEF HasClock, SameClock
<1>2. CASE c.direction # "RANDOM"
  <2>1. d \in {TurnOrRestart(Walk(c)), Walk(c)}
    BY <1>2 DEF StepArpeggio
  <2>2. SameClock(c, Walk(c)) /\ HasClock(Walk(c))
    BY WalkClock DEF SameClock, HasClock
  <2> QED
    BY <2>1, <2>2, TurnClock, SameClockTrans
<1> QED
  BY <1>1, <1>2

\* A step of the part moves the bit of the pattern by one, whatever it plays.
LEMMA ClockArpeggiatorClock ==
  ASSUME NEW c, HasClock(c), NEW d \in ClockArpeggiator(c)
  PROVE  /\ DOMAIN d = DOMAIN c /\ d.prescaler = c.prescaler /\ d.counter = c.counter
         /\ d.bit = (c.bit + 1) % PatternBits
<1> DEFINE plays == HasArpeggio(c) /\ c.keys > 0 /\ c.bit \in c.pattern
           g     == [c EXCEPT !.gate = plays, !.bit = (@ + 1) % PatternBits]
<1>1. /\ DOMAIN g = DOMAIN c /\ g.prescaler = c.prescaler /\ g.counter = c.counter
      /\ g.bit = (c.bit + 1) % PatternBits
  <2> HIDE DEF plays
  <2> QED
    BY DEF HasClock
<1>2. d = g \/ d \in StepArpeggio(g)
  BY DEF ClockArpeggiator
<1> HIDE DEF g
<1>3. HasClock(g)
  BY <1>1 DEF HasClock
<1> QED
  BY <1>1, <1>2, <1>3, StepArpeggioClock DEF SameClock

LEMMA ClockSequencerClock ==
  ASSUME NEW c, HasClock(c), NEW sizes, NEW d \in ClockSequencer(c, sizes) PROVE SameClock(c, d)
<1>1. PICK q \in IF c.mode = "CHORD" THEN StepChord(c, sizes) ELSE {c} :
        d = [q EXCEPT !.seqStep =
               IF @ + 1 >= c.length \/ (c.mode = "CHORD" /\ @ + 1 >= SequenceSteps)
               THEN 0 ELSE @ + 1]
  BY DEF ClockSequencer
<1>2. SameClock(c, q)
  <2>1. CASE q = c
    BY <2>1 DEF SameClock
  <2>2. CASE q \in StepChord(c, sizes)
    BY <2>2 DEF StepChord, HasClock, SameClock
  <2> QED
    BY <1>1, <2>1, <2>2
<1>3. SameClock(q, d)
  BY <1>1, <1>2 DEF HasClock, SameClock
<1> QED
  BY <1>2, <1>3, SameClockTrans

LEMMA LfosClock ==
  ASSUME NEW c, HasClock(c) PROVE SameClock(c, ClockLfos(c)) /\ SameClock(c, UpdateLfos(c))
  BY DEF HasClock, SameClock, ClockLfos, UpdateLfos

\* What a clock makes of the counter and of the bit depends on nothing else.
NextCounter(c) == IF c.counter + 1 < c.prescaler THEN c.counter + 1 ELSE 0
NextBit(c)     == IF c.counter + 1 < c.prescaler THEN c.bit ELSE (c.bit + 1) % PatternBits

LEMMA ClockPartClock ==
  ASSUME NEW c, HasClock(c), NEW sizes, NEW d \in ClockPart(c, sizes)
  PROVE  /\ DOMAIN d = DOMAIN c /\ d.prescaler = c.prescaler
         /\ d.counter = NextCounter(c) /\ d.bit = NextBit(c)
<1>1. CASE c.counter + 1 < c.prescaler
  <2> DEFINE e == [c EXCEPT !.counter = @ + 1]
  <2>1. d = ClockLfos(e)
    BY <1>1 DEF ClockPart
  <2>2. /\ DOMAIN e = DOMAIN c /\ e.prescaler = c.prescaler
        /\ e.counter = c.counter + 1 /\ e.bit = c.bit
    BY DEF HasClock
  <2> HIDE DEF e
  <2>3. HasClock(e)
    BY <2>2 DEF HasClock
  <2> QED
    BY <1>1, <2>1, <2>2, <2>3, LfosClock DEF SameClock, NextCounter, NextBit
<1>2. CASE ~(c.counter + 1 < c.prescaler)
  <2> DEFINE e == [c EXCEPT !.counter = 0]
  <2>1. PICK q \in ClockSequencer(e, sizes) : \E r \in ClockArpeggiator(q) : d = ClockLfos(r)
    BY <1>2 DEF ClockPart
  <2>2. /\ DOMAIN e = DOMAIN c /\ e.prescaler = c.prescaler
        /\ e.counter = 0 /\ e.bit = c.bit
    BY DEF HasClock
  <2> HIDE DEF e
  <2>3. HasClock(e) /\ SameClock(e, q) /\ HasClock(q)
    BY <2>1, <2>2, ClockSequencerClock DEF HasClock, SameClock
  <2>4. PICK r \in ClockArpeggiator(q) : d = ClockLfos(r)
    BY <2>1
  <2>5. /\ DOMAIN r = DOMAIN q /\ r.prescaler = q.prescaler /\ r.counter = q.counter
        /\ r.bit = (q.bit + 1) % PatternBits
    BY <2>3, <2>4, ClockArpeggiatorClock
  <2>6. SameClock(r, d)
    BY <2>3, <2>4, <2>5, LfosClock DEF HasClock
  <2> QED
    BY <1>2, <2>2, <2>3, <2>5, <2>6 DEF SameClock, NextCounter, NextBit
<1> QED
  BY <1>1, <1>2

LEMMA StartPartClock ==
  ASSUME NEW c, HasClock(c)
  PROVE  LET d == StartPart(c)
         IN  /\ DOMAIN d = DOMAIN c /\ d.prescaler = c.prescaler
             /\ d.counter = c.prescaler /\ d.bit = 0
<1> DEFINE sign == SignOf(c.direction)
           e == [c EXCEPT !.seqStep = 0, !.counter = c.prescaler, !.chord = 0,
                          !.bit = 0, !.arpDir = sign, !.seen = c.mode]
<1>1. StartPart(c) = StartArpeggio(e)
  BY DEF StartPart
<1> HIDE DEF sign
<1>2. /\ DOMAIN e = DOMAIN c /\ e.prescaler = c.prescaler
      /\ e.counter = c.prescaler /\ e.bit = 0
  BY DEF HasClock
<1> HIDE DEF e
<1>3. SameClock(e, StartArpeggio(e))
  BY <1>2, StartArpeggioClock DEF HasClock
<1> QED
  BY <1>1, <1>2, <1>3 DEF SameClock

-----------------------------------------------------------------------------
\* The parts of a setup that gives them one resolution count alike.
Alike(ps) ==
  \A i, j \in DOMAIN ps : ps[i].counter = ps[j].counter /\ ps[i].bit = ps[j].bit

PartsInv ==
  /\ setup \in Setups
  /\ \A i \in Parts : HasClock(part[i]) /\ part[i].prescaler \in setup.resolutions
  /\ OneResolution => Alike(part)

\* A step that leaves the clocks of the parts alone.
LEMMA SameClocksKeepInv ==
  ASSUME PartsInv, setup' = setup, DOMAIN part' = DOMAIN part,
         \A i \in Parts : SameClock(part[i], part'[i])
  PROVE  PartsInv'
  BY DEF PartsInv, Parts, HasClock, SameClock, Alike, OneResolution

\* With one resolution the divider is the same for all.
LEMMA OnePrescaler ==
  ASSUME PartsInv, OneResolution
  PROVE  \A i, j \in Parts : part[i].prescaler = part[j].prescaler
  BY DEF PartsInv, OneResolution

LEMMA SyncedParts ==
  ASSUME PartsInv
  PROVE  /\ DOMAIN SyncPartClocks = Parts
         /\ \A i \in Parts : /\ HasClock(SyncPartClocks[i])
                             /\ SyncPartClocks[i].prescaler = part[i].prescaler
         /\ OneResolution =>
              Alike(SyncPartClocks)
<1>1. CASE SyncPartClocks = part
  BY <1>1 DEF PartsInv, Parts
<1>2. CASE SyncPartClocks = [i \in Parts |-> StartPart(part[i])]
  <2>1. \A i \in Parts : LET d == SyncPartClocks[i]
                         IN  /\ DOMAIN d = DOMAIN part[i] /\ d.prescaler = part[i].prescaler
                             /\ d.counter = part[i].prescaler /\ d.bit = 0
    BY <1>2, StartPartClock DEF PartsInv
  <2>2. DOMAIN SyncPartClocks = Parts
    BY <1>2
  <2> QED
    BY <2>1, <2>2, OnePrescaler DEF PartsInv, HasClock, Alike
<1> QED
  BY <1>1, <1>2 DEF SyncPartClocks

\* A clock counts in all the parts or in none.
LEMMA ClockMultiKeepsInv ==
  ASSUME PartsInv, ClockMulti, setup' = setup PROVE PartsInv'
<1>1. CASE ~running
  BY <1>1, SameClocksKeepInv DEF ClockMulti, SameClock
<1>2. CASE running
  <2>1. PICK ps \in [Parts -> UNION {ClockPart(SyncPartClocks[i], Blocks) : i \in Parts}] :
          /\ \A i \in Parts : ps[i] \in ClockPart(SyncPartClocks[i], Blocks)
          /\ part' = [i \in Parts |-> StopPart(ps[i])] \/ part' = ps
    BY <1>2 DEF ClockMulti
  <2>2. \A i \in Parts : /\ HasClock(ps[i])
                         /\ ps[i].prescaler = part[i].prescaler
                         /\ ps[i].counter = NextCounter(SyncPartClocks[i])
                         /\ ps[i].bit = NextBit(SyncPartClocks[i])
    BY <2>1, SyncedParts, ClockPartClock DEF HasClock
  <2>3. DOMAIN ps = Parts
    BY <2>1
  <2>4. OneResolution => Alike(ps)
    <3>1. SUFFICES ASSUME OneResolution PROVE Alike(ps)
      OBVIOUS
    <3>2. /\ Alike(SyncPartClocks) /\ DOMAIN SyncPartClocks = Parts
          /\ \A i, j \in Parts : SyncPartClocks[i].prescaler = SyncPartClocks[j].prescaler
      BY <3>1, SyncedParts, OnePrescaler
    <3> QED
      BY <2>2, <2>3, <3>2 DEF Alike, NextCounter, NextBit
  <2>5. /\ DOMAIN part' = Parts
        /\ \A i \in Parts : SameClock(ps[i], part'[i])
    BY <2>1, <2>2, <2>3 DEF SameClock, StopPart, HasClock
  <2> QED
    BY <2>2, <2>3, <2>4, <2>5 DEF PartsInv, Parts, HasClock, SameClock, Alike, OneResolution
<1> QED
  BY <1>1, <1>2

\* So does a start.
LEMMA StartKeepsInv ==
  ASSUME PartsInv, setup' = setup, DOMAIN part' = Parts,
         \A i \in Parts : SameClock(StartPart(part[i]), part'[i])
  PROVE  PartsInv'
<1>1. \A i \in Parts : LET d == part'[i]
                       IN  /\ DOMAIN d = DOMAIN part[i] /\ d.prescaler = part[i].prescaler
                           /\ d.counter = part[i].prescaler /\ d.bit = 0
  BY StartPartClock DEF PartsInv, SameClock
<1> QED
  BY <1>1, OnePrescaler DEF PartsInv, Parts, HasClock, Alike, OneResolution

LEMMA InitParts == Init => PartsInv
<1> SUFFICES ASSUME Init PROVE PartsInv
  OBVIOUS
<1>1. PICK r \in setup.resolutions, m \in setup.modes, d \in setup.directions,
           o \in setup.octaves, n \in setup.lengths, b \in setup.patterns, y \in setup.synced :
        part = [i \in setup.parts |->
          StartPart([prescaler |-> r, counter |-> 0, mode |-> m, seen |-> m, length |-> n,
                     seqStep |-> 0, chord |-> 0, keys |-> 0, direction |-> d,
                     octaves |-> o, arpDir |-> 1, arpStep |-> 0, arpOct |-> 0, bit |-> 0,
                     pattern |-> b, gate |-> FALSE, synced |-> y, fresh |-> FALSE,
                     unset |-> FALSE])]
  BY Zenon DEF Init
<1> DEFINE c == [prescaler |-> r, counter |-> 0, mode |-> m, seen |-> m, length |-> n,
                 seqStep |-> 0, chord |-> 0, keys |-> 0, direction |-> d,
                 octaves |-> o, arpDir |-> 1, arpStep |-> 0, arpOct |-> 0, bit |-> 0,
                 pattern |-> b, gate |-> FALSE, synced |-> y, fresh |-> FALSE,
                 unset |-> FALSE]
<1>2. HasClock(c) /\ c.prescaler = r
  BY DEF HasClock
<1>3. Parts = setup.parts /\ \A i \in Parts : part[i] = StartPart(c)
  BY <1>1 DEF Parts
<1> HIDE DEF c
<1>4. HasClock(StartPart(c)) /\ StartPart(c).prescaler = r
  BY <1>2, StartPartClock DEF HasClock
<1>5. setup \in Setups
  BY DEF Init
<1> QED
  BY <1>3, <1>4, <1>5 DEF PartsInv, Parts, Alike

\* A step inside part i, which a load or an edit may give another divider.
LEMMA EditKeepsInv ==
  ASSUME PartsInv, setup' = setup, NEW i \in Parts, NEW d, part' = [part EXCEPT ![i] = d],
         HasClock(d), d.prescaler \in setup.resolutions,
         d.counter = part[i].counter, d.bit = part[i].bit
  PROVE  PartsInv'
<1>1. DOMAIN part' = Parts /\ \A j \in Parts : part'[j] = IF j = i THEN d ELSE part[j]
  BY DEF Parts
<1> QED
  BY <1>1 DEF PartsInv, Parts, Alike, OneResolution

LEMMA EditClock ==
  ASSUME NEW c, HasClock(c), NEW x
  PROVE  /\ SameClock(c, EditMode(c, x)) /\ SameClock(c, EditLength(c, x))
         /\ SameClock(c, EditOctaves(c, x)) /\ SameClock(c, EditDirection(c, x))
         /\ SameClock(c, MoreKeys(c)) /\ SameClock(c, [c EXCEPT !.keys = x])
         /\ HasClock(EditResolution(c, x)) /\ EditResolution(c, x).prescaler = x
         /\ EditResolution(c, x).counter = c.counter /\ EditResolution(c, x).bit = c.bit
<1> DEFINE s == SignOf(x)
           e == [c EXCEPT !.direction = x, !.arpDir = s]
<1>1. EditDirection(c, x) = StartArpeggio(e)
  BY DEF EditDirection
<1> HIDE DEF s
<1>2. SameClock(c, e) /\ HasClock(e)
  BY DEF HasClock, SameClock
<1> HIDE DEF e
<1>3. SameClock(c, EditDirection(c, x))
  BY <1>1, <1>2, StartArpeggioClock, SameClockTrans
<1> QED
  BY <1>3 DEF HasClock, SameClock, EditMode, EditLength, EditOctaves, MoreKeys, EditResolution

LEMMA NextParts == PartsInv /\ [Next]_vars => PartsInv'
<1> SUFFICES ASSUME PartsInv, [Next]_vars PROVE PartsInv'
  OBVIOUS
<1>0. \A i \in Parts : HasClock(part[i]) /\ part[i].prescaler \in setup.resolutions
  BY DEF PartsInv
<1>1. ASSUME UNCHANGED <<part, setup>> PROVE PartsInv'
  BY <1>1, SameClocksKeepInv DEF SameClock, Parts
<1>2. CASE \/ Tick \/ ClearEvents \/ DropEvents \/ EditTempo \/ EditRelease
           \/ UNCHANGED vars
  BY <1>1, <1>2 DEF Tick, ClearEvents, DropEvents, EditTempo, EditRelease, Serving, vars
<1>3. CASE LockEvents
  <2>1. part' = [i \in Parts |-> UpdateLfos(part[i])] \/ part' = part
    BY <1>3 DEF LockEvents
  <2>2. setup' = setup
    BY <1>3 DEF LockEvents
  <2>3. CASE part' = [i \in Parts |-> UpdateLfos(part[i])]
    BY <1>0, <2>2, <2>3, LfosClock, SameClocksKeepInv DEF Parts
  <2> QED
    BY <1>1, <2>1, <2>2, <2>3
<1>4. CASE WorkOff \/ ReceiveClock
  BY <1>4, ClockMultiKeepsInv DEF WorkOff, ReceiveClock, Serving
<1>5. CASE ReceiveStart
  <2>1. part' = [i \in Parts |-> StartPart(part[i])] /\ setup' = setup
    BY <1>5 DEF ReceiveStart, StartMulti, Serving
  <2> QED
    BY <2>1, StartKeepsInv DEF SameClock, Parts
<1>6. CASE ReceiveStop
  <2>1. part' = [i \in Parts |-> StopPart(part[i])] /\ setup' = setup
    BY <1>6 DEF ReceiveStop, Serving
  <2>2. \A i \in Parts : SameClock(part[i], StopPart(part[i]))
    BY <1>0 DEF HasClock, SameClock, StopPart
  <2> QED
    BY <2>1, <2>2, SameClocksKeepInv DEF Parts
<1>7. ASSUME NEW i \in Parts, PressKey(i) PROVE PartsInv'
  <2>1. setup' = setup
    BY <1>7 DEF PressKey, Serving
  <2>2. CASE running
    <3>1. part' = [part EXCEPT ![i] = MoreKeys(part[i])]
      BY <1>7, <2>2 DEF PressKey
    <3>2. SameClock(part[i], MoreKeys(part[i]))
      BY <1>0, EditClock
    <3> QED
      BY <1>0, <2>1, <3>1, <3>2, EditKeepsInv DEF SameClock, HasClock
  <2>3. CASE ~running
    <3>1. part' = [j \in Parts |-> IF j = i THEN MoreKeys(StartPart(part[j]))
                                  ELSE StartPart(part[j])]
      BY <1>7, <2>3 DEF PressKey
    <3>2. \A j \in Parts : HasClock(StartPart(part[j]))
      BY <1>0, StartPartClock DEF HasClock
    <3>3. \A j \in Parts : SameClock(StartPart(part[j]), MoreKeys(StartPart(part[j])))
      BY <3>2, EditClock
    <3> QED
      BY <2>1, <3>1, <3>3, StartKeepsInv DEF SameClock, Parts
  <2> QED
    BY <2>2, <2>3
<1>8. ASSUME NEW i \in Parts, ReleaseKey(i) PROVE PartsInv'
  <2> DEFINE d == [part[i] EXCEPT !.keys = part[i].keys - 1]
  <2>1. setup' = setup /\ part' = [part EXCEPT ![i] = d]
    BY <1>8 DEF ReleaseKey, Serving
  <2>2. SameClock(part[i], d)
    BY <1>0, EditClock
  <2> HIDE DEF d
  <2> QED
    BY <1>0, <2>1, <2>2, EditKeepsInv DEF SameClock, HasClock
<1>9. ASSUME NEW i \in Parts, EditPart(i) PROVE PartsInv'
  <2>1. setup' = setup
    BY <1>9 DEF EditPart, Serving
  <2>2. PICK x : \/ x \in setup.resolutions /\ part' = [part EXCEPT ![i] = EditResolution(part[i], x)]
                 \/ part' = [part EXCEPT ![i] = EditMode(part[i], x)]
                 \/ part' = [part EXCEPT ![i] = EditLength(part[i], x)]
                 \/ part' = [part EXCEPT ![i] = EditOctaves(part[i], x)]
                 \/ part' = [part EXCEPT ![i] = EditDirection(part[i], x)]
    BY <1>9 DEF EditPart
  <2> QED
    BY <1>0, <2>1, <2>2, EditClock, EditKeepsInv DEF SameClock, HasClock
<1>10. ASSUME NEW i \in Parts, LoadProgram(i) PROVE PartsInv'
  <2>1. setup' = setup
    BY <1>10 DEF LoadProgram, Serving
  <2>2. PICK r \in setup.resolutions, m \in setup.modes, n \in setup.lengths,
             o \in setup.octaves, x \in setup.directions :
          part' = [part EXCEPT ![i] = Reloaded(part[i], r, m, n, o, x)]
    BY <1>10 DEF LoadProgram
  <2>3. /\ HasClock(Reloaded(part[i], r, m, n, o, x))
        /\ Reloaded(part[i], r, m, n, o, x).prescaler = r
        /\ Reloaded(part[i], r, m, n, o, x).counter = part[i].counter
        /\ Reloaded(part[i], r, m, n, o, x).bit = part[i].bit
    BY <1>0 DEF HasClock, Reloaded
  <2> QED
    BY <2>1, <2>2, <2>3, EditKeepsInv
<1> QED
  BY <1>2, <1>3, <1>4, <1>5, <1>6, <1>7, <1>8, <1>9, <1>10 DEF Next, MainLoop

\* For any parts, settings and edits: parts with one resolution never drift apart
\* (SyncPartClocks, multi.cc:130, and Part::Clock, part.cc:609).
THEOREM PartsNeverDriftApart == Spec => []PartsStepTogether
<1>1. PartsInv => PartsStepTogether
  BY DEF PartsInv, PartsStepTogether, Alike, Parts
<1> QED
  BY <1>1, InitParts, NextParts, PTL DEF Spec
-----------------------------------------------------------------------------
(* The walk of the arpeggiator and the counter of the chord sequence.      *)

Fields == {"prescaler", "counter", "mode", "seen", "length", "seqStep", "chord", "keys",
           "direction", "octaves", "arpDir", "arpStep", "arpOct", "bit", "gate", "fresh",
           "unset"}

\* A walk that is between two steps, O being the numbers of octaves that are ever set.
CountsOK(c, O) ==
  /\ Fields \subseteq DOMAIN c
  /\ c.prescaler \in Nat /\ c.counter \in Nat /\ c.length \in Nat /\ c.chord \in Nat
  /\ c.keys \in Nat /\ c.octaves \in O
  /\ c.arpDir \in {-1, 1} /\ c.arpStep \in Int
  /\ c.arpOct \in Nat /\ \E o \in O : c.arpOct < o

\* Right after a step of the part.
PlaysInRange(c, O) ==
  c.gate /\ c.direction # "CHORD" =>
    /\ c.arpStep \in 0..(c.keys - 1)
    /\ c.arpOct >= 0 /\ \E o \in O : c.arpOct < o

ChordInRange(c) == c.mode = "CHORD" /\ c.length # 0 => c.chord < NumBlocks * c.length

StepOK(c, O) == PlaysInRange(c, O) /\ ChordInRange(c)

\* A step that changes only where the walk is.
OnlyWalks(c, d) ==
  /\ DOMAIN d = DOMAIN c
  /\ d.prescaler = c.prescaler /\ d.counter = c.counter /\ d.mode = c.mode
  /\ d.length = c.length /\ d.chord = c.chord /\ d.keys = c.keys
  /\ d.direction = c.direction /\ d.octaves = c.octaves /\ d.gate = c.gate

\* The fields that a start and a move of the walk write.
LEMMA StartFields ==
  ASSUME NEW c, Fields \subseteq DOMAIN c
  PROVE  LET d == StartArpeggio(c)
         IN  /\ OnlyWalks(c, d) /\ d.arpDir = c.arpDir
             /\ d.arpStep = IF c.arpDir = 1 THEN 0 ELSE c.keys - 1
             /\ d.arpOct = IF c.arpDir = 1 THEN 0 ELSE c.octaves - 1
BY DEF Fields, OnlyWalks, StartArpeggio

LEMMA WalkFields ==
  ASSUME NEW c, Fields \subseteq DOMAIN c
  PROVE  LET d == Walk(c)
             s == c.arpStep + c.arpDir
         IN  /\ OnlyWalks(c, d) /\ d.arpDir = c.arpDir
             /\ d.arpStep = IF s >= c.keys THEN 0 ELSE IF s < 0 THEN c.keys - 1 ELSE s
             /\ d.arpOct = IF Leaves(c) THEN c.arpOct + c.arpDir ELSE c.arpOct
BY DEF Fields, OnlyWalks, Walk

LEMMA TurnFields ==
  ASSUME NEW c, Fields \subseteq DOMAIN c
  PROVE  LET d == [c EXCEPT !.arpDir = -@]
         IN  OnlyWalks(c, d) /\ d.arpDir = -c.arpDir
BY DEF Fields, OnlyWalks

\* A start is in range.
LEMMA StartInRange ==
  ASSUME NEW O \in SUBSET (Nat \ {0}), NEW c, Fields \subseteq DOMAIN c,
         c.keys \in Nat, c.octaves \in O, c.arpDir \in {-1, 1}
  PROVE  LET d == StartArpeggio(c)
         IN  /\ OnlyWalks(c, d) /\ d.arpDir = c.arpDir
             /\ d.arpStep \in Int /\ d.arpOct \in 0..(c.octaves - 1)
             /\ c.keys > 0 => d.arpStep \in 0..(c.keys - 1)
             /\ c.arpDir = 1 => d.arpStep = 0 /\ d.arpOct = 0
             /\ c.arpDir = -1 => d.arpStep = c.keys - 1 /\ d.arpOct = c.octaves - 1
<1> DEFINE d == StartArpeggio(c)
<1>1. /\ OnlyWalks(c, d) /\ d.arpDir = c.arpDir
      /\ d.arpStep = IF c.arpDir = 1 THEN 0 ELSE c.keys - 1
      /\ d.arpOct = IF c.arpDir = 1 THEN 0 ELSE c.octaves - 1
  BY StartFields
<1> HIDE DEF d
<1>2. c.octaves \in Nat /\ c.octaves > 0
  <2>1. \A o \in O : o \in Nat /\ o > 0
    OBVIOUS
  <2> QED
    BY <2>1
<1>3. d.arpStep \in Int /\ d.arpOct \in 0..(c.octaves - 1)
  BY <1>1, <1>2
<1>4. c.keys > 0 => d.arpStep \in 0..(c.keys - 1)
  BY <1>1
<1>5. /\ c.arpDir = 1 => d.arpStep = 0 /\ d.arpOct = 0
      /\ c.arpDir = -1 => d.arpStep = c.keys - 1 /\ d.arpOct = c.octaves - 1
  BY <1>1
<1> QED
  BY <1>1, <1>3, <1>4, <1>5 DEF d

\* Turned or started again, it is in range too, where the walk that turns leaves out
\* the first key.
LEMMA TurnInRange ==
  ASSUME NEW O \in SUBSET (Nat \ {0}), NEW c, Fields \subseteq DOMAIN c,
         c.keys \in Nat, c.keys > 0, c.octaves \in O, c.arpDir \in {-1, 1}
  PROVE  LET d == TurnOrRestart(c)
         IN  /\ OnlyWalks(c, d) /\ d.arpDir \in {-1, 1}
             /\ d.arpStep \in 0..(c.keys - 1) /\ d.arpOct \in 0..(c.octaves - 1)
<1>1. CASE c.direction # "UP_DOWN"
  BY <1>1, StartInRange DEF TurnOrRestart
<1>2. CASE c.direction = "UP_DOWN"
  <2> DEFINE b == [c EXCEPT !.arpDir = -@]
             t == StartArpeggio(b)
             w == Walk(t)
  <2>1. TurnOrRestart(c) = IF c.keys > 1 \/ c.octaves > 1 THEN w ELSE t
    <3>1. t.keys = c.keys /\ t.octaves = c.octaves
      BY TurnFields, StartFields DEF OnlyWalks
    <3> QED
      BY <1>2 DEF TurnOrRestart
  <2>2. OnlyWalks(c, b) /\ b.arpDir = -c.arpDir
    BY TurnFields
  <2> HIDE DEF b
  <2>3. /\ Fields \subseteq DOMAIN b /\ b.keys = c.keys /\ b.octaves = c.octaves
        /\ b.arpDir \in {-1, 1}
    BY <2>2 DEF OnlyWalks
  <2>4. /\ OnlyWalks(b, t) /\ t.arpDir = b.arpDir
        /\ t.arpStep \in 0..(b.keys - 1) /\ t.arpOct \in 0..(b.octaves - 1)
        /\ b.arpDir = 1 => t.arpStep = 0 /\ t.arpOct = 0
        /\ b.arpDir = -1 => t.arpStep = b.keys - 1 /\ t.arpOct = b.octaves - 1
    BY <2>3, StartInRange
  <2> HIDE DEF t
  <2>5. /\ Fields \subseteq DOMAIN t /\ t.keys = c.keys /\ t.octaves = c.octaves
        /\ t.arpDir = b.arpDir /\ OnlyWalks(c, t)
    BY <2>2, <2>3, <2>4 DEF OnlyWalks
  <2> DEFINE s == t.arpStep + t.arpDir
  <2>6. /\ OnlyWalks(t, w) /\ w.arpDir = t.arpDir
        /\ w.arpStep = IF s >= t.keys THEN 0 ELSE IF s < 0 THEN t.keys - 1 ELSE s
        /\ w.arpOct = IF s \notin 0..(t.keys - 1) THEN t.arpOct + t.arpDir ELSE t.arpOct
    BY <2>5, WalkFields DEF Leaves
  <2> HIDE DEF w
  <2>7. OnlyWalks(c, w)
    BY <2>5, <2>6 DEF OnlyWalks
  <2>8. ASSUME c.keys > 1 \/ c.octaves > 1
        PROVE  w.arpStep \in 0..(c.keys - 1) /\ w.arpOct \in 0..(c.octaves - 1)
    <3>0. c.octaves \in Nat /\ c.octaves > 0
      <4>1. \A o \in O : o \in Nat /\ o > 0
        OBVIOUS
      <4> QED
        BY <4>1
    <3>1. CASE b.arpDir = 1
      <4>1. s = 1 /\ t.arpOct = 0
        BY <2>4, <2>5, <3>1
      <4> HIDE DEF s
      <4> QED
        BY <2>5, <2>6, <2>8, <3>0, <3>1, <4>1
    <3>2. CASE b.arpDir = -1
      <4>1. s = c.keys - 2 /\ t.arpOct = c.octaves - 1
        BY <2>3, <2>4, <2>5, <3>2
      <4> HIDE DEF s
      <4> QED
        BY <2>5, <2>6, <2>8, <3>0, <3>2, <4>1
    <3> QED
      BY <2>3, <3>1, <3>2
  <2>9. t.arpStep \in 0..(c.keys - 1) /\ t.arpOct \in 0..(c.octaves - 1)
    BY <2>3, <2>4
  <2> QED
    BY <2>1, <2>3, <2>4, <2>5, <2>6, <2>7, <2>8, <2>9
<1> QED
  BY <1>1, <1>2

\* A step of the arpeggiator plays a key that is down, in an octave that was once set.
LEMMA StepInRange ==
  ASSUME NEW O \in SUBSET (Nat \ {0}), NEW c, CountsOK(c, O), c.keys > 0,
         NEW d \in StepArpeggio(c)
  PROVE  /\ OnlyWalks(c, d) /\ d.arpDir \in {-1, 1}
         /\ d.arpStep \in 0..(c.keys - 1)
         /\ d.arpOct \in Nat /\ \E o \in O : d.arpOct < o
<1>0. /\ Fields \subseteq DOMAIN c /\ c.keys \in Nat /\ c.octaves \in O /\ c.arpDir \in {-1, 1}
      /\ c.arpStep \in Int /\ c.arpOct \in Nat /\ \E o \in O : c.arpOct < o
      /\ c.octaves \in Nat
  BY DEF CountsOK
<1>1. ASSUME NEW x \in 0..(c.octaves - 1) PROVE x \in Nat /\ \E o \in O : x < o
  BY <1>0
<1>2. CASE c.direction = "RANDOM"
  <2>1. PICK x \in 0..(c.keys - 1), y \in 0..(c.octaves - 1) :
          d = [c EXCEPT !.arpStep = x, !.arpOct = y]
    BY <1>2 DEF StepArpeggio
  <2>2. OnlyWalks(c, d) /\ d.arpDir = c.arpDir /\ d.arpStep = x /\ d.arpOct = y
    BY <1>0, <2>1 DEF Fields, OnlyWalks
  <2> QED
    BY <1>0, <1>1, <2>1, <2>2
<1>3. CASE c.direction # "RANDOM"
  <2> DEFINE w == Walk(c)
             s == c.arpStep + c.arpDir
  <2>1. d = IF Leaves(c) /\ w.arpOct \notin 0..(c.octaves - 1) THEN TurnOrRestart(w) ELSE w
    BY <1>3 DEF StepArpeggio
  <2>2. /\ OnlyWalks(c, w) /\ w.arpDir = c.arpDir
        /\ w.arpStep = IF s >= c.keys THEN 0 ELSE IF s < 0 THEN c.keys - 1 ELSE s
        /\ w.arpOct = IF Leaves(c) THEN c.arpOct + c.arpDir ELSE c.arpOct
    BY <1>0, WalkFields
  <2> HIDE DEF w
  <2>3. w.arpStep \in 0..(c.keys - 1)
    BY <1>0, <2>2
  <2>4. CASE ~Leaves(c)
    BY <1>0, <2>1, <2>2, <2>3, <2>4
  <2>5. CASE Leaves(c) /\ w.arpOct \in 0..(c.octaves - 1)
    BY <1>0, <1>1, <2>1, <2>2, <2>3, <2>5
  <2>6. CASE Leaves(c) /\ w.arpOct \notin 0..(c.octaves - 1)
    <3>1. /\ Fields \subseteq DOMAIN w /\ w.keys = c.keys /\ w.octaves = c.octaves
          /\ w.arpDir \in {-1, 1}
      BY <1>0, <2>2 DEF OnlyWalks
    <3>2. /\ OnlyWalks(w, d) /\ d.arpDir \in {-1, 1}
          /\ d.arpStep \in 0..(c.keys - 1) /\ d.arpOct \in 0..(c.octaves - 1)
      BY <1>0, <2>1, <2>6, <3>1, TurnInRange
    <3>3. OnlyWalks(c, d)
      BY <2>2, <3>2 DEF OnlyWalks
    <3> QED
      BY <1>1, <3>2, <3>3
  <2> QED
    BY <2>4, <2>5, <2>6
<1> QED
  BY <1>2, <1>3

-----------------------------------------------------------------------------
\* The blocks of the chord sequence and the byte that counts them.
LEMMA SomeBlocks == NumBlocks \in Nat /\ NumBlocks >= 1
<1>1. ASSUME NEW a \in Nat \ {0}, NEW b \in Nat \ {0}, a % b = 0
      PROVE  a \div b \in Nat /\ a \div b >= 1
  BY <1>1
<1> QED
  BY <1>1, SequencerAssumption DEF NumBlocks

\* A counter that wraps around does not grow.
LEMMA Wrapped ==
  ASSUME NEW a \in Nat, NEW b \in Nat \ {0} PROVE a % b \in Nat /\ a % b <= a
<1>1. a % b \in 0..(b - 1)
  OBVIOUS
<1>2. CASE a < b
  BY <1>1, <1>2
<1>3. CASE a >= b
  BY <1>1, <1>3
<1> QED
  BY <1>2, <1>3

-----------------------------------------------------------------------------
\* The arpeggiator's clock.
LEMMA ArpeggiatorInRange ==
  ASSUME NEW O \in SUBSET (Nat \ {0}), NEW c, CountsOK(c, O), NEW d \in ClockArpeggiator(c)
  PROVE  /\ CountsOK(d, O) /\ d.counter = c.counter
         /\ d.mode = c.mode /\ d.length = c.length /\ d.chord = c.chord
         /\ PlaysInRange(d, O)
<1> DEFINE plays == HasArpeggio(c) /\ c.keys > 0 /\ c.bit \in c.pattern
           g     == [c EXCEPT !.gate = plays, !.bit = (@ + 1) % PatternBits]
<1>1. /\ DOMAIN g = DOMAIN c /\ g.gate = plays
      /\ g.prescaler = c.prescaler /\ g.counter = c.counter /\ g.mode = c.mode
      /\ g.length = c.length /\ g.chord = c.chord /\ g.keys = c.keys
      /\ g.direction = c.direction /\ g.octaves = c.octaves
      /\ g.arpDir = c.arpDir /\ g.arpStep = c.arpStep /\ g.arpOct = c.arpOct
  <2> HIDE DEF plays
  <2> QED
    BY DEF CountsOK, Fields
<1>2. /\ d = g \/ d \in StepArpeggio(g)
      /\ g.gate /\ g.direction # "CHORD" => d \in StepArpeggio(g)
      /\ ~(g.gate /\ g.direction # "CHORD") => d = g
  BY DEF ClockArpeggiator
<1>3. plays => c.keys > 0
  OBVIOUS
<1> HIDE DEF g, plays
<1>4. CountsOK(g, O)
  BY <1>1 DEF CountsOK
<1>5. CASE g.gate /\ g.direction # "CHORD"
  <2>1. /\ OnlyWalks(g, d) /\ d.arpDir \in {-1, 1}
        /\ d.arpStep \in 0..(g.keys - 1)
        /\ d.arpOct \in Nat /\ \E o \in O : d.arpOct < o
    BY <1>1, <1>2, <1>3, <1>4, <1>5, StepInRange
  <2>2. d.arpStep \in Int /\ g.keys \in Nat
    BY <1>4, <2>1 DEF CountsOK
  <2>3. CountsOK(d, O)
    BY <1>4, <2>1, <2>2 DEF CountsOK, OnlyWalks
  <2> QED
    BY <1>1, <2>1, <2>3 DEF OnlyWalks, PlaysInRange
<1>6. CASE ~(g.gate /\ g.direction # "CHORD")
  BY <1>1, <1>2, <1>4, <1>6 DEF PlaysInRange
<1> QED
  BY <1>5, <1>6

\* The sequences' clock: the counter of the chord sequence is back in it.
LEMMA SequencerInRange ==
  ASSUME NEW O \in SUBSET (Nat \ {0}), NEW c, CountsOK(c, O), NEW d \in ClockSequencer(c, Blocks)
  PROVE  /\ CountsOK(d, O) /\ d.counter = c.counter
         /\ ChordInRange(d)
<1>0. Fields \subseteq DOMAIN c /\ c.keys \in Nat /\ c.chord \in Nat /\ c.length \in Nat
  BY DEF CountsOK
<1>1. PICK q \in IF c.mode = "CHORD" THEN StepChord(c, Blocks) ELSE {c} :
        d = [q EXCEPT !.seqStep =
               IF @ + 1 >= c.length \/ (c.mode = "CHORD" /\ @ + 1 >= SequenceSteps)
               THEN 0 ELSE @ + 1]
  BY DEF ClockSequencer
<1>2. /\ CountsOK(q, O) /\ q.counter = c.counter /\ q.mode = c.mode /\ q.length = c.length
      /\ ChordInRange(q)
  <2>1. CASE c.mode # "CHORD"
    BY <1>1, <2>1 DEF ChordInRange
  <2>2. CASE c.mode = "CHORD"
    <3> DEFINE back == c.length # 0 /\ c.chord + 1 >= NumBlocks * c.length
               x    == IF back THEN 0 ELSE (c.chord + 1) % ByteSize
    <3>1. PICK k \in IF c.length = 0 THEN {0}
                     ELSE IF c.chord % c.length = 0 THEN Blocks ELSE {c.keys} :
            q = [c EXCEPT !.keys = k, !.chord = x]
      BY <1>1, <2>2 DEF StepChord
    <3>2. k \in Nat
      BY <1>0, <3>1 DEF Blocks
    <3>3. x \in Nat /\ (c.length # 0 => x < NumBlocks * c.length)
      <4>1. c.chord + 1 \in Nat /\ ByteSize \in Nat \ {0}
        BY <1>0, SequencerAssumption
      <4>2. (c.chord + 1) % ByteSize \in Nat /\ (c.chord + 1) % ByteSize <= c.chord + 1
        BY <4>1, Wrapped
      <4>3. ASSUME NEW n \in Nat \ {0} PROVE NumBlocks * n \in Nat /\ NumBlocks * n >= 1
        <5>1. NumBlocks * 1 <= NumBlocks * n
          BY SomeBlocks, MultiplicationIsMonotone
        <5> QED
          BY <5>1, SomeBlocks
      <4>4. CASE c.length # 0
        <5> DEFINE m == NumBlocks * c.length
                   r == (c.chord + 1) % ByteSize
        <5>1. m \in Nat /\ m >= 1
          BY <1>0, <4>3, <4>4
        <5>2. r \in Nat /\ r <= c.chord + 1 /\ x = IF c.chord + 1 >= m THEN 0 ELSE r
          BY <4>2, <4>4
        <5> HIDE DEF m, r, x
        <5>3. x \in Nat /\ x < m
          BY <1>0, <5>1, <5>2
        <5> QED
          BY <5>3 DEF m
      <4>5. CASE c.length = 0
        BY <4>2, <4>5
      <4> QED
        BY <4>4, <4>5
    <3> HIDE DEF x
    <3>4. /\ DOMAIN q = DOMAIN c /\ q.keys = k /\ q.chord = x
          /\ q.prescaler = c.prescaler /\ q.counter = c.counter /\ q.mode = c.mode
          /\ q.length = c.length /\ q.octaves = c.octaves
          /\ q.arpDir = c.arpDir /\ q.arpStep = c.arpStep /\ q.arpOct = c.arpOct
      BY <1>0, <3>1 DEF Fields
    <3> QED
      BY <3>2, <3>3, <3>4 DEF CountsOK, ChordInRange
  <2> QED
    BY <2>1, <2>2
<1>3. /\ DOMAIN d = DOMAIN q /\ d.keys = q.keys /\ d.chord = q.chord
      /\ d.prescaler = q.prescaler /\ d.counter = q.counter /\ d.mode = q.mode
      /\ d.length = q.length /\ d.octaves = q.octaves
      /\ d.arpDir = q.arpDir /\ d.arpStep = q.arpStep /\ d.arpOct = q.arpOct
  <2> DEFINE y == IF \/ q.seqStep + 1 >= c.length
                     \/ c.mode = "CHORD" /\ q.seqStep + 1 >= SequenceSteps
                  THEN 0 ELSE q.seqStep + 1
  <2>1. d = [q EXCEPT !.seqStep = y]
    BY <1>1
  <2> HIDE DEF y
  <2> QED
    BY <1>2, <2>1 DEF CountsOK, Fields
<1> QED
  BY <1>2, <1>3 DEF CountsOK, ChordInRange

\* The other functions of a part.
LEMMA OthersInRange ==
  ASSUME NEW O \in SUBSET (Nat \ {0}), NEW c, CountsOK(c, O)
  PROVE  /\ CountsOK(ClockLfos(c), O) /\ (StepOK(c, O) => StepOK(ClockLfos(c), O))
         /\ ClockLfos(c).counter = c.counter
         /\ CountsOK(UpdateLfos(c), O) /\ CountsOK(StopPart(c), O) /\ CountsOK(MoreKeys(c), O)
BY DEF CountsOK, StepOK, PlaysInRange, ChordInRange, Fields, ClockLfos, UpdateLfos, StopPart,
       MoreKeys

LEMMA StartPartInRange ==
  ASSUME NEW O \in SUBSET (Nat \ {0}), NEW c, CountsOK(c, O)
  PROVE  CountsOK(StartPart(c), O)
<1> DEFINE sign == SignOf(c.direction)
           e == [c EXCEPT !.seqStep = 0, !.counter = c.prescaler, !.chord = 0,
                          !.bit = 0, !.arpDir = sign, !.seen = c.mode]
           d == StartArpeggio(e)
<1>1. StartPart(c) = d
  BY DEF StartPart
<1>2. sign \in {-1, 1}
  BY DEF SignOf
<1> HIDE DEF sign
<1>3. /\ DOMAIN e = DOMAIN c /\ e.counter = c.prescaler /\ e.prescaler = c.prescaler
      /\ e.chord = 0 /\ e.length = c.length /\ e.keys = c.keys /\ e.octaves = c.octaves
      /\ e.arpDir = sign
  BY DEF CountsOK, Fields
<1> HIDE DEF e
<1>4. Fields \subseteq DOMAIN e /\ e.keys \in Nat /\ e.octaves \in O /\ e.arpDir \in {-1, 1}
  BY <1>2, <1>3 DEF CountsOK
<1>5. /\ OnlyWalks(e, d) /\ d.arpDir = e.arpDir
      /\ d.arpStep \in Int /\ d.arpOct \in 0..(e.octaves - 1)
  BY <1>4, StartInRange
<1> HIDE DEF d
<1>6. d.arpOct \in Nat /\ \E o \in O : d.arpOct < o
  <2>1. \A o \in O : o \in Nat /\ \A x \in 0..(o - 1) : x \in Nat /\ x < o
    OBVIOUS
  <2> QED
    BY <1>4, <1>5, <2>1
<1>7. /\ Fields \subseteq DOMAIN d /\ d.counter \in Nat /\ d.prescaler \in Nat
      /\ d.chord \in Nat /\ d.length \in Nat /\ d.keys \in Nat /\ d.octaves \in O
  <2>1. c.prescaler \in Nat /\ c.length \in Nat /\ 0 \in Nat
    BY DEF CountsOK
  <2> QED
    BY <1>3, <1>4, <1>5, <2>1 DEF OnlyWalks
<1> QED
  BY <1>1, <1>4, <1>5, <1>6, <1>7 DEF CountsOK

\* A clock keeps the counts, and those of a step are in range.
LEMMA ClockPartInRange ==
  ASSUME NEW O \in SUBSET (Nat \ {0}), NEW c, CountsOK(c, O), NEW d \in ClockPart(c, Blocks)
  PROVE  CountsOK(d, O) /\ (d.counter = 0 => StepOK(d, O))
<1>1. CASE c.counter + 1 < c.prescaler
  <2> DEFINE e == [c EXCEPT !.counter = @ + 1]
  <2>1. d = ClockLfos(e)
    BY <1>1 DEF ClockPart
  <2>2. CountsOK(e, O) /\ e.counter # 0
    BY DEF CountsOK, Fields
  <2> HIDE DEF e
  <2> QED
    BY <2>1, <2>2, OthersInRange
<1>2. CASE ~(c.counter + 1 < c.prescaler)
  <2> DEFINE e == [c EXCEPT !.counter = 0]
  <2>1. PICK q \in ClockSequencer(e, Blocks) : \E r \in ClockArpeggiator(q) : d = ClockLfos(r)
    BY <1>2 DEF ClockPart
  <2>2. CountsOK(e, O)
    BY DEF CountsOK, Fields
  <2> HIDE DEF e
  <2>3. CountsOK(q, O) /\ ChordInRange(q)
    BY <2>1, <2>2, SequencerInRange
  <2>4. PICK r \in ClockArpeggiator(q) : d = ClockLfos(r)
    BY <2>1
  <2>5. /\ CountsOK(r, O)
        /\ r.mode = q.mode /\ r.length = q.length /\ r.chord = q.chord
        /\ PlaysInRange(r, O)
    BY <2>3, <2>4, ArpeggiatorInRange
  <2>6. StepOK(r, O)
    BY <2>3, <2>5 DEF StepOK, ChordInRange
  <2> QED
    BY <2>4, <2>5, <2>6, OthersInRange
<1> QED
  BY <1>1, <1>2

-----------------------------------------------------------------------------
\* Every part is between two steps.
CountsInv ==
  /\ setup \in Setups
  /\ \A i \in Parts : CountsOK(part[i], setup.octaves)

\* What a setup gives.
LEMMA SetupTyped ==
  ASSUME NEW s \in Setups
  PROVE  /\ s.octaves \in SUBSET (Nat \ {0})
         /\ s.resolutions \subseteq Nat /\ s.lengths \subseteq Nat
<1>1. s \in Setup /\ 0 \notin s.resolutions \cup s.octaves
  BY TransportAssumption
<1>2. s.octaves \in SUBSET Nat /\ s.resolutions \in SUBSET Nat /\ s.lengths \in SUBSET Nat
  BY <1>1 DEF Setup
<1> QED
  BY <1>1, <1>2

\* It holds at the start, and every step keeps it.
LEMMA InitCounts == Init => CountsInv
<1> SUFFICES ASSUME Init PROVE CountsInv
  OBVIOUS
<1>1. PICK r \in setup.resolutions, m \in setup.modes, d \in setup.directions,
           o \in setup.octaves, n \in setup.lengths, b \in setup.patterns, y \in setup.synced :
        part = [i \in setup.parts |->
          StartPart([prescaler |-> r, counter |-> 0, mode |-> m, seen |-> m, length |-> n,
                     seqStep |-> 0, chord |-> 0, keys |-> 0, direction |-> d,
                     octaves |-> o, arpDir |-> 1, arpStep |-> 0, arpOct |-> 0, bit |-> 0,
                     pattern |-> b, gate |-> FALSE, synced |-> y, fresh |-> FALSE,
                     unset |-> FALSE])]
  BY Zenon DEF Init
<1> DEFINE c == [prescaler |-> r, counter |-> 0, mode |-> m, seen |-> m, length |-> n,
                 seqStep |-> 0, chord |-> 0, keys |-> 0, direction |-> d,
                 octaves |-> o, arpDir |-> 1, arpStep |-> 0, arpOct |-> 0, bit |-> 0,
                 pattern |-> b, gate |-> FALSE, synced |-> y, fresh |-> FALSE,
                 unset |-> FALSE]
           O == setup.octaves
<1>2. setup \in Setups
  BY DEF Init
<1>3. O \in SUBSET (Nat \ {0}) /\ r \in Nat /\ n \in Nat /\ o \in O
  BY <1>2, SetupTyped
<1> HIDE DEF O
<1>4. CountsOK(c, O)
  <2>1. o \in Nat /\ 0 < o
    <3>1. \A z \in Nat \ {0} : z \in Nat /\ 0 < z
      OBVIOUS
    <3>2. o \in Nat \ {0}
      BY <1>3
    <3> QED
      BY <3>1, <3>2
  <2>2. Fields \subseteq DOMAIN c
    BY DEF Fields
  <2>3. /\ c.prescaler = r /\ c.counter = 0 /\ c.length = n /\ c.chord = 0 /\ c.keys = 0
        /\ c.octaves = o /\ c.arpDir = 1 /\ c.arpStep = 0 /\ c.arpOct = 0
    OBVIOUS
  <2> HIDE DEF c
  <2> QED
    BY <1>3, <2>1, <2>2, <2>3 DEF CountsOK
<1>5. Parts = setup.parts /\ \A i \in Parts : part[i] = StartPart(c)
  BY <1>1 DEF Parts
<1> HIDE DEF c
<1>6. CountsOK(StartPart(c), O)
  BY <1>3, <1>4, StartPartInRange
<1> QED
  BY <1>2, <1>5, <1>6 DEF CountsInv, O

\* The edits of a setting.
LEMMA EditsInRange ==
  ASSUME NEW O \in SUBSET (Nat \ {0}), NEW c, CountsOK(c, O)
  PROVE  /\ \A x \in Nat : CountsOK(EditResolution(c, x), O) /\ CountsOK(EditLength(c, x), O)
         /\ \A x : CountsOK(EditMode(c, x), O)
         /\ \A x \in O : CountsOK(EditOctaves(c, x), O)
         /\ c.keys > 0 => CountsOK([c EXCEPT !.keys = @ - 1], O)
BY DEF CountsOK, Fields, EditResolution, EditLength, EditMode, EditOctaves

LEMMA ReloadedInRange ==
  ASSUME NEW O \in SUBSET (Nat \ {0}), NEW c, CountsOK(c, O),
         NEW r \in Nat, NEW m, NEW n \in Nat, NEW o \in O, NEW x
  PROVE  CountsOK(Reloaded(c, r, m, n, o, x), O)
BY DEF CountsOK, Fields, Reloaded

LEMMA DirectionInRange ==
  ASSUME NEW O \in SUBSET (Nat \ {0}), NEW c, CountsOK(c, O), NEW x
  PROVE  CountsOK(EditDirection(c, x), O)
<1> DEFINE s == SignOf(x)
           e == [c EXCEPT !.direction = x, !.arpDir = s]
           d == StartArpeggio(e)
<1>1. EditDirection(c, x) = d
  BY DEF EditDirection
<1>2. s \in {-1, 1}
  BY DEF SignOf
<1> HIDE DEF s
<1>3. /\ DOMAIN e = DOMAIN c /\ e.counter = c.counter /\ e.prescaler = c.prescaler
      /\ e.chord = c.chord /\ e.length = c.length /\ e.keys = c.keys /\ e.octaves = c.octaves
      /\ e.arpDir = s
  BY DEF CountsOK, Fields
<1> HIDE DEF e
<1>4. Fields \subseteq DOMAIN e /\ e.keys \in Nat /\ e.octaves \in O /\ e.arpDir \in {-1, 1}
  BY <1>2, <1>3 DEF CountsOK
<1>5. /\ OnlyWalks(e, d) /\ d.arpDir = e.arpDir
      /\ d.arpStep \in Int /\ d.arpOct \in 0..(e.octaves - 1)
  BY <1>4, StartInRange
<1> HIDE DEF d
<1>6. d.arpOct \in Nat /\ \E o \in O : d.arpOct < o
  <2>1. \A o \in O : o \in Nat /\ \A z \in 0..(o - 1) : z \in Nat /\ z < o
    OBVIOUS
  <2> QED
    BY <1>4, <1>5, <2>1
<1>7. /\ Fields \subseteq DOMAIN d /\ d.counter \in Nat /\ d.prescaler \in Nat
      /\ d.chord \in Nat /\ d.length \in Nat /\ d.keys \in Nat /\ d.octaves \in O
  <2>1. c.prescaler \in Nat /\ c.length \in Nat /\ c.counter \in Nat /\ c.chord \in Nat
    BY DEF CountsOK
  <2> QED
    BY <1>3, <1>4, <1>5, <2>1 DEF OnlyWalks
<1> QED
  BY <1>1, <1>4, <1>5, <1>6, <1>7 DEF CountsOK

\* A clock of all parts.
LEMMA ClockMultiCounts ==
  ASSUME CountsInv, ClockMulti, setup' = setup
  PROVE  /\ DOMAIN part' = DOMAIN part
         /\ \A i \in Parts : CountsOK(part'[i], setup.octaves)
         /\ running /\ running' =>
              \A i \in Parts : part'[i].counter = 0 => StepOK(part'[i], setup.octaves)
<1> DEFINE O == setup.octaves
<1>1. O \in SUBSET (Nat \ {0}) /\ \A i \in Parts : CountsOK(part[i], O)
  BY SetupTyped DEF CountsInv
<1> HIDE DEF O
<1>2. CASE ~running
  BY <1>1, <1>2 DEF ClockMulti, O
<1>3. CASE running
  <2>1. PICK ps \in [Parts -> UNION {ClockPart(SyncPartClocks[i], Blocks) : i \in Parts}] :
          /\ \A i \in Parts : ps[i] \in ClockPart(SyncPartClocks[i], Blocks)
          /\ \/ part' = [i \in Parts |-> StopPart(ps[i])] /\ running' = FALSE
             \/ part' = ps
    BY <1>3 DEF ClockMulti
  <2>2. \A i \in Parts : SyncPartClocks[i] \in {part[i], StartPart(part[i])}
    BY DEF SyncPartClocks
  <2>3. \A i \in Parts : CountsOK(SyncPartClocks[i], O)
    BY <1>1, <2>2, StartPartInRange
  <2>4. \A i \in Parts : CountsOK(ps[i], O) /\ (ps[i].counter = 0 => StepOK(ps[i], O))
    BY <1>1, <2>1, <2>3, ClockPartInRange
  <2>5. \A i \in Parts : CountsOK(StopPart(ps[i]), O)
    BY <1>1, <2>4, OthersInRange
  <2> QED
    BY <2>1, <2>4, <2>5 DEF Parts, O
<1> QED
  BY <1>2, <1>3

LEMMA NextCounts == CountsInv /\ [Next]_vars => CountsInv'
<1> SUFFICES ASSUME CountsInv, [Next]_vars PROVE CountsInv'
  OBVIOUS
<1> DEFINE O == setup.octaves
           Kept == DOMAIN part' = DOMAIN part /\ \A i \in Parts : CountsOK(part'[i], O)
<1>0. /\ O \in SUBSET (Nat \ {0}) /\ \A i \in Parts : CountsOK(part[i], O)
      /\ setup.resolutions \subseteq Nat /\ setup.lengths \subseteq Nat
  BY SetupTyped DEF CountsInv
<1>1. ASSUME setup' = setup, Kept PROVE CountsInv'
  BY <1>1 DEF CountsInv, Parts
<1> HIDE DEF Kept, O
<1>2. ASSUME setup' = setup, NEW i \in Parts, NEW d, CountsOK(d, O),
             part' = [part EXCEPT ![i] = d]
      PROVE  CountsInv'
  <2>1. Kept
    BY <1>0, <1>2 DEF Kept, Parts
  <2> QED
    BY <1>1, <1>2, <2>1
<1>3. CASE \/ Tick \/ ClearEvents \/ DropEvents \/ EditTempo \/ EditRelease
           \/ UNCHANGED vars
  <2>1. part' = part /\ setup' = setup
    BY <1>3 DEF Tick, ClearEvents, DropEvents, EditTempo, EditRelease, Serving, vars
  <2> QED
    BY <1>0, <1>1, <2>1 DEF Kept
<1>4. CASE LockEvents
  <2>1. setup' = setup /\ (part' = [i \in Parts |-> UpdateLfos(part[i])] \/ part' = part)
    BY <1>4 DEF LockEvents
  <2>2. \A i \in Parts : CountsOK(UpdateLfos(part[i]), O)
    BY <1>0, OthersInRange
  <2> QED
    BY <1>0, <1>1, <2>1, <2>2 DEF Kept, Parts
<1>5. CASE WorkOff \/ ReceiveClock
  <2>1. ClockMulti /\ setup' = setup
    BY <1>5 DEF WorkOff, ReceiveClock, Serving
  <2> QED
    BY <1>1, <2>1, ClockMultiCounts DEF Kept, O
<1>6. CASE ReceiveStart
  <2>1. part' = [i \in Parts |-> StartPart(part[i])] /\ setup' = setup
    BY <1>6 DEF ReceiveStart, StartMulti, Serving
  <2>2. \A i \in Parts : CountsOK(StartPart(part[i]), O)
    BY <1>0, StartPartInRange
  <2> QED
    BY <1>1, <2>1, <2>2 DEF Kept, Parts
<1>7. CASE ReceiveStop
  <2>1. part' = [i \in Parts |-> StopPart(part[i])] /\ setup' = setup
    BY <1>7 DEF ReceiveStop, Serving
  <2>2. \A i \in Parts : CountsOK(StopPart(part[i]), O)
    BY <1>0, OthersInRange
  <2> QED
    BY <1>1, <2>1, <2>2 DEF Kept, Parts
<1>8. ASSUME NEW i \in Parts, PressKey(i) PROVE CountsInv'
  <2>1. setup' = setup
    BY <1>8 DEF PressKey, Serving
  <2>2. CASE running
    <3>1. part' = [part EXCEPT ![i] = MoreKeys(part[i])]
      BY <1>8, <2>2 DEF PressKey
    <3>2. CountsOK(MoreKeys(part[i]), O)
      BY <1>0, OthersInRange
    <3> QED
      BY <1>2, <2>1, <3>1, <3>2
  <2>3. CASE ~running
    <3>1. part' = [j \in Parts |-> IF j = i THEN MoreKeys(StartPart(part[j]))
                                  ELSE StartPart(part[j])]
      BY <1>8, <2>3 DEF PressKey
    <3>2. \A j \in Parts : CountsOK(StartPart(part[j]), O)
      BY <1>0, StartPartInRange
    <3>3. \A j \in Parts : CountsOK(MoreKeys(StartPart(part[j])), O)
      BY <1>0, <3>2, OthersInRange
    <3> QED
      BY <1>1, <2>1, <3>1, <3>2, <3>3 DEF Kept, Parts
  <2> QED
    BY <2>2, <2>3
<1>9. ASSUME NEW i \in Parts, ReleaseKey(i) PROVE CountsInv'
  <2> DEFINE d == [part[i] EXCEPT !.keys = @ - 1]
  <2>1. setup' = setup /\ part' = [part EXCEPT ![i] = d] /\ part[i].keys > 0
    BY <1>9 DEF ReleaseKey, Serving
  <2>2. CountsOK(d, O)
    BY <1>0, <2>1, EditsInRange
  <2> HIDE DEF d
  <2> QED
    BY <1>2, <2>1, <2>2
<1>10. ASSUME NEW i \in Parts, EditPart(i) PROVE CountsInv'
  <2>1. setup' = setup
    BY <1>10 DEF EditPart, Serving
  <2>2. PICK d : /\ part' = [part EXCEPT ![i] = d]
                 /\ \/ \E x \in setup.resolutions : d = EditResolution(part[i], x)
                    \/ \E x : d = EditMode(part[i], x)
                    \/ \E x \in setup.lengths : d = EditLength(part[i], x)
                    \/ \E x \in O : d = EditOctaves(part[i], x)
                    \/ \E x : d = EditDirection(part[i], x)
    BY <1>10 DEF EditPart, O
  <2>3. CountsOK(d, O)
    BY <1>0, <2>2, EditsInRange, DirectionInRange
  <2> QED
    BY <1>2, <2>1, <2>2, <2>3
<1>11. ASSUME NEW i \in Parts, LoadProgram(i) PROVE CountsInv'
  <2>1. setup' = setup
    BY <1>11 DEF LoadProgram, Serving
  <2>2. PICK r \in setup.resolutions, m \in setup.modes, n \in setup.lengths,
             o \in O, x \in setup.directions :
          part' = [part EXCEPT ![i] = Reloaded(part[i], r, m, n, o, x)]
    BY <1>11 DEF LoadProgram, O
  <2>3. CountsOK(Reloaded(part[i], r, m, n, o, x), O)
    <3>1. r \in Nat /\ n \in Nat /\ CountsOK(part[i], O)
      BY <1>0
    <3> QED
      BY <1>0, <3>1, ReloadedInRange
  <2> QED
    BY <1>2, <2>1, <2>2, <2>3
<1> QED
  BY <1>3, <1>4, <1>5, <1>6, <1>7, <1>8, <1>9, <1>10, <1>11 DEF Next, MainLoop

\* For any parts, keys and settings, whatever came and went since the last step, a step
\* of the arpeggiator plays a key that is down in an octave that was once set, and the
\* counter of the chord sequence is back in the sequence (Part::StepArpeggio and
\* ClockSequencer, part.cc).
THEOREM StepsStayInRange == Spec => IndicesInRange
<1> DEFINE InRange == \A i \in Parts : Steps(i) =>
                        LET c == part'[i]
                        IN  /\ c.gate /\ c.direction # "CHORD" =>
                                 /\ c.arpStep \in 0..(c.keys - 1)
                                 /\ c.arpOct >= 0 /\ \E o \in setup.octaves : c.arpOct < o
                            /\ c.mode = "CHORD" /\ c.length # 0 => c.chord < NumBlocks * c.length
<1>1. CountsInv /\ [Next]_vars => InRange
  <2> SUFFICES ASSUME CountsInv, NEW i \in Parts, Steps(i)
               PROVE  StepOK(part'[i], setup.octaves)
    BY DEF StepOK, PlaysInRange, ChordInRange
  <2>1. /\ ClockMulti /\ setup' = setup /\ running /\ running' /\ part'[i].counter = 0
    BY DEF Steps, WorkOff, ReceiveClock, Serving
  <2> QED
    BY <2>1, ClockMultiCounts
<1>2. CountsInv /\ [Next]_vars => [InRange]_vars
  BY <1>1
<1> QED
  BY <1>2, InitCounts, NextCounts, PTL DEF Spec, IndicesInRange
=============================================================================
