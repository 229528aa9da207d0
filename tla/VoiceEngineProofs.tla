-------------------------- MODULE VoiceEngineProofs --------------------------
(***************************************************************************)
(* The glide and the envelope of a voice card, for all notes, settings and *)
(* speeds.  What makes the glide stop where it should is the sign of its   *)
(* increment: as long as the voice has a pitch, it points at the target,   *)
(* and it is never zero before the target is reached.  What makes a        *)
(* released note only fade is that the curve rises with the phase, that    *)
(* the phase rises until it wraps, and that the segment starts from the    *)
(* high byte of the value it finds.                                        *)
(***************************************************************************)
EXTENDS VoiceEngine, TLAPS

GlideType ==
  /\ pitch \in [value : Int, target : Nat, increment : Int]
  /\ settings \in Settings

\* The glide goes up to its target or down to it.
PointsAt(q) ==
  q.value # 0 => \/ q.increment > 0 /\ q.value <= q.target
                 \/ q.increment <= 0 /\ q.value >= q.target

GlideInv == GlideType /\ PointsAt(pitch)

-----------------------------------------------------------------------------
LEMMA Ranges == PitchValues \subseteq Nat /\ Increments \subseteq Nat \ {0}
  BY SMT DEF PitchValues, Increments

LEMMA ProductOfNaturals ==
  ASSUME NEW a \in Nat, NEW b \in Nat PROVE a * b \in Nat
  OBVIOUS

LEMMA ProductOfPositives ==
  ASSUME NEW a \in Nat \ {0}, NEW b \in Nat \ {0} PROVE a * b >= 1
<1>1. a - 1 \in Nat /\ b - 1 \in Nat
  OBVIOUS
<1>2. (a - 1) * (b - 1) \in Nat
  BY <1>1, ProductOfNaturals
<1>3. a * b = (a - 1) * (b - 1) + (a - 1) + (b - 1) + 1
  OBVIOUS
<1> QED
  BY <1>1, <1>2, <1>3

\* The increment has the direction of the glide, however short it is.
LEMMA IncrementHasDirection ==
  ASSUME NEW delta \in Int, NEW speed \in Increments
  PROVE  /\ GlideIncrement(delta, speed) \in Int
         /\ delta >= 0 => GlideIncrement(delta, speed) > 0
         /\ delta < 0 => GlideIncrement(delta, speed) < 0
<1> DEFINE product == delta * speed
<1> speed \in Nat
  BY Ranges
<1>1. product \in Int
  OBVIOUS
<1>2. delta >= 0 => product >= 0
  BY ProductOfNaturals
<1>3. delta < 0 => product < 0
  <2> SUFFICES ASSUME delta < 0 PROVE product < 0
    OBVIOUS
  <2>1. PICK d \in Nat \ {0} : delta = -d
    <3>1. -delta \in Nat \ {0} /\ delta = -(-delta)
      OBVIOUS
    <3> QED
      BY <3>1
  <2>2. d * speed >= 1
    <3>1. speed \in Nat \ {0}
      BY Ranges
    <3> QED
      BY <3>1, ProductOfPositives, Zenon
  <2>3. product = -(d * speed)
    BY <2>1
  <2> QED
    BY <1>1, <2>2, <2>3
<1> HIDE DEF product
<1>4. /\ product \div 65536 \in Int
      /\ product >= 0 => product \div 65536 >= 0
      /\ product < 0 => product \div 65536 < 0
  BY <1>1, SMT
<1>5. GlideIncrement(delta, speed)
        = IF product \div 65536 # 0 THEN product \div 65536 ELSE IF delta < 0 THEN -1 ELSE 1
  BY SMT DEF GlideIncrement, product
<1> QED
  BY <1>1, <1>2, <1>3, <1>4, <1>5, SMT

\* One block of a glide that points at its target, or starts from no pitch.
LEMMA GlideStep ==
  ASSUME NEW q \in [value : Int, target : Nat, increment : Int], PointsAt(q)
  PROVE  /\ Glided(q) \in [value : Int, target : Nat, increment : Int]
         /\ PointsAt(Glided(q))
         /\ Glided(q).target = q.target
         /\ q.value # 0 =>
              \/ q.value <= Glided(q).value /\ Glided(q).value <= q.target
              \/ q.value >= Glided(q).value /\ Glided(q).value >= q.target
<1> DEFINE next == q.value + q.increment
           crossed == (q.increment > 0) # (next < q.target)
<1>1. next \in Int
  OBVIOUS
<1>2. /\ crossed => Glided(q) = [value |-> q.target, target |-> q.target, increment |-> 0]
      /\ ~crossed => Glided(q) = [q EXCEPT !.value = next]
  BY Zenon DEF Glided
<1>3. CASE crossed
  <2>1. Glided(q) = [value |-> q.target, target |-> q.target, increment |-> 0]
    BY <1>2, <1>3
  <2> HIDE DEF crossed, next
  <2>2. /\ Glided(q).value = q.target /\ Glided(q).target = q.target
        /\ Glided(q).increment = 0 /\ Glided(q) \in [value : Int, target : Nat, increment : Int]
    BY <2>1
  <2>3. q.value # 0 => q.value <= q.target \/ q.value >= q.target
    OBVIOUS
  <2> QED
    BY <2>2, <2>3, SMT DEF PointsAt
<1>4. CASE ~crossed
  <2>1. (q.increment > 0 /\ next < q.target) \/ (q.increment <= 0 /\ next >= q.target)
    BY <1>4, <1>1
  <2>2. Glided(q) = [q EXCEPT !.value = next]
    BY <1>2, <1>4
  <2> HIDE DEF crossed
  <2> QED
    BY <1>1, <2>1, <2>2 DEF PointsAt
<1> QED
  BY <1>3, <1>4

-----------------------------------------------------------------------------
LEMMA InitGlide == Init => GlideInv
<1> SUFFICES ASSUME Init PROVE GlideInv
  OBVIOUS
<1>1. pitch \in [value : Int, target : Nat, increment : Int] /\ PointsAt(pitch)
  BY DEF Init, PointsAt
<1>2. \E a \in Choices.attack, d \in Choices.decay, s \in Choices.sustain, r \in Choices.release,
        m \in Choices.amount, l \in Choices.legato, g \in Choices.glide :
        settings = [attack |-> a, decay |-> d, sustain |-> s, release |-> r, amount |-> m,
                    legato |-> l, glide |-> g]
  BY DEF Init
<1>3. settings \in Settings
  BY <1>2, EngineAssumption, SMT DEF Settings
<1> QED
  BY <1>1, <1>3 DEF GlideInv, GlideType

LEMMA NextGlide == GlideInv /\ [Next]_vars => GlideInv'
<1> SUFFICES ASSUME GlideInv, [Next]_vars PROVE GlideInv'
  OBVIOUS
<1> USE DEF GlideInv, GlideType
<1>1. ASSUME NEW note \in Pitches, NEW slur \in BOOLEAN, Trigger(note, slur) PROVE GlideInv'
  <2>1. note \in Nat /\ settings' = settings /\ settings.glide \in Increments
    BY <1>1, EngineAssumption, Ranges DEF Trigger, Settings
  <2>2. CASE pitch.value = 0 \/ (settings.legato /\ ~slur)
    BY <1>1, <2>1, <2>2 DEF Trigger, PointsAt
  <2>3. CASE ~(pitch.value = 0 \/ (settings.legato /\ ~slur))
    <3> DEFINE delta == note - pitch.value
               increment == GlideIncrement(delta, settings.glide)
    <3>1. delta \in Int
      BY <2>1
    <3>2. increment \in Int /\ (delta >= 0 => increment > 0) /\ (delta < 0 => increment < 0)
      BY <2>1, <3>1, IncrementHasDirection
    <3>3. pitch' = [pitch EXCEPT !.target = note, !.increment = increment]
      BY <1>1, <2>3 DEF Trigger
    <3> HIDE DEF increment
    <3>4. /\ pitch'.value = pitch.value /\ pitch'.target = note /\ pitch'.increment = increment
          /\ pitch' \in [value : Int, target : Nat, increment : Int]
      BY <2>1, <3>2, <3>3
    <3>5. PointsAt(pitch)'
      BY <2>1, <3>2, <3>4, SMT DEF PointsAt
    <3> QED
      BY <2>1, <3>4, <3>5
  <2> QED
    BY <2>2, <2>3
<1>2. CASE Release \/ Kill \/ RetriggerEnvelope
  BY <1>2 DEF Release, Kill, RetriggerEnvelope, PointsAt
<1>3. CASE Reset
  BY <1>3, EngineAssumption DEF Reset, PointsAt
<1>4. CASE WriteData
  <2>1. PICK f \in DOMAIN settings : \E x \in Choices[f] : settings' = [settings EXCEPT ![f] = x]
    BY <1>4 DEF WriteData
  <2>2. DOMAIN settings = {"attack", "decay", "sustain", "release", "amount", "legato", "glide"}
    BY SMT DEF Settings
  <2>3. settings' \in Settings
    BY <2>1, <2>2, EngineAssumption, SMT DEF Settings
  <2> QED
    BY <1>4, <2>3 DEF WriteData, PointsAt
<1>5. CASE Block
  BY <1>5, GlideStep DEF Block
<1>6. CASE UNCHANGED vars
  BY <1>6 DEF vars, PointsAt
<1> QED
  BY <1>1, <1>2, <1>3, <1>4, <1>5, <1>6 DEF Next

\* For all notes and settings, and notes, writes and resets between any two
\* blocks: a block carries the pitch towards its target and never beyond
\* (RenderOscillators, voice.cc:400).
THEOREM GlideNeverOvershoots == Spec => GlideStopsAtTarget
<1> DEFINE A == Block /\ pitch.value # 0 =>
                  \/ pitch.value <= pitch'.value /\ pitch'.value <= pitch.target
                  \/ pitch.value >= pitch'.value /\ pitch'.value >= pitch.target
<1>1. ASSUME GlideInv, [Next]_vars PROVE [A]_vars
  <2> SUFFICES ASSUME Block, pitch.value # 0
               PROVE  \/ pitch.value <= pitch'.value /\ pitch'.value <= pitch.target
                      \/ pitch.value >= pitch'.value /\ pitch'.value >= pitch.target
    OBVIOUS
  <2>1. pitch' = pitch \/ pitch' = Glided(pitch)
    BY DEF Block
  <2> QED
    BY <1>1, <2>1, GlideStep DEF GlideInv, GlideType, PointsAt
<1> HIDE DEF A
<1>2. Spec => [][A]_vars
  BY <1>1, InitGlide, NextGlide, PTL DEF Spec
<1> QED
  BY <1>2 DEF GlideStopsAtTarget, A

-----------------------------------------------------------------------------
(* The curve of the envelope.                                              *)

\* The provers read a literal digit by digit, so the largest phase has a name.
LastPhase == 65535

Phases == 0..LastPhase

LEMMA ProductIsMonotone ==
  ASSUME NEW a \in Nat, NEW b \in Nat, NEW c \in Nat, b <= c PROVE a * b <= a * c
<1>1. PICK d \in Nat : c = b + d
  <2>1. c - b \in Nat /\ c = b + (c - b)
    OBVIOUS
  <2> QED
    BY <2>1
<1>2. a * d \in Nat /\ a * b \in Nat /\ a * c = a * b + a * d
  BY <1>1, ProductOfNaturals
<1> QED
  BY <1>2

LEMMA TableRises ==
  /\ \A i \in 1..17 : ExpoTable[i] \in 0..255
  /\ \A i, j \in 1..17 : i <= j => ExpoTable[i] <= ExpoTable[j]
  BY SMT DEF ExpoTable

\* Between two entries of the table.
Points == 0..4095

Between(a, b, f) == (a * (4096 - f) + b * f) \div 4096
Linear(a, d, f)  == (a * 4096 + d * f) \div 4096

LEMMA BetweenIsLinear ==
  ASSUME NEW a \in Nat, NEW b \in Nat, NEW f \in Points
  PROVE  Between(a, b, f) = Linear(a, b - a, f)
<1>1. f \in Int
  BY SMT DEF Points
<1>2. a * (4096 - f) + b * f = a * 4096 + (b - a) * f
  BY <1>1, SMT
<1> QED
  BY <1>2, SMT DEF Between, Linear

LEMMA LinearRises ==
  ASSUME NEW a \in Nat, NEW d \in Nat, NEW f \in Points, NEW g \in Points, f <= g
  PROVE  /\ a <= Linear(a, d, f) /\ Linear(a, d, f) <= a + d
         /\ Linear(a, d, f) <= Linear(a, d, g)
         /\ Linear(a, d, 0) = a
         /\ Linear(a, d, f) \in Nat
<1>1. f \in Nat /\ g \in Nat /\ f <= 4096 /\ 4096 \in Nat
  BY SMT DEF Points
<1>2. d * f \in Nat /\ d * g \in Nat
  BY <1>1, ProductOfNaturals, SMT
<1>3. d * f <= d * g
  BY <1>1, ProductIsMonotone, SMT
<1>4. d * f <= d * 4096
  BY <1>1, ProductIsMonotone, SMT
<1>5. /\ (a * 4096 + d * f) \div 4096 <= (a * 4096 + d * g) \div 4096
      /\ a <= (a * 4096 + d * f) \div 4096
      /\ (a * 4096 + d * f) \div 4096 \in Nat
  BY <1>2, <1>3, SMT
<1>6. (a * 4096 + d * f) \div 4096 <= a + d
  BY <1>2, <1>4, SMT
<1>7. (a * 4096 + d * 0) \div 4096 = a
  BY SMT
<1> QED
  BY <1>5, <1>6, <1>7, SMT DEF Linear

LEMMA BetweenRises ==
  ASSUME NEW a \in Nat, NEW b \in Nat, a <= b, NEW f \in Points, NEW g \in Points, f <= g
  PROVE  /\ a <= Between(a, b, f) /\ Between(a, b, f) <= b
         /\ Between(a, b, f) <= Between(a, b, g)
         /\ Between(a, b, f) \in Nat
<1>1. b - a \in Nat /\ a + (b - a) = b
  BY SMT
<1>2. Between(a, b, f) = Linear(a, b - a, f)
  BY BetweenIsLinear
<1>3. Between(a, b, g) = Linear(a, b - a, g)
  BY BetweenIsLinear
<1>4. /\ a <= Linear(a, b - a, f) /\ Linear(a, b - a, f) <= a + (b - a)
      /\ Linear(a, b - a, f) <= Linear(a, b - a, g)
      /\ Linear(a, b - a, f) \in Nat
  BY <1>1, LinearRises
<1> QED
  BY <1>1, <1>2, <1>3, <1>4

LEMMA PhasesAreShort == \A p \in Phases : p \in Nat /\ p <= 65535
<1>1. LastPhase \in Nat /\ LastPhase = 65535
  BY SMT DEF LastPhase
<1>2. \A p \in Phases : p \in Nat /\ p <= LastPhase
  BY <1>1 DEF Phases
<1> QED
  BY <1>1, <1>2, SMT

LEMMA Complements ==
  ASSUME NEW a \in 0..255, NEW b \in 0..255, a <= b
  PROVE  255 - a \in Nat /\ 255 - b \in Nat /\ 255 - b <= 255 - a
  OBVIOUS

LEMMA InRange == ASSUME NEW m \in Nat, NEW n \in Nat, m <= n PROVE m \in 0..n
  OBVIOUS

LEMMA ShortIsAPhase == ASSUME NEW m \in Nat, m <= 65535 PROVE m \in Phases
<1>1. LastPhase \in Nat /\ m <= LastPhase
  BY SMT DEF LastPhase
<1> QED
  BY <1>1, InRange DEF Phases

LEMMA ExpoRises ==
  ASSUME NEW p \in Phases, NEW q \in Phases, p <= q
  PROVE  Expo(p) \in 0..255 /\ Expo(p) <= Expo(q)
<1> DEFINE i == p \div 4096 + 1
           j == q \div 4096 + 1
           f == p % 4096
           g == q % 4096
<1>1. /\ i \in 1..16 /\ j \in 1..16 /\ i <= j
      /\ f \in Points /\ g \in Points /\ (i = j => f <= g)
  <2>1. p \in Nat /\ q \in Nat /\ p <= 65535 /\ q <= 65535
    BY PhasesAreShort
  <2>2. p = 4096 * (p \div 4096) + f /\ f \in 0..4095 /\ p \div 4096 \in 0..15
    BY <2>1, SMT
  <2>3. q = 4096 * (q \div 4096) + g /\ g \in 0..4095 /\ q \div 4096 \in 0..15
    BY <2>1, SMT
  <2>4. i \in 1..16 /\ j \in 1..16
    BY <2>2, <2>3, SMT
  <2>5. p \div 4096 <= q \div 4096 /\ (p \div 4096 = q \div 4096 => f <= g)
    <3> DEFINE m == p \div 4096
               n == q \div 4096
    <3>1. p = 4096 * m + f /\ q = 4096 * n + g /\ m \in 0..15 /\ n \in 0..15
      BY <2>2, <2>3, SMT
    <3> HIDE DEF m, n, f, g
    <3>2. m <= n /\ (m = n => f <= g)
      BY <2>1, <2>2, <2>3, <3>1, SMT
    <3> QED
      BY <3>2 DEF m, n
  <2> QED
    BY <2>2, <2>3, <2>4, <2>5, SMT DEF Points
<1>2. /\ Expo(p) = Between(ExpoTable[i], ExpoTable[i + 1], f)
      /\ Expo(q) = Between(ExpoTable[j], ExpoTable[j + 1], g)
  BY SMT DEF Expo, Between
<1> HIDE DEF i, j, f, g
<1>3. /\ i \in 1..17 /\ i + 1 \in 1..17 /\ j \in 1..17 /\ j + 1 \in 1..17
      /\ i <= i + 1 /\ j <= j + 1 /\ (i # j => i + 1 <= j)
  BY <1>1, SMT
<1>4. /\ ExpoTable[i] \in Nat /\ ExpoTable[i + 1] \in 0..255 /\ ExpoTable[i + 1] \in Nat
      /\ ExpoTable[j] \in Nat /\ ExpoTable[j + 1] \in Nat
      /\ ExpoTable[i] <= ExpoTable[i + 1] /\ ExpoTable[j] <= ExpoTable[j + 1]
      /\ i # j => ExpoTable[i + 1] <= ExpoTable[j]
  <2>1. \A k \in 1..17 : ExpoTable[k] \in 0..255 /\ ExpoTable[k] \in Nat
    <3> TAKE k \in 1..17
    <3>1. ExpoTable[k] \in 0..255
      BY TableRises
    <3> QED
      BY <3>1
  <2>2. /\ ExpoTable[i] <= ExpoTable[i + 1] /\ ExpoTable[j] <= ExpoTable[j + 1]
        /\ i # j => ExpoTable[i + 1] <= ExpoTable[j]
    BY <1>3, TableRises, Zenon
  <2> QED
    BY <1>3, <2>1, <2>2
<1>5. /\ ExpoTable[i] <= Expo(p) /\ Expo(p) <= ExpoTable[i + 1] /\ Expo(p) \in Nat
  <2>1. f <= f
    BY <1>1, SMT DEF Points
  <2> QED
    BY <1>1, <1>2, <1>4, <2>1, BetweenRises
<1>6. ExpoTable[j] <= Expo(q) /\ Expo(q) \in Nat
  <2>1. g <= g
    BY <1>1, SMT DEF Points
  <2> QED
    BY <1>1, <1>2, <1>4, <2>1, BetweenRises
<1>7. ASSUME i = j PROVE Expo(p) <= Expo(q)
  <2>1. f <= g /\ f \in Points /\ g \in Points
    BY <1>1, <1>7
  <2>2. Between(ExpoTable[i], ExpoTable[i + 1], f) <= Between(ExpoTable[i], ExpoTable[i + 1], g)
    BY <1>4, <2>1, BetweenRises
  <2> QED
    BY <1>2, <1>7, <2>2, Zenon
<1>8. ASSUME i # j PROVE Expo(p) <= Expo(q)
  BY <1>4, <1>5, <1>6, <1>8, SMT
<1>9. Expo(p) \in 0..255
  BY <1>4, <1>5, SMT
<1> QED
  BY <1>7, <1>8, <1>9, Zenon

-----------------------------------------------------------------------------
(* The envelope.                                                            *)

Segments ==
  [stage : Stages, start : Nat, end : Nat, phase : Phases, increment : Phases, value : Nat,
   target : [Stages -> Nat], speed : [Stages -> Phases]]

\* What Voice::Init sets once and Update never touches.
Prepared(e) == e.target["RELEASE"] = 0 /\ e.speed["SUSTAIN"] = 0 /\ e.speed["DEAD"] = 0

\* The segments that stand still, and the one that falls to zero: it is never
\* above the curve it follows from where it began.
Faded(e) ==
  /\ e.stage \in {"SUSTAIN", "DEAD"} => e.increment = 0
  /\ e.stage = "RELEASE" => e.end = 0 /\ e.start * (255 - Expo(e.phase)) <= e.value

EnvInv == env \in Segments /\ Prepared(env) /\ Faded(env) /\ settings \in Settings

LEMMA ExpoOfZero == Expo(0) = 0
<1>1. ExpoTable[1] = 0 /\ ExpoTable[2] = 57
  BY SMT DEF ExpoTable
<1>2. 0 \div 4096 = 0 /\ 0 % 4096 = 0
  BY SMT
<1>3. Expo(0) = (ExpoTable[1] * 4096 + ExpoTable[2] * 0) \div 4096
  BY <1>2, SMT DEF Expo
<1> QED
  BY <1>1, <1>3, SMT

LEMMA ZeroIsAPhase == 0 \in Phases
<1>1. 0 \in Nat /\ 0 <= 65535
  BY SMT
<1> QED
  BY <1>1, ShortIsAPhase

LEMMA HighByteIsBelow ==
  ASSUME NEW x \in Nat PROVE HighByte(x) \in Nat /\ HighByte(x) * 255 <= x
  BY SMT DEF HighByte

LEMMA MixIsNatural ==
  ASSUME NEW a \in Nat, NEW b \in Nat, NEW c \in 0..255 PROVE Mix(a, b, c) \in Nat
<1>1. c \in Nat /\ 255 - c \in Nat
  OBVIOUS
<1>2. a * (255 - c) \in Nat /\ b * c \in Nat
  BY <1>1, ProductOfNaturals
<1> QED
  BY <1>2 DEF Mix

\* A segment begins at or below the value of the last one; the last begins at zero.
LEMMA TriggerBegins ==
  ASSUME NEW e \in Segments, NEW s \in Stages, Prepared(e)
  PROVE  LET t == TriggerStage(e, s)
         IN  /\ t \in Segments /\ Prepared(t) /\ Faded(t)
             /\ t.stage = s /\ t.increment = e.speed[s]
             /\ t.value <= e.value
             /\ s = "DEAD" => t.value = 0
<1> DEFINE t == TriggerStage(e, s)
           v == IF s = "DEAD" THEN 0 ELSE e.value
<1>1. t = [stage |-> s, start |-> HighByte(v), end |-> e.target[s], phase |-> 0,
           increment |-> e.speed[s], value |-> v, target |-> e.target, speed |-> e.speed]
  BY Zenon DEF TriggerStage
<1>2. v \in Nat /\ v <= e.value /\ (s = "DEAD" => v = 0)
  BY DEF Segments
<1> HIDE DEF t, v
<1>3. HighByte(v) \in Nat /\ HighByte(v) * 255 <= v
  BY <1>2, HighByteIsBelow
<1>4. e.target[s] \in Nat /\ e.speed[s] \in Phases
  BY DEF Segments
<1>5. t \in Segments
  BY <1>1, <1>2, <1>3, <1>4, ZeroIsAPhase DEF Segments
<1>6. Prepared(t)
  BY <1>1 DEF Prepared
<1>7. s \in {"SUSTAIN", "DEAD"} => e.speed[s] = 0
  BY DEF Prepared
<1>8. s = "RELEASE" => e.target[s] = 0 /\ HighByte(v) * (255 - Expo(0)) <= v
  BY <1>3, ExpoOfZero DEF Prepared
<1>9. Faded(t)
  BY <1>1, <1>7, <1>8 DEF Faded
<1> QED
  BY <1>1, <1>2, <1>5, <1>6, <1>9 DEF t

LEMMA InitVoiceIsDead ==
  ASSUME NEW e \in Segments
  PROVE  LET t == InitVoice(e)
         IN  t \in Segments /\ Prepared(t) /\ Faded(t) /\ t.stage = "DEAD" /\ t.value <= e.value
<1> DEFINE target == [e.target EXCEPT !["ATTACK"] = 255, !["RELEASE"] = 0, !["DEAD"] = 0]
           speed  == [e.speed EXCEPT !["SUSTAIN"] = 0, !["DEAD"] = 0]
           p      == [e EXCEPT !.target = target, !.speed = speed]
<1>1. InitVoice(e) = TriggerStage(p, "DEAD")
  BY Zenon DEF InitVoice
<1>2. e.target \in [Stages -> Nat] /\ e.speed \in [Stages -> Phases] /\ 255 \in Nat
  BY SMT DEF Segments
<1>3. target \in [Stages -> Nat] /\ target["RELEASE"] = 0
  BY <1>2, SMT DEF Stages
<1>4. speed \in [Stages -> Phases] /\ speed["SUSTAIN"] = 0 /\ speed["DEAD"] = 0
  BY <1>2, ZeroIsAPhase DEF Stages
<1> HIDE DEF target, speed
<1>5. p \in Segments /\ p.target = target /\ p.speed = speed /\ p.value = e.value
  BY <1>3, <1>4 DEF Segments
<1>6. Prepared(p) /\ "DEAD" \in Stages
  BY <1>3, <1>4, <1>5 DEF Prepared, Stages
<1> HIDE DEF p
<1> QED
  BY <1>1, <1>5, <1>6, TriggerBegins

\* A phase that has not wrapped has moved forward.
LEMMA PhaseAdvances ==
  ASSUME NEW p \in Phases, NEW i \in Phases
  PROVE  /\ NextPhase(p, i) \in Phases
         /\ ~Wrapped(NextPhase(p, i), i) => p <= NextPhase(p, i)
         /\ i = 0 => ~Wrapped(NextPhase(p, i), i)
<1>1. p \in Nat /\ i \in Nat /\ p <= 65535 /\ i <= 65535
  BY PhasesAreShort
<1> DEFINE sum == p + i
           n   == sum % 65536
<1>2. sum \in Nat /\ p <= sum /\ i <= sum /\ sum - 65536 < i
  BY <1>1, SMT
<1> HIDE DEF sum
<1>3. n \in Nat /\ n <= 65535 /\ (sum <= 65535 => n = sum)
  BY <1>2, SMT
<1>4. sum > 65535 => n < i
  <2> SUFFICES ASSUME sum > 65535 PROVE n < i
    OBVIOUS
  <2>1. sum < 131072 /\ sum \div 65536 = 1
    BY <1>1, <1>2, SMT DEF sum
  <2>2. n = sum - 65536
    BY <1>2, <2>1, SMT
  <2> QED
    BY <1>1, <1>2, <2>2, SMT
<1>5. NextPhase(p, i) = n
  BY SMT DEF NextPhase, sum
<1> HIDE DEF n
<1>6. n \in Phases
  BY <1>3, ShortIsAPhase
<1>7. ~(n < i) => p <= n
  BY <1>1, <1>2, <1>3, <1>4, SMT
<1>8. i = 0 => ~(n < i)
  BY <1>3, SMT
<1> QED
  BY <1>5, <1>6, <1>7, <1>8, Zenon DEF Wrapped

LEMMA UpdateKeeps ==
  ASSUME NEW e \in Segments, Prepared(e), Faded(e), NEW c \in Settings
  PROVE  LET u == Update(e, c.attack, c.decay, c.sustain, c.release)
         IN  u \in Segments /\ Prepared(u) /\ Faded(u) /\ u.stage = e.stage /\ u.value = e.value
<1> DEFINE u == Update(e, c.attack, c.decay, c.sustain, c.release)
           speed  == [e.speed EXCEPT !["ATTACK"] = c.attack, !["DECAY"] = c.decay, !["RELEASE"] = c.release]
           target == [e.target EXCEPT !["DECAY"] = 2 * c.sustain, !["SUSTAIN"] = 2 * c.sustain]
<1>1. u = [e EXCEPT !.speed = speed, !.target = target]
  BY Zenon DEF Update
<1>2. c.attack \in Phases /\ c.decay \in Phases /\ c.release \in Phases /\ 2 * c.sustain \in Nat
  <2>1. \A x \in Increments : x \in Phases
    <3>1. \A x \in Increments : x \in Nat /\ x <= 65535
      BY SMT DEF Increments
    <3> QED
      BY <3>1, ShortIsAPhase
  <2>2. c.sustain \in 0..127
    BY DEF Settings
  <2> QED
    BY <2>1, <2>2 DEF Settings
<1>3. e.speed \in [Stages -> Phases] /\ e.target \in [Stages -> Nat]
  BY DEF Segments
<1>4. /\ speed \in [Stages -> Phases] /\ speed["SUSTAIN"] = e.speed["SUSTAIN"]
      /\ speed["DEAD"] = e.speed["DEAD"]
  BY <1>2, <1>3 DEF Stages
<1>5. target \in [Stages -> Nat] /\ target["RELEASE"] = e.target["RELEASE"]
  BY <1>2, <1>3 DEF Stages
<1> HIDE DEF u, speed, target
<1>6. /\ u \in Segments /\ u.speed = speed /\ u.target = target
      /\ u.stage = e.stage /\ u.start = e.start /\ u.end = e.end /\ u.phase = e.phase
      /\ u.increment = e.increment /\ u.value = e.value
  BY <1>1, <1>4, <1>5 DEF Segments
<1>7. Prepared(u) /\ Faded(u)
  BY <1>4, <1>5, <1>6 DEF Prepared, Faded
<1> QED
  BY <1>6, <1>7 DEF u

\* One step of a curve that falls.
LEMMA RenderFades ==
  ASSUME NEW e \in Segments, Prepared(e), Faded(e)
  PROVE  LET r == Render(e)
         IN  /\ r \in Segments /\ Prepared(r) /\ Faded(r)
             /\ r.stage \in {"RELEASE", "DEAD"} => r.value <= e.value
<1> DEFINE phase == NextPhase(e.phase, e.increment)
           ended == [e EXCEPT !.value = Mix(e.start, e.end, 255)]
           moved == [e EXCEPT !.phase = phase]
           begun == TriggerStage(ended, NextStage[e.stage])
           ends  == Wrapped(phase, e.increment)
           r0    == IF ends THEN begun ELSE moved
           r     == IF r0.increment = 0 THEN r0
                    ELSE [r0 EXCEPT !.value = Mix(r0.start, r0.end, Expo(r0.phase))]
<1>1. Render(e) = r
  BY Zenon DEF Render
<1>2. /\ phase \in Phases /\ (~ends => e.phase <= phase) /\ (e.increment = 0 => ~ends)
      /\ e.phase \in Phases
  <2>1. e.phase \in Phases /\ e.increment \in Phases
    BY DEF Segments
  <2> QED
    BY <2>1, PhaseAdvances
<1> HIDE DEF phase, ends
<1>3. CASE ends
  <2>1. e.stage \in {"ATTACK", "DECAY", "RELEASE"}
    BY <1>2, <1>3 DEF Faded, Segments, Stages
  <2>2. NextStage[e.stage] \in Stages /\ NextStage[e.stage] # "RELEASE"
    BY <2>1 DEF NextStage, Stages
  <2>3. Mix(e.start, e.end, 255) \in Nat
    <3>1. e.start \in Nat /\ e.end \in Nat /\ 255 \in 0..255
      BY SMT DEF Segments
    <3> QED
      BY <3>1, MixIsNatural
  <2>4. ended \in Segments /\ Prepared(ended)
    BY <2>3 DEF Segments, Prepared
  <2>5. /\ begun \in Segments /\ Prepared(begun) /\ Faded(begun)
        /\ begun.stage = NextStage[e.stage] /\ (begun.stage = "DEAD" => begun.value = 0)
    BY <2>2, <2>4, TriggerBegins
  <2>6. r0 = begun
    BY <1>3
  <2> HIDE DEF begun, ended, r0
  <2>7. CASE begun.increment = 0
    BY <1>1, <2>2, <2>5, <2>6, <2>7 DEF Segments
  <2>8. CASE begun.increment # 0
    <3>1. /\ begun.stage \notin {"DEAD", "SUSTAIN"}
          /\ begun.stage # "RELEASE"
      BY <2>2, <2>5, <2>8 DEF Faded
    <3>2. Mix(begun.start, begun.end, Expo(begun.phase)) \in Nat
      <4>1. begun.start \in Nat /\ begun.end \in Nat /\ begun.phase \in Phases
        BY <2>5 DEF Segments
      <4>2. Expo(begun.phase) \in 0..255
        BY <4>1, ExpoRises, PhasesAreShort
      <4> QED
        BY <4>1, <4>2, MixIsNatural
    <3>3. r = [begun EXCEPT !.value = Mix(begun.start, begun.end, Expo(begun.phase))]
      BY <2>6, <2>8
    <3>4. r \in Segments /\ r.stage = begun.stage /\ Prepared(r)
      BY <2>5, <3>2, <3>3 DEF Segments, Prepared
    <3>5. Faded(r)
      BY <3>1, <3>4 DEF Faded
    <3> QED
      BY <1>1, <3>1, <3>4, <3>5
  <2> QED
    BY <2>7, <2>8
<1>4. CASE ~ends
  <2>1. r0 = moved
    BY <1>4
  <2>2. /\ moved \in Segments /\ Prepared(moved) /\ moved.stage = e.stage /\ moved.value = e.value
        /\ moved.phase = phase /\ moved.start = e.start /\ moved.end = e.end
        /\ moved.increment = e.increment
    BY <1>2 DEF Segments, Prepared
  <2>3. Expo(e.phase) \in 0..255 /\ Expo(phase) \in 0..255 /\ Expo(e.phase) <= Expo(phase)
    BY <1>2, <1>4, ExpoRises, PhasesAreShort
  <2>4. e.start \in Nat /\ e.end \in Nat /\ e.value \in Nat
    BY DEF Segments
  <2>5. e.start * (255 - Expo(phase)) <= e.start * (255 - Expo(e.phase))
    <3>1. /\ 255 - Expo(phase) \in Nat /\ 255 - Expo(e.phase) \in Nat
          /\ 255 - Expo(phase) <= 255 - Expo(e.phase)
      BY <2>3, Complements
    <3> QED
      BY <2>4, <3>1, ProductIsMonotone
  <2>6. e.start * (255 - Expo(phase)) \in Nat /\ e.start * (255 - Expo(e.phase)) \in Nat
    <3>1. 255 - Expo(phase) \in Nat /\ 255 - Expo(e.phase) \in Nat
      BY <2>3, SMT
    <3> QED
      BY <2>4, <3>1, ProductOfNaturals
  <2>7. moved.stage = "RELEASE" => e.start * (255 - Expo(phase)) <= e.value
    BY <2>2, <2>4, <2>5, <2>6 DEF Faded
  <2>8. moved.stage \in {"SUSTAIN", "DEAD"} => moved.increment = 0
    BY <2>2 DEF Faded
  <2> HIDE DEF moved, r0
  <2>9. CASE moved.increment = 0
    <3>1. r = moved
      BY <2>1, <2>9
    <3>2. Faded(moved)
      BY <2>2, <2>7, <2>8 DEF Faded
    <3>3. moved.value <= e.value
      BY <2>2, <2>4
    <3> HIDE DEF r
    <3> QED
      BY <1>1, <2>2, <3>1, <3>2, <3>3
  <2>10. CASE moved.increment # 0
    <3> DEFINE v == Mix(e.start, e.end, Expo(phase))
    <3>1. r = [moved EXCEPT !.value = v]
      BY <2>1, <2>2, <2>10
    <3>2. v \in Nat
      BY <2>3, <2>4, MixIsNatural
    <3>3. e.stage = "RELEASE" => v = e.start * (255 - Expo(phase))
      <4>1. e.stage = "RELEASE" => e.end = 0
        BY DEF Faded
      <4>2. 0 * Expo(phase) = 0 /\ \A x \in Nat : x + 0 = x
        BY <2>3, SMT
      <4> QED
        BY <2>6, <4>1, <4>2 DEF Mix
    <3> HIDE DEF v
    <3>4. /\ r \in Segments /\ Prepared(r) /\ r.stage = e.stage /\ r.value = v
          /\ r.phase = phase /\ r.start = e.start /\ r.end = e.end /\ r.increment = e.increment
      BY <2>2, <3>1, <3>2 DEF Segments, Prepared
    <3>5. r.stage # "DEAD"
      BY <2>2, <2>8, <2>10, <3>4
    <3>6. r.stage = "RELEASE" => v <= e.value /\ e.start * (255 - Expo(phase)) <= v
      BY <2>2, <2>6, <2>7, <3>3, <3>4
    <3>7. Faded(r)
      BY <2>2, <2>8, <3>4, <3>6 DEF Faded
    <3> QED
      BY <1>1, <3>4, <3>5, <3>6, <3>7
  <2> QED
    BY <2>9, <2>10
<1> QED
  BY <1>3, <1>4

-----------------------------------------------------------------------------
LEMMA InitFaded == Init => EnvInv
<1> SUFFICES ASSUME Init PROVE EnvInv
  OBVIOUS
<1>1. EnvelopeInit \in Segments
  BY ZeroIsAPhase DEF EnvelopeInit, Segments, Stages
<1>2. env = InitVoice(EnvelopeInit) /\ settings \in Settings
  BY InitGlide DEF Init, GlideInv, GlideType
<1>3. env \in Segments /\ Prepared(env) /\ Faded(env)
  BY <1>1, <1>2, InitVoiceIsDead
<1> QED
  BY <1>2, <1>3 DEF EnvInv

\* One step keeps what the envelope relies on, and fades what was released.
LEMMA NextFaded ==
  ASSUME EnvInv, GlideInv, [Next]_vars
  PROVE  EnvInv' /\ (env'.stage \in {"RELEASE", "DEAD"} /\ env' # env => env'.value <= env.value)
<1> DEFINE Fades == env'.stage \in {"RELEASE", "DEAD"} /\ env' # env => env'.value <= env.value
           Good  == env' \in Segments /\ Prepared(env') /\ Faded(env') /\ Fades
<1> USE DEF EnvInv
<1>1. settings' \in Settings
  BY NextGlide DEF GlideInv, GlideType
<1> SUFFICES Good
  BY <1>1
<1>2. ASSUME NEW s \in Stages, env' = TriggerStage(env, s) PROVE Good
  BY <1>2, TriggerBegins
<1>3. CASE env' = env
  BY <1>3
<1>4. ASSUME NEW note \in Pitches, NEW slur \in BOOLEAN, Trigger(note, slur) PROVE Good
  <2>1. env' = env \/ env' = TriggerStage(env, "ATTACK")
    BY <1>4 DEF Trigger
  <2> QED
    BY <1>2, <1>3, <2>1 DEF Stages
<1>5. CASE Release \/ Kill \/ RetriggerEnvelope
  <2>1. \E s \in Stages : env' = TriggerStage(env, s)
    BY <1>5 DEF Release, Kill, RetriggerEnvelope, Stages
  <2> QED
    BY <1>2, <2>1
<1>6. CASE Reset
  <2>1. env' = InitVoice(env)
    BY <1>6 DEF Reset
  <2> QED
    BY <2>1, InitVoiceIsDead
<1>7. CASE WriteData
  BY <1>3, <1>7 DEF WriteData
<1>8. CASE Block
  <2> DEFINE r == Render(env)
  <2>1. r \in Segments /\ Prepared(r) /\ Faded(r) /\ (r.stage \in {"RELEASE", "DEAD"} => r.value <= env.value)
    BY RenderFades
  <2>2. env' = Update(r, settings.attack, settings.decay, settings.sustain, settings.release)
    BY <1>8 DEF Block
  <2> HIDE DEF r
  <2>3. /\ env' \in Segments /\ Prepared(env') /\ Faded(env')
        /\ env'.stage = r.stage /\ env'.value = r.value
    BY <2>1, <2>2, UpdateKeeps
  <2> QED
    BY <2>1, <2>3
<1>9. CASE UNCHANGED vars
  BY <1>3, <1>9 DEF vars
<1> QED
  BY <1>4, <1>5, <1>6, <1>7, <1>8, <1>9 DEF Next

\* For all notes and settings, and notes, writes and resets between any two
\* blocks: a note that was released only fades until the next one begins
\* (Envelope::Trigger and Render, envelope.h:57 and 78).
THEOREM ReleasesFade == Spec => ReleaseOnlyFades
<1> DEFINE A == env'.stage \in {"RELEASE", "DEAD"} => env'.value <= env.value
<1>1. ASSUME EnvInv, GlideInv, [Next]_vars PROVE [A]_vars
  <2>1. CASE env' = env
    <3>1. env.value \in Nat
      BY <1>1 DEF EnvInv, Segments
    <3> QED
      BY <2>1, <3>1
  <2>2. CASE env' # env
    BY <1>1, <2>2, NextFaded
  <2> QED
    BY <2>1, <2>2
<1>2. EnvInv /\ GlideInv /\ [Next]_vars => EnvInv'
  BY NextFaded
<1> HIDE DEF A
<1>3. Spec => [][A]_vars
  BY <1>1, <1>2, InitGlide, NextGlide, InitFaded, PTL DEF Spec
<1> QED
  BY <1>3 DEF ReleaseOnlyFades, A
=============================================================================
