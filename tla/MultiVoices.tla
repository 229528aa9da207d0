----------------------------- MODULE MultiVoices -----------------------------
(***************************************************************************)
(* How the voice cards are shared between the parts of a multi:            *)
(* Multi::SolveAllocationConflicts and AssignVoicesToParts                 *)
(* (src/controller/multi.cc), the voice assigner page that edits the       *)
(* allocation (src/controller/ui_pages/voice_assigner.cc), and which part  *)
(* each card is playing for.                                               *)
(*                                                                         *)
(* An allocation byte is the set of its bits.  A part keeps its own copy   *)
(* of its cards, allocated_voices_, which AssignVoices rewrites from the   *)
(* start: when the part is left without a card, element 0 keeps the card   *)
(* it had.                                                                 *)
(***************************************************************************)
EXTENDS Integers, FiniteSets

CONSTANTS NumParts,   \* kNumParts
          NumCards,   \* kNumVoices
          Modes       \* polyphony modes

ASSUME MultiVoicesAssumption ==
  /\ NumParts \in Nat
  /\ NumCards \in Nat \ {0}
  /\ Modes \subseteq {"MONO", "POLY", "SOLO"} /\ Modes # {}

PartNumbers == 0..(NumParts - 1)
Cards       == 0..(NumCards - 1)
Nobody      == -1

VARIABLES
  allocation,   \* MultiData::part_mapping(i).voice_allocation
  cards,        \* allocated_voices_[0 .. num_allocated_voices_ - 1] of each part
  first,        \* allocated_voices_[0] of each part
  mode,         \* polyphony_mode of each part
  player,       \* the part each card sounds a note for, or Nobody
  strays        \* history: the cards last triggered by a part in the SOLO mode that had none

multiVars == <<allocation, cards, first, mode, player, strays>>

-----------------------------------------------------------------------------
\* The bits taken before part i by the parts that are not the constraint.
TakenBefore(a, i, constraint) ==
  UNION {a[j] : j \in {k \in PartNumbers : k < i /\ k # constraint}}

SolvedByNobody(a, constraint) == a    \* variant: conflicts stay

\* SolveAllocationConflicts: a card claimed twice goes to the first part that
\* claims it.  constraint is a part left out, -1 for none.
Solved(a, constraint) ==
  [i \in PartNumbers |-> IF i = constraint THEN a[i]
                   ELSE a[i] \ TakenBefore(a, i, constraint)]

\* What it returns: the cards no part but the constraint has.
Available(a, constraint) == Cards \ TakenBefore(a, NumParts, constraint)

LowestCard(S) == CHOOSE c \in S : \A d \in S : c <= d

\* Variant: the cards are taken over without killing their notes.
AssignKeepsNotes(a) ==
  /\ allocation' = a
  /\ cards' = a
  /\ first' = [i \in PartNumbers |-> IF a[i] = {} THEN first[i] ELSE LowestCard(a[i])]
  /\ UNCHANGED <<mode, player, strays>>

\* AssignVoicesToParts: each part kills the notes of the cards it had, then
\* takes those of the allocation.
Assign(a) ==
  /\ allocation' = a
  /\ cards' = a
  /\ first' = [i \in PartNumbers |-> IF a[i] = {} THEN first[i] ELSE LowestCard(a[i])]
  /\ player' = [c \in Cards |->
                  IF \E i \in PartNumbers : c \in cards[i] THEN Nobody ELSE player[c]]
  /\ UNCHANGED <<mode, strays>>

-----------------------------------------------------------------------------
\* Memory is zero at startup; the first multi is loaded, or reset, by Touch.
MultiInit ==
  /\ allocation = [i \in PartNumbers |-> {}]
  /\ cards = [i \in PartNumbers |-> {}]
  /\ first = [i \in PartNumbers |-> 0]
  /\ mode \in [PartNumbers -> Modes]
  /\ player = [c \in Cards |-> Nobody]
  /\ strays = {}

\* Multi::SetValue on the allocation of a part.
SetAllocation(p, S) ==
  /\ allocation[p] # S
  /\ Assign(Solved([allocation EXCEPT ![p] = S], -1))

\* A multi is loaded from the card, the EEPROM or by SysEx: Touch.
LoadMulti(a) == Assign(Solved(a, -1))

\* VoiceAssigner::OnClick on a card: the active part takes it from whoever has
\* it, or gives it up.
ClickCard(p, card) ==
  LET others == IF card \in allocation[p] THEN allocation
                ELSE [i \in PartNumbers |-> allocation[i] \ {card}]
      toggled == IF card \in allocation[p] THEN allocation[p] \ {card}
                 ELSE allocation[p] \cup {card}
  IN  Assign(Solved([others EXCEPT ![p] = toggled], -1))

\* VoiceAssigner::OnPot: a knob sets two cards at a time, among those the other
\* parts leave.
TurnPot(p, pair, S) ==
  LET a   == Solved(allocation, p)
      new == ((allocation[p] \ pair) \cup S) \cap Available(allocation, p)
  IN  IF new = allocation[p]
      THEN allocation' = a /\ UNCHANGED <<cards, first, mode, player, strays>>
      ELSE Assign([a EXCEPT ![p] = new])

-----------------------------------------------------------------------------
\* A part triggers or releases one of its cards; in the SOLO mode, the first
\* one, and without looking at how many it has (part.cc:729, 792).
Targets(p) == IF mode[p] = "SOLO" THEN {first[p]} ELSE cards[p]

Trigger(p, card) ==
  /\ card \in Targets(p)
  /\ player' = [player EXCEPT ![card] = p]
  /\ strays' = IF mode[p] = "SOLO" /\ cards[p] = {} THEN strays \cup {card} ELSE strays \ {card}
  /\ UNCHANGED <<allocation, cards, first, mode>>

Release(p, card) ==
  /\ card \in Targets(p)
  /\ player' = [player EXCEPT ![card] = Nobody]
  /\ UNCHANGED <<allocation, cards, first, mode, strays>>

\* A change of polyphony mode kills the notes of the part (AllSoundOff).
ChangeMode(p, m) ==
  /\ mode[p] # m
  /\ mode' = [mode EXCEPT ![p] = m]
  /\ player' = [c \in Cards |-> IF c \in cards[p] THEN Nobody ELSE player[c]]
  /\ UNCHANGED <<allocation, cards, first, strays>>

Pairs == {{2 * k, 2 * k + 1} \cap Cards : k \in 0..(NumCards \div 2)}

MultiNext ==
  \/ \E p \in PartNumbers, S \in SUBSET Cards : SetAllocation(p, S)
  \/ \E a \in [PartNumbers -> SUBSET Cards] : LoadMulti(a)
  \/ \E p \in PartNumbers, card \in Cards : ClickCard(p, card)
  \/ \E p \in PartNumbers, pair \in Pairs : \E S \in SUBSET pair : TurnPot(p, pair, S)
  \/ \E p \in PartNumbers, card \in Cards : Trigger(p, card)
  \/ \E p \in PartNumbers, card \in Cards : Release(p, card)
  \/ \E p \in PartNumbers, m \in Modes : ChangeMode(p, m)

MultiSpec == MultiInit /\ [][MultiNext]_multiVars

-----------------------------------------------------------------------------
TypeOK ==
  /\ allocation \in [PartNumbers -> SUBSET Cards]
  /\ cards \in [PartNumbers -> SUBSET Cards]
  /\ first \in [PartNumbers -> Cards]
  /\ mode \in [PartNumbers -> Modes]
  /\ player \in [Cards -> PartNumbers \cup {Nobody}]
  /\ strays \subseteq Cards

\* No card belongs to two parts, whatever multis are loaded, bytes written and
\* cards clicked, and the parts play on exactly the cards the multi shows.
CardsAreShared ==
  /\ cards = allocation
  /\ \A i, j \in PartNumbers : i # j => allocation[i] \cap allocation[j] = {}

\* A card sounds only for the part it is allocated to: a note whose part has
\* lost the card could never be released.  The premise: the card was not triggered
\* by a part in the SOLO mode that had none left, which plays on the first it had
\* ("Just Trigger first allocated voice for SOLO", part.cc:729-731).
PlayersOwnTheirCards ==
  \A c \in Cards \ strays : player[c] # Nobody => c \in cards[player[c]]
=============================================================================
