------------------------------- MODULE PartOps -------------------------------
(***************************************************************************)
(* The note path of a part (src/controller/part.cc), as functions of the   *)
(* state of a part p:                                                      *)
(*                                                                         *)
(*   p.num      how many voice cards are allocated to the part             *)
(*   p.pmode    polyphony mode             p.amode  arp/sequencer mode     *)
(*   p.seen     arp_previous_mode_, the mode the clock last took notice of *)
(*   p.scale    the notes the raga accepts (AcceptNote)                    *)
(*   p.dir      "CHORD" when the arpeggio direction is CHORD, else "LINE"  *)
(*   p.ignore   ignore_note_off_messages_, set by the hold pedal           *)
(*   p.pressed  pressed_keys_; an entry is flagged when bit 7 of its       *)
(*              velocity is set                                            *)
(*   p.mono     mono_allocator_            p.poly   poly_allocator_        *)
(*   p.prev     previous_generated_note_   (255: none)                     *)
(*   p.voice    what each voice of the part was last told: the note of a   *)
(*              Trigger, or Silent after a Release or a Kill               *)
(*   p.chain    the notes the next unit sounds, most recent first          *)
(*   p.next     the polyphony mode the next unit was last told             *)
(*   p.out      notes sent by OnNote and not yet ended                     *)
(*                                                                         *)
(* Voices are numbered within the part: voice v is allocated_voices_[v].   *)
(* Velocities, tuning, legato and spread only shape what a voice plays;    *)
(* they are left out.  mono_allocator_ and poly_allocator_ share their     *)
(* bytes: the one that is not in use is given a fixed value.               *)
(***************************************************************************)
EXTENDS VoicePool, Recency, SequencesExt

CONSTANTS KeyCapacity,    \* NoteStack<12> pressed_keys_
          MonoCapacity,   \* NoteStack<7> mono_allocator_
          NextVoices      \* how many voices the next unit of the chain has

ASSUME PartOpsAssumption ==
  /\ KeyCapacity \in Nat \ {0}
  /\ MonoCapacity \in Nat \ {0}
  /\ NextVoices \in Nat \ {0}

Silent    == 254
NoNote    == 255
kAnyNote  == 60          \* "This is arbitrary": ClockArpeggiator's chord marker

IsMono(p) == p.pmode \in {"MONO", "SOLO"}

\* ARP_SEQUENCER_MODE_ARPEGGIATOR_LATCH and everything above it.
IsLatched(p) == p.amode \in {"LATCH", "CHORD"}

TopOf(s) == IF s = <<>> THEN NoNote ELSE Head(s).note

\* The notes of the keys, from the lowest to the highest: sorted_note of each rank.
Ascending(s) ==
  [rank \in 1..Cardinality(NotesOf(s)) |->
     CHOOSE n \in NotesOf(s) : Cardinality({m \in NotesOf(s) : m < n}) = rank - 1]

-----------------------------------------------------------------------------
\* Commands to the voices of the part.
Told(voice, targets, what) ==
  [v \in DOMAIN voice |-> IF v \in targets THEN what ELSE voice[v]]

Tell(p, targets, what) == [p EXCEPT !.voice = Told(@, targets, what)]

AllVoices(p) == 0..(p.num - 1)

\* The voices a note of the monophonic stack is played on: all of them, or the
\* first one in SOLO mode.
MonoVoices(p) == IF p.pmode = "SOLO" THEN {0} ELSE AllVoices(p)

GetNextVoice(p, index) == IF index + 1 < p.num THEN index + 1 ELSE 0

\* The voices of a slot of the polyphonic allocator.
SlotVoices(p, index) ==
  IF p.pmode = "UNISON_2X" THEN {2 * index, GetNextVoice(p, 2 * index)} ELSE {index}

\* The slots whose voices are those of this unit.
LocalSlots(p) ==
  {i \in VoicesOf(p.poly) : p.pmode = "CHAIN" => i < p.poly.size \div 2}

\* The next unit of the chain plays a forwarded note on one of its own voices,
\* stealing the least recently played when it has none left.
Forwarded(chain, note) ==
  IF note \in NotesOf(chain) THEN chain ELSE Played(chain, [note |-> note], NextVoices)

\* What is done for a note whose index in the polyphonic allocator is known:
\* the voices of the slot are told, or the next unit of the chain; an index
\* beyond the allocator is the answer that no slot has the note.
AddressForwardsNoteOns(p, index, note, what) ==    \* variant: no note-off is forwarded
  IF index \in LocalSlots(p) THEN Tell(p, SlotVoices(p, index), what)
  ELSE IF p.pmode # "CHAIN" \/ what = Silent THEN p
  ELSE [p EXCEPT !.chain = Forwarded(@, note)]

Address(p, index, note, what) ==
  IF index \in LocalSlots(p) THEN Tell(p, SlotVoices(p, index), what)
  ELSE IF p.pmode # "CHAIN" THEN p
  ELSE [p EXCEPT !.chain = IF what = Silent THEN Without(@, note) ELSE Forwarded(@, note)]

-----------------------------------------------------------------------------
\* The note containers.
PolySize(p) ==
  CASE p.pmode = "UNISON_2X" -> (p.num + 1) \div 2
    [] p.pmode = "CHAIN"     -> 2 * p.num
    [] OTHER                 -> p.num

InitializeAllocators(p) ==
  [p EXCEPT !.mono = <<>>,
            !.poly = IF IsMono(p) THEN NewPool(0, FALSE)
                     ELSE NewPool(PolySize(p), p.pmode = "CYCLIC")]

\* Variants: the polyphonic allocator, or the monophonic one, is forgotten.
AllSoundOffKeepsPool(p) ==
  Tell([p EXCEPT !.mono = <<>>, !.pressed = <<>>], AllVoices(p), Silent)

AllSoundOff(p) ==
  Tell([p EXCEPT !.mono    = <<>>,
                 !.poly    = IF IsMono(p) THEN @ ELSE AfterClear(@),
                 !.pressed = <<>>],
       AllVoices(p), Silent)

\* The note-offs for the notes of a chord come after pressed_keys_.Clear(), in
\* a loop over the keys that are left: none.
AllNotesOff(p) ==
  IF p.ignore THEN p
  ELSE Tell([p EXCEPT
               !.mono    = <<>>,
               !.poly    = IF IsMono(p) THEN @ ELSE AfterClearNotes(@),
               !.pressed = <<>>,
               !.out     = IF p.dir = "CHORD" THEN @ ELSE @ \ {p.prev},
               !.prev    = NoNote],
            AllVoices(p), Silent)

-----------------------------------------------------------------------------
InternalNoteOnAllocatesTwice(p, note) ==    \* variant: no FindActive
  IF note \notin p.scale THEN p
  ELSE LET q == [p EXCEPT !.out = @ \cup {note}]
       IN  IF IsMono(p)
           THEN Tell([q EXCEPT !.mono = Played(@, [note |-> note], MonoCapacity)],
                     MonoVoices(p), note)
           ELSE Address([q EXCEPT !.poly = AfterNoteOn(@, note)],
                        NoteOnVoice(p.poly, note), note, note)

InternalNoteOn(p, note) ==
  IF note \notin p.scale THEN p
  ELSE LET q == [p EXCEPT !.out = @ \cup {note}]
       IN  IF IsMono(p)
           THEN Tell([q EXCEPT !.mono = Played(@, [note |-> note], MonoCapacity)],
                     MonoVoices(p), note)
           ELSE LET active == FindActive(p.poly, note)
                IN  IF active # NoVoice THEN Address(q, active, note, note)
                    ELSE Address([q EXCEPT !.poly = AfterNoteOn(@, note)],
                                 NoteOnVoice(p.poly, note), note, note)

InternalNoteOffKeepsTop(p, note) ==    \* variant: the note below is not retriggered
  IF note = NoNote THEN p
  ELSE LET q == [p EXCEPT !.out = @ \ {note}]
       IN  IF IsMono(p)
           THEN LET r == [q EXCEPT !.mono = Without(@, note)]
                IN  IF r.mono = <<>> THEN Tell(r, MonoVoices(p), Silent) ELSE r
           ELSE Address([q EXCEPT !.poly = AfterNoteOff(@, note)],
                        Find(p.poly, note), note, Silent)

InternalNoteOff(p, note) ==
  IF note = NoNote THEN p
  ELSE LET q == [p EXCEPT !.out = @ \ {note}]
       IN  IF IsMono(p)
           THEN LET r == [q EXCEPT !.mono = Without(@, note)]
                IN  IF r.mono = <<>> THEN Tell(r, MonoVoices(p), Silent)
                    ELSE IF TopOf(p.mono) = note
                    THEN Tell(r, MonoVoices(p), TopOf(r.mono))
                    ELSE r
           ELSE Address([q EXCEPT !.poly = AfterNoteOff(@, note)],
                        Find(p.poly, note), note, Silent)

-----------------------------------------------------------------------------
\* pressed_keys_.NoteOn.
PressKey(p, note) ==
  [p EXCEPT !.pressed = Played(@, [note |-> note, flagged |-> FALSE], KeyCapacity)]

\* NoteOn(note, velocity) with a velocity that is not zero.
PartNoteOn(p, note) ==
  LET q == PressKey(p, note)
  IN  IF note \notin p.scale \/ p.amode = "CHORD" THEN p
      ELSE IF p.amode = "LATCH" /\ note \in NotesOf(p.pressed)
      THEN [p EXCEPT !.pressed = Without(@, note)]
      ELSE IF p.amode = "STEP" THEN InternalNoteOn(q, note) ELSE q

\* The keys with the entry of a note flagged.
Flagged(keys, note) ==
  [i \in DOMAIN keys |-> IF keys[i].note = note THEN [note |-> note, flagged |-> TRUE]
                         ELSE keys[i]]

\* NoteOff(note): under the pedal, and in the latched modes, the key is only
\* flagged.
PartNoteOff(p, note) ==
  LET q == [p EXCEPT !.pressed = Without(@, note)]
  IN  IF note \notin p.scale THEN p
      ELSE IF p.ignore \/ IsLatched(p)
      THEN [p EXCEPT !.pressed = Flagged(@, note)]
      ELSE IF p.amode = "STEP" \/ (p.amode = "ARPEGGIATOR" /\ p.dir = "CHORD")
      THEN InternalNoteOff(q, note)
      ELSE IF q.pressed = <<>> THEN AllNotesOff([q EXCEPT !.ignore = FALSE])
      ELSE q

\* The loops of the part: a call made for one note after the other.
Call(p, what, note) ==
  CASE what = "NoteOff"         -> PartNoteOff(p, note)
    [] what = "PressKey"        -> PressKey(p, note)
    [] what = "InternalNoteOn"  -> InternalNoteOn(p, note)
    [] what = "InternalNoteOff" -> InternalNoteOff(p, note)

CallForEach(p, what, notes) ==
  LET state[i \in 0..Len(notes)] ==
        IF i = 0 THEN p ELSE Call(state[i - 1], what, notes[i])
  IN  state[Len(notes)]

FlaggedNotes(p) ==
  {p.pressed[i].note : i \in {j \in DOMAIN p.pressed : p.pressed[j].flagged}}

\* Controller 64.  The flagged keys are released in the order of their slots,
\* which is one of the orders of the set.
PedalDown(p) == [p EXCEPT !.ignore = TRUE]

PedalUp(p, order) == CallForEach([p EXCEPT !.ignore = FALSE], "NoteOff", order)

ResetAllControllers(p) == [p EXCEPT !.ignore = FALSE]

-----------------------------------------------------------------------------
\* The voices, counted from 0 within the part, that a polyphonic aftertouch
\* message for a note is sent to.
AftertouchVoices(p, note) ==
  LET index == Find(p.poly, note)
      size  == IF p.pmode = "CYCLIC" THEN p.poly.size \div 2 ELSE p.poly.size
  IN  IF IsMono(p) THEN AllVoices(p)
      ELSE IF index < size THEN SlotVoices(p, index) ELSE {}

-----------------------------------------------------------------------------
\* Parameter changes and voice assignment.
SetPolyphonyMode(p, m) ==
  IF p.pmode = m THEN p
  ELSE InitializeAllocators(AllSoundOff([p EXCEPT !.pmode = m]))

\* OnEdit, when the user makes the change: the mode the next unit is told is
\* remapped where the value is 4, the place of CYCLIC in PolyphonyMode.
RemappedMode(m) == IF m = "CYCLIC" THEN "POLY" ELSE m

EditPolyphonyMode(p, m) == [SetPolyphonyMode(p, m) EXCEPT !.next = RemappedMode(m)]

\* Part::Touch after a program is loaded: the new settings are in place, and
\* only a change of polyphony mode silences the part.
LoadSettings(p, pm, am, d, scale) ==
  SetPolyphonyMode([p EXCEPT !.amode = am, !.dir = d, !.scale = scale], pm)

AssignVoices(p, count) ==
  InitializeAllocators(
    [AllSoundOff(p) EXCEPT !.num   = count,
                           !.voice = [v \in 0..(count - 1) |-> Silent]])

Start(p) == [p EXCEPT !.prev = NoNote, !.seen = p.amode]

StopUnderPedal(p) == AllNotesOff(p)    \* variant: the pedal is obeyed

Stop(p) == AllNotesOff([p EXCEPT !.ignore = FALSE])

\* The next unit of the chain receives every message but the notes: an All
\* Sound Off, an All Notes Off or a Stop ends what was forwarded to it.
NextUnitSilenced(p) == [p EXCEPT !.chain = <<>>]

-----------------------------------------------------------------------------
\* One step of the note sequence: a rest, a note, or a legato note.
StepNoteSequenceKeepsLegato(p, gate, legato, note) ==    \* variant: the tied note stays
  IF ~gate THEN [InternalNoteOff(p, p.prev) EXCEPT !.prev = NoNote]
  ELSE IF ~legato
  THEN [InternalNoteOn(InternalNoteOff(p, p.prev), note) EXCEPT !.prev = note]
  ELSE [InternalNoteOn(p, note) EXCEPT !.prev = note]

StepNoteSequence(p, gate, legato, note) ==
  IF ~gate THEN [InternalNoteOff(p, p.prev) EXCEPT !.prev = NoNote]
  ELSE IF ~legato
  THEN [InternalNoteOn(InternalNoteOff(p, p.prev), note) EXCEPT !.prev = note]
  ELSE IF p.prev = note THEN p
  ELSE [InternalNoteOff(InternalNoteOn(p, note), p.prev) EXCEPT !.prev = note]

\* The chord sequencer at the boundary of a chord: the keys are replaced by
\* the notes of the next block.
StepChordSequence(p, chord) == CallForEach(AllNotesOff(p), "PressKey", chord)

\* One step of the arpeggiator: hit tells whether the pattern has a note here,
\* note is the one StepArpeggio selects.
\* Variants for the LINE directions: the previous note is only ended by a step
\* of the pattern without a note; a step without a key leaves it alone.
StepArpeggiatorOverlaps(p, hit, note) ==
  IF p.amode \notin {"ARPEGGIATOR", "LATCH", "CHORD"} THEN p
  ELSE IF hit /\ p.pressed # <<>>
  THEN [InternalNoteOn(p, note) EXCEPT !.prev = note]
  ELSE [InternalNoteOff(p, p.prev) EXCEPT !.prev = NoNote]

StepArpeggiator(p, hit, note) ==
  IF p.amode \notin {"ARPEGGIATOR", "LATCH", "CHORD"} THEN p
  ELSE IF hit /\ p.pressed # <<>>
  THEN IF p.dir = "LINE"
       THEN [InternalNoteOn(InternalNoteOff(p, p.prev), note) EXCEPT !.prev = note]
       ELSE [CallForEach(p, "InternalNoteOn", Ascending(p.pressed)) EXCEPT !.prev = kAnyNote]
  ELSE IF p.dir = "LINE"
  THEN [InternalNoteOff(p, p.prev) EXCEPT !.prev = NoNote]
  ELSE IF p.prev = NoNote THEN p
  ELSE [CallForEach(p, "InternalNoteOff", Ascending(p.pressed)) EXCEPT !.prev = NoNote]
=============================================================================
