-------------------------------- MODULE Part --------------------------------
(***************************************************************************)
(* One part of the controller between the keyboard and its voices: what    *)
(* Multi (src/controller/multi.{h,cc}) calls on a Part                     *)
(* (src/controller/part.cc) when keys, the hold pedal, channel mode        *)
(* messages, the clock and the user's settings arrive in any order.  All   *)
(* of these run one after the other in the main loop of controller.cc, so  *)
(* each is one step.                                                       *)
(*                                                                         *)
(* The pattern, the note sequence and the arpeggio order are data: a clock *)
(* step may or may not have a note and the note is any of those the        *)
(* settings can give.  The counters that divide the clock are left out:    *)
(* a tick that is not a step changes nothing here.                         *)
(***************************************************************************)
EXTENDS PartOps

\* How the part is set up and played: one setup is chosen at the start.
CONSTANT Setups

Setup ==
  [keys       : SUBSET Notes,             \* the keys of the keyboard
   ranges     : SUBSET (SUBSET Notes),    \* the keys the part's mapping accepts
   scales     : SUBSET (SUBSET Notes),    \* the notes each raga accepts
   voices     : SUBSET (1..6),            \* how many voices the part may be given
   pmodes     : SUBSET {"MONO", "POLY", "SOLO", "UNISON_2X", "CYCLIC", "CHAIN"},
   amodes     : SUBSET {"STEP", "ARPEGGIATOR", "NOTE", "LATCH", "CHORD"},
   directions : SUBSET {"LINE", "CHORD"},
   octaves    : SUBSET Nat,               \* 12 * arp_octave_
   offsets    : SUBSET Int,               \* step note - 60 in the note sequence
   chords     : SUBSET Seq(Notes),        \* the blocks of the chord sequence
   events     : SUBSET STRING]            \* which of the optional events happen

ASSUME PartAssumption ==
  \A s \in Setups :
    /\ s \in Setup
    /\ 0 \in s.octaves
    /\ \A t \in s.octaves \ {0} : t - 12 \in s.octaves
    /\ \A c \in s.chords : Len(c) <= 4

VARIABLES
  p,        \* the part (see PartOps)
  held,     \* the keys that are down
  range,    \* the keys PartMapping::accept_channel_note lets through
  running,  \* Multi::running_
  setup     \* never changes

vars == <<p, held, range, running, setup>>

\* Every key of some setup.
Keys == UNION {s.keys : s \in Setups}

Init ==
  /\ setup \in Setups
  /\ \E n \in setup.voices, pm \in setup.pmodes, am \in setup.amodes,
        d \in setup.directions, s \in setup.scales :
       p = InitializeAllocators(
             [num     |-> n,
              pmode   |-> pm,
              amode   |-> am,
              seen    |-> am,
              scale   |-> s,
              dir     |-> d,
              ignore  |-> FALSE,
              pressed |-> <<>>,
              mono    |-> <<>>,
              poly    |-> NewPool(0, FALSE),
              prev    |-> NoNote,
              voice   |-> [v \in 0..(n - 1) |-> Silent],
              chain   |-> <<>>,
              next    |-> "POLY",
              out     |-> {}])
  /\ held = {}
  /\ range \in setup.ranges
  /\ running = FALSE

-----------------------------------------------------------------------------
\* The keyboard.  A note-on starts the clock when it is stopped.
Press(k) ==
  /\ k \in setup.keys \ held
  /\ held' = held \cup {k}
  /\ LET q == IF running THEN p ELSE Start(p)
     IN  p' = IF k \in range THEN PartNoteOn(q, k) ELSE q
  /\ running' = TRUE
  /\ UNCHANGED <<range, setup>>

Release(k) ==
  /\ k \in held
  /\ held' = held \ {k}
  /\ p' = IF k \in range THEN PartNoteOff(p, k) ELSE p
  /\ UNCHANGED <<range, running, setup>>

PressPedal ==
  /\ "Pedal" \in setup.events
  /\ p' = PedalDown(p)
  /\ UNCHANGED <<held, range, running, setup>>

ReleasePedal ==
  /\ "Pedal" \in setup.events
  /\ \E order \in SetToSeqs(FlaggedNotes(p)) : p' = PedalUp(p, order)
  /\ UNCHANGED <<held, range, running, setup>>

-----------------------------------------------------------------------------
\* Channel mode messages.
ReceiveAllSoundOff ==
  /\ "AllSoundOff" \in setup.events
  /\ p' = NextUnitSilenced(AllSoundOff(p))
  /\ UNCHANGED <<held, range, running, setup>>

ReceiveAllNotesOff ==
  /\ "AllNotesOff" \in setup.events
  /\ p' = IF p.ignore THEN p ELSE NextUnitSilenced(AllNotesOff(p))
  /\ UNCHANGED <<held, range, running, setup>>

ReceiveResetAllControllers ==
  /\ "ResetAllControllers" \in setup.events
  /\ p' = ResetAllControllers(p)
  /\ UNCHANGED <<held, range, running, setup>>

-----------------------------------------------------------------------------
\* Settings.  A new sequencer mode or direction only takes effect at the next
\* clock step.
ChangePolyphonyMode ==
  /\ "PolyphonyMode" \in setup.events
  /\ \E m \in setup.pmodes : p' = EditPolyphonyMode(p, m)
  /\ UNCHANGED <<held, range, running, setup>>

ChangeSequencerMode ==
  /\ "SequencerMode" \in setup.events
  /\ \E m \in setup.amodes : p' = [p EXCEPT !.amode = m]
  /\ UNCHANGED <<held, range, running, setup>>

ChangeDirection ==
  /\ "Direction" \in setup.events
  /\ \E d \in setup.directions : p' = [p EXCEPT !.dir = d]
  /\ UNCHANGED <<held, range, running, setup>>

ChangeRaga ==
  /\ "Raga" \in setup.events
  /\ \E s \in setup.scales : p' = [p EXCEPT !.scale = s]
  /\ UNCHANGED <<held, range, running, setup>>

ChangeKeyRange ==
  /\ "KeyRange" \in setup.events
  /\ range' \in setup.ranges
  /\ UNCHANGED <<p, held, running, setup>>

LoadProgram ==
  /\ "Load" \in setup.events
  /\ \E pm \in setup.pmodes, am \in setup.amodes, d \in setup.directions,
        s \in setup.scales :
       p' = LoadSettings(p, pm, am, d, s)
  /\ UNCHANGED <<held, range, running, setup>>

ReassignVoices ==
  /\ "AssignVoices" \in setup.events
  /\ \E n \in setup.voices : p' = AssignVoices(p, n)
  /\ UNCHANGED <<held, range, running, setup>>

-----------------------------------------------------------------------------
\* The clock.  MIDI start and stop, and the stop of a clock that has counted
\* clock_release beats without a key.
StartClock ==
  /\ "Start" \in setup.events
  /\ p' = Start(p)
  /\ running' = TRUE
  /\ UNCHANGED <<held, range, setup>>

StopClock ==
  /\ "Stop" \in setup.events
  /\ p' = NextUnitSilenced(Stop(p))
  /\ running' = FALSE
  /\ UNCHANGED <<held, range, setup>>

StopIdleClock ==
  /\ running /\ "Stop" \in setup.events
  /\ p.pressed = <<>>
  /\ p' = Stop(p)
  /\ running' = FALSE
  /\ UNCHANGED <<held, range, setup>>

Clip(note) == IF note < 0 THEN 0 ELSE IF note > MaxNote THEN MaxNote ELSE note

\* A step of ClockSequencer may leave the notes alone: a sequence of length 0,
\* or the inside of a chord.
SequencerSteps(q) ==
  {q}
  \cup (IF q.amode = "NOTE" /\ q.pressed # <<>>
        THEN {StepNoteSequence(q, gate, legato, Clip(TopOf(q.pressed) + o)) :
                gate \in BOOLEAN, legato \in BOOLEAN, o \in setup.offsets}
        ELSE {})
  \cup (IF q.amode = "CHORD" THEN {StepChordSequence(q, c) : c \in setup.chords} ELSE {})

ArpeggioNotes(q) ==
  IF q.pressed = <<>> THEN {NoNote}
  ELSE {n + t : n \in NotesOf(q.pressed), t \in setup.octaves} \cap Notes

\* One step of the clock: Multi::Clock restarts the parts when the sequencer
\* mode of one has changed, then Part::Clock steps the sequencer and the
\* arpeggiator.
Clock ==
  /\ running
  /\ LET q == IF p.amode # p.seen THEN Start(p) ELSE p
     IN  \E r \in SequencerSteps(q), hit \in BOOLEAN :
           \E note \in ArpeggioNotes(r) : p' = StepArpeggiator(r, hit, note)
  /\ UNCHANGED <<held, range, running, setup>>

Next ==
  \/ \E k \in Keys : Press(k)
  \/ \E k \in Keys : Release(k)
  \/ PressPedal \/ ReleasePedal
  \/ ReceiveAllSoundOff \/ ReceiveAllNotesOff \/ ReceiveResetAllControllers
  \/ ChangePolyphonyMode \/ ChangeSequencerMode \/ ChangeDirection
  \/ ChangeRaga \/ ChangeKeyRange \/ LoadProgram \/ ReassignVoices
  \/ StartClock \/ StopClock \/ StopIdleClock
  \/ Clock

Spec == Init /\ [][Next]_vars

-----------------------------------------------------------------------------
Sounding == {p.voice[v] : v \in DOMAIN p.voice} \ {Silent}

\* The user leaves the settings that decide what a key does alone, and does not
\* start a clock that runs.  Part::NoteOff reads the settings again, so changing one
\* while a key is down may leave its note on until the clock stops (part.cc:366);
\* Start forgets the note the clock has sounded, and after a change of direction
\* that note no longer says what has sounded.
SettingsKept ==
  setup.events \cap {"KeyRange", "Raga", "Load", "SequencerMode", "Direction", "Start",
                     "AssignVoices", "ResetAllControllers"} = {}

\* In CYCLIC mode a freed slot reads as note MaxNote, active, and a cleared one
\* as note 0: the allocator cannot tell these two notes from free slots.
CyclicNotesAreTold ==
  "CYCLIC" \in setup.pmodes => \A s \in setup.scales : s \cap {0, MaxNote} = {}

\* pressed_keys_ remembers every key of the player: 12 in the code.
KeysFit == Cardinality(setup.keys) <= KeyCapacity

\* Or it remembers every note that can sound of those played directly.  A note
\* pressed again under the pedal is not touched in the allocator (part.cc:739), so
\* up to twice as many keys as there are voices have been pressed since the oldest
\* of the notes that sound.
KeysCoverVoices == 2 * p.poly.size - 1 <= KeyCapacity /\ MonoCapacity <= KeyCapacity

\* The chain is made of two units of as many voices whose modes are left alone, and
\* no key is forgotten: the next unit then plays the notes that this one has on its
\* far slots, and steals in the same order.  (The code ends what the clock generates on
\* this unit only, part.cc:392.)
ChainIsPlayed ==
  /\ setup.pmodes = {"CHAIN"} /\ setup.amodes = {"STEP"}
  /\ \A n \in setup.voices : NextVoices = n
  /\ KeysFit \/ KeysCoverVoices

\* No stuck note: with no key down and no pedal, nothing sounds, whatever
\* presses, releases, pedal moves, mode messages and polyphony changes led there
\* (part.cc: "we directly kill the note", "Kill all the sustained notes"); and
\* the arpeggiator without keys does not wait for the clock to be silent (part.cc:388,
\* "The sequencer and arpeggiator might still have pending notes.  Release them.").
\* While keys are down, a note sounds on this unit or on the next one of the chain:
\* its note-off is sent to one of them.
NoStuckVoice ==
  /\ SettingsKept /\ CyclicNotesAreTold
  /\ "CHAIN" \in setup.pmodes => ChainIsPlayed
  =>
    /\ \/ p.amode = "STEP" /\ held = {} /\ ~p.ignore /\ (KeysFit \/ KeysCoverVoices)
       \/ p.amode = "NOTE" /\ p.pressed = <<>>
       \/ p.amode = "ARPEGGIATOR" /\ p.pressed = <<>> /\ (p.dir = "CHORD" => KeysFit)
       => Sounding = {} /\ p.chain = <<>>
    /\ Sounding \cap NotesOf(p.chain) = {}

\* The last slot of UNISON_2X with an odd number of voices, more than one, has
\* voice 0 for its second voice, which is also the first slot's.
SlotsAreDisjoint == p.pmode = "UNISON_2X" => p.num = 1 \/ p.num % 2 = 0

\* The voices and the allocator agree: the voices of a slot sound a note exactly
\* when the allocator has that note active on it.  A voice the allocator has
\* forgotten would never be released, and one it wrongly thinks active would be
\* stolen last.  (In CYCLIC mode a freed slot reads as note MaxNote, active.)
\* And a polyphonic aftertouch message reaches the voices that sound its note, and
\* no other ("Send the aftertouch change to the voicecard playing the affected
\* note", part.cc:514); in CYCLIC mode the code only looks at the first half of them.
VoicesMatchAllocator ==
  ~IsMono(p) /\ SlotsAreDisjoint =>
    /\ \A i \in LocalSlots(p) : \A v \in SlotVoices(p, i) :
         LET s == p.poly.pool[i]
         IN  /\ p.voice[v] # Silent => s = On(p.voice[v])
             /\ s.active /\ (p.pmode = "CYCLIC" => s.note # MaxNote) => p.voice[v] = s.note
    /\ p.pmode # "CYCLIC" =>
         \A n \in Sounding : AftertouchVoices(p, n) = {v \in AllVoices(p) : p.voice[v] = n}

\* "Prevent the same note to be allocated twice on two different voices"
\* (part.cc:738).  (In CYCLIC mode the note of the freed slots can be.)
NoteOnOneVoice ==
  p.pmode \in {"POLY", "CYCLIC", "CHAIN"} =>
    \A v, w \in AllVoices(p) :
      /\ p.voice[v] = p.voice[w] /\ p.voice[v] # Silent
      /\ p.pmode = "CYCLIC" => p.voice[v] # MaxNote
      => v = w

\* Last-note priority: in the monophonic modes every voice the part plays on
\* sounds the most recent of the notes it remembers, and is silent when it
\* remembers none; the others stay silent (README.md: "Like mono, but uses a single
\* voice").
MonoSoundsTop ==
  IsMono(p) =>
    \A v \in AllVoices(p) :
      p.voice[v] = IF v \in MonoVoices(p) /\ p.mono # <<>> THEN TopOf(p.mono) ELSE Silent

-----------------------------------------------------------------------------
\* The notes an arpeggio or a sequence generates.

\* The clock owns at most one note, and knows which: whatever keys, pedal,
\* channel mode messages and polyphony changes do between two steps, no voice
\* sounds a note that the next step would not end, and no other note is open on
\* the MIDI output (part.cc:388, "might still have pending notes").
GeneratedNoteIsTracked ==
  /\ SettingsKept /\ CyclicNotesAreTold
  /\ p.amode \in {"ARPEGGIATOR", "NOTE", "LATCH"} /\ p.dir = "LINE"
  => Sounding \cup p.out \subseteq {p.prev}

\* After a step of the arpeggiator only notes of the keys that are on sound,
\* so that in the latch mode a key turned off is off at the next step
\* (README.md:76: "press a key once for note on, again for note off"), unless
\* the keys are played as a chord: a latched key turned off is then forgotten, and
\* so is a key pressed when pressed_keys_ is full.
StepSoundsPressedKeys ==
  [][/\ Clock /\ SettingsKept /\ CyclicNotesAreTold /\ p.amode = p.seen
     /\ \/ p.amode \in {"ARPEGGIATOR", "LATCH"} /\ p.dir = "LINE"
        \/ p.amode = "ARPEGGIATOR" /\ KeysFit
     => Sounding' \subseteq {n + t : n \in NotesOf(p'.pressed), t \in setup.octaves}]_vars

\* Stopping the clock leaves nothing behind, even under the hold pedal: every
\* voice is silent, no key is remembered, and the allocator has no active note.
StopReleasesEverything ==
  [][running /\ ~running' =>
       /\ Sounding' = {} /\ p'.pressed = <<>> /\ p'.mono = <<>>
       /\ \A v \in DOMAIN p'.poly.pool : ~p'.poly.pool[v].active]_vars
=============================================================================
