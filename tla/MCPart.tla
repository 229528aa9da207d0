-------------------------------- MODULE MCPart --------------------------------
(***************************************************************************)
(* The setups of a part that the runs explore.  Each starts from Plain, a  *)
(* keyboard of three keys on a part of two polyphonic voices, and names    *)
(* what it changes.                                                        *)
(***************************************************************************)
EXTENDS Part

Plain ==
  [keys       |-> {60, 62, 64},
   ranges     |-> {{60, 62, 64, 65}},
   scales     |-> {{60, 62, 64, 65, 72, 74, 76}},
   voices     |-> {2},
   pmodes     |-> {"POLY"},
   amodes     |-> {"STEP"},
   directions |-> {"LINE"},
   octaves    |-> {0},
   offsets    |-> {},
   chords     |-> {},
   events     |-> {}]

ModeMessages == {"Pedal", "AllSoundOff", "AllNotesOff", "Stop"}

-----------------------------------------------------------------------------
\* Keys played directly, one more than pressed_keys_ holds, with one voice and
\* with two, and every polyphony mode of one unit.
Step ==
  [Plain EXCEPT !.keys   = {60, 62, 64, 65},
                !.voices = {1, 2},
                !.pmodes = {"MONO", "SOLO", "POLY", "CYCLIC", "UNISON_2X"},
                !.events = ModeMessages \cup {"PolyphonyMode"}]

\* The first of two units in a chain, each with one voice.
Chain ==
  [Plain EXCEPT !.keys   = {60, 62, 64, 65},
                !.voices = {1},
                !.pmodes = {"CHAIN"},
                !.events = ModeMessages]

\* One note at a time, from the arpeggiator or the note sequence.
Generated ==
  [Plain EXCEPT !.keys    = {60, 62},
                !.pmodes  = {"MONO", "POLY", "CYCLIC", "UNISON_2X"},
                !.amodes  = {"ARPEGGIATOR", "NOTE", "LATCH"},
                !.octaves = {0, 12},
                !.offsets = {0, 2},
                !.events  = ModeMessages \cup {"PolyphonyMode"}]

\* All the keys at once, at every step.
Chord ==
  [Plain EXCEPT !.pmodes     = {"MONO", "POLY"},
                !.amodes     = {"ARPEGGIATOR"},
                !.directions = {"CHORD"},
                !.events     = ModeMessages]

\* Blocks of notes from the sequence: chords that share notes, one of them
\* longer than the part has voices, and one that is all rests.
ChordSequence ==
  [Plain EXCEPT !.keys       = {60},
                !.pmodes     = {"MONO", "POLY"},
                !.amodes     = {"CHORD"},
                !.directions = {"LINE", "CHORD"},
                !.chords     = {<<60, 64>>, <<62, 65>>, <<60, 62, 65>>, <<>>},
                !.events     = {"AllSoundOff", "AllNotesOff", "Direction", "Start", "Stop"}]

\* Settings that change while keys are down.
KeyEdits ==
  [Plain EXCEPT !.keys   = {60, 62},
                !.ranges = {{60, 62}, {60}},
                !.scales = {{60, 62}, {60}},
                !.voices = {1, 2},
                !.pmodes = {"MONO", "POLY"},
                !.events = {"Pedal", "AllNotesOff", "ResetAllControllers", "PolyphonyMode",
                            "Raga", "KeyRange", "Load", "AssignVoices", "Stop"}]

ModeEdits ==
  [Plain EXCEPT !.keys       = {60, 62},
                !.pmodes     = {"MONO", "POLY"},
                !.amodes     = {"STEP", "LATCH"},
                !.directions = {"LINE", "CHORD"},
                !.events     = ModeMessages \cup
                               {"ResetAllControllers", "PolyphonyMode", "SequencerMode",
                                "Direction", "Load", "Start"}]

\* The latch mode, under the pedal.
Latching ==
  [Plain EXCEPT !.keys   = {60, 62},
                !.pmodes = {"MONO", "POLY"},
                !.amodes = {"LATCH"},
                !.events = {"Pedal", "AllNotesOff", "Stop"}]

Playing == {Step, Chain, Generated, Chord, ChordSequence, KeyEdits, ModeEdits, Latching}
=============================================================================
