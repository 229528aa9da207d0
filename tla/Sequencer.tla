------------------------------ MODULE Sequencer ------------------------------
(***************************************************************************)
(* What the clock counts in one part (src/controller/part.cc): the divider *)
(* of the clock, the step of the note sequence, the block of the chord     *)
(* sequence, the walk of the arpeggiator over keys and octaves, and the    *)
(* divisor of the synced LFOs, as functions of a record c:                 *)
(*                                                                         *)
(*   c.prescaler, c.counter   midi_clock_prescaler_, midi_clock_counter_   *)
(*   c.mode, c.seen           arp_sequencer_mode(), arp_previous_mode_     *)
(*   c.length                 sequence_length(2)                           *)
(*   c.seqStep, c.chord       sequencer_step_[2], chord_step_counter_      *)
(*   c.keys                   pressed_keys_.size()                         *)
(*   c.direction, c.octaves   arp_direction(), arp_octave()                *)
(*   c.arpDir, c.arpStep, c.arpOct   arp_direction_, arp_step_, arp_octave_*)
(*   c.bit, c.pattern         the bit of arp_pattern_mask_; the bits set   *)
(*                            in the pattern                               *)
(*   c.gate                   the last step had a note of the arpeggiator  *)
(*   c.synced                 how many LFOs follow the clock               *)
(*   c.fresh                  midi_clock_tick_duration_ is not 0           *)
(*   c.unset                  some LFO increment was divided by 0          *)
(*                                                                         *)
(* Which notes these indices stand for is in PartOps.                      *)
(***************************************************************************)
EXTENDS Integers

CONSTANTS SequenceSteps,   \* 16: the steps of the note sequence
          BlockSteps,      \* 4: its steps in a chord
          PatternBits,     \* 16: arp_pattern_mask_ is a uint16_t
          ByteSize         \* 256: chord_step_counter_ and idle_ticks_ are uint8_t

ASSUME SequencerAssumption ==
  /\ {SequenceSteps, BlockSteps, PatternBits, ByteSize} \subseteq Nat \ {0}
  /\ SequenceSteps % BlockSteps = 0

NumBlocks == SequenceSteps \div BlockSteps

-----------------------------------------------------------------------------
\* The arpeggiator.  Up, the walk starts at the lowest key of the first octave;
\* down, at the highest key of the last.  Without a key that is key -1.
StartArpeggio(c) ==
  IF c.arpDir = 1
  THEN [c EXCEPT !.arpStep = 0, !.arpOct = 0]
  ELSE [c EXCEPT !.arpStep = c.keys - 1, !.arpOct = c.octaves - 1]

Leaves(c) == c.arpStep + c.arpDir \notin 0..(c.keys - 1)

WalkKeepsStep(c) ==  \* variant: the step is tested for equality with the end
  LET s == c.arpStep + c.arpDir
  IN  [c EXCEPT !.arpStep = IF s = c.keys THEN 0 ELSE IF s < 0 THEN c.keys - 1 ELSE s,
                !.arpOct  = IF s = c.keys \/ s < 0 THEN @ + c.arpDir ELSE @]

\* The next key; past the last one, the first of the next octave.
Walk(c) ==
  LET s == c.arpStep + c.arpDir
  IN  [c EXCEPT !.arpStep = IF s >= c.keys THEN 0 ELSE IF s < 0 THEN c.keys - 1 ELSE s,
                !.arpOct  = IF Leaves(c) THEN @ + c.arpDir ELSE @]

\* Variant: the walk leaves out the next key whether it turns or starts again.
RestartSkips(c) ==
  LET t == StartArpeggio(IF c.direction = "UP_DOWN" THEN [c EXCEPT !.arpDir = -@] ELSE c)
  IN  IF c.keys > 1 \/ c.octaves > 1 THEN Walk(t) ELSE t

\* Past the last octave the walk starts again, or turns and leaves out the key
\* it has just played.  Turned, it is in range: the code's recursion ends here.
TurnOrRestart(c) ==
  IF c.direction # "UP_DOWN" THEN StartArpeggio(c)
  ELSE LET t == StartArpeggio([c EXCEPT !.arpDir = -@])
       IN  IF c.keys > 1 \/ c.octaves > 1 THEN Walk(t) ELSE t

StepArpeggio(c) ==
  IF c.direction = "RANDOM"
  THEN {[c EXCEPT !.arpStep = w[1], !.arpOct = w[2]] :
          w \in (0..(c.keys - 1)) \X (0..(c.octaves - 1))}
  ELSE LET w == Walk(c)
       IN  {IF Leaves(c) /\ w.arpOct \notin 0..(c.octaves - 1)
            THEN TurnOrRestart(w) ELSE w}

HasArpeggio(c) == c.mode \in {"ARPEGGIATOR", "LATCH", "CHORD"}

ClockArpeggiator(c) ==
  LET g == [c EXCEPT !.gate = HasArpeggio(c) /\ c.keys > 0 /\ c.bit \in c.pattern,
                     !.bit = (@ + 1) % PatternBits]
  IN  IF g.gate /\ c.direction # "CHORD" THEN StepArpeggio(g) ELSE {g}

-----------------------------------------------------------------------------
\* The note and chord sequences.  sizes are the numbers of notes a block of the
\* chord sequence may have.
StepChord(c, sizes) ==
  {[c EXCEPT !.keys = k,
             !.chord = IF c.length # 0 /\ @ + 1 >= NumBlocks * c.length THEN 0
                       ELSE (@ + 1) % ByteSize] :
     k \in IF c.length = 0 THEN {0} ELSE IF c.chord % c.length = 0 THEN sizes ELSE {c.keys}}

ClockSequencer(c, sizes) ==
  {[q EXCEPT !.seqStep = IF @ + 1 >= c.length \/ (c.mode = "CHORD" /\ @ + 1 >= SequenceSteps)
                         THEN 0 ELSE @ + 1] :
     q \in IF c.mode = "CHORD" THEN StepChord(c, sizes) ELSE {c}}

-----------------------------------------------------------------------------
\* One clock of the part: Part::Clock.  The increment of each synced LFO is
\* divided by the refreshes since the last clock, and their count reset after
\* the first.
ClockLfos(c) ==
  IF c.synced = 0 THEN c
  ELSE [c EXCEPT !.unset = ~c.fresh \/ c.synced > 1, !.fresh = FALSE]

ClockPart(c, sizes) ==
  IF c.counter + 1 < c.prescaler
  THEN {ClockLfos([c EXCEPT !.counter = @ + 1])}
  ELSE {ClockLfos(r) :
          r \in UNION {ClockArpeggiator(q) :
                         q \in ClockSequencer([c EXCEPT !.counter = 0], sizes)}}

\* Part::UpdateLfos, as far as the clock is concerned.
UpdateLfos(c) == [c EXCEPT !.fresh = @ \/ c.synced > 0]

SignOf(direction) == IF direction = "DOWN" THEN -1 ELSE 1

\* Part::Start: the next clock is a step.
StartPart(c) ==
  StartArpeggio([c EXCEPT !.seqStep = 0, !.counter = c.prescaler, !.chord = 0,
                          !.bit = 0, !.arpDir = SignOf(c.direction), !.seen = c.mode])

\* Part::Stop, for what is counted here.
StopPart(c) == [c EXCEPT !.keys = 0]

\* SetValue and what it recomputes.
EditResolution(c, p) == [c EXCEPT !.prescaler = p]
EditMode(c, m)       == [c EXCEPT !.mode = m]
EditLength(c, n)     == [c EXCEPT !.length = n]
EditOctaves(c, n)    == [c EXCEPT !.octaves = n]
EditDirection(c, d)  == StartArpeggio([c EXCEPT !.direction = d, !.arpDir = SignOf(d)])
=============================================================================
