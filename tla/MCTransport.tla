----------------------------- MODULE MCTransport ------------------------------
(***************************************************************************)
(* The setups of the clock.  Durations are a few interrupts instead of     *)
(* hundreds; with a low byte of two values, both bytes of 2 and of 1       *)
(* differ.                                                                 *)
(***************************************************************************)
EXTENDS Transport

Durations ==
  [SLOW     |-> [s \in 0..1 |-> IF s = 0 THEN 2 ELSE 1],
   FAST     |-> [s \in 0..1 |-> 1],
   EXTERNAL |-> [s \in 0..1 |-> 1]]

Quiet ==
  [parts       |-> {1},
   tempos      |-> {"FAST"},
   releases    |-> {1},
   resolutions |-> {2},
   modes       |-> {"STEP"},
   directions  |-> {"UP"},
   octaves     |-> {1},
   lengths     |-> {1},
   patterns    |-> {{0}},
   synced      |-> {0},
   maxKeys     |-> 1,
   backlog     |-> 0,
   events      |-> {}]

-----------------------------------------------------------------------------
\* The hand-over of pulses: a clock with a groove, which the player stops, starts,
\* and changes for an external one, in front of one part.
Pulsing ==
  [Quiet EXCEPT !.tempos   = {"SLOW", "EXTERNAL"},
                !.releases = {0, 1},
                !.backlog  = 2,
                !.events   = {"Start", "Stop"}]

\* Two parts whose modes are changed under the clock.
TwoParts ==
  [Quiet EXCEPT !.parts    = {1, 2},
                !.modes    = {"STEP", "NOTE"},
                !.backlog  = 1,
                !.events   = {"Stop"}]

\* An arpeggio under every edit.
Arpeggio ==
  [Quiet EXCEPT !.tempos      = {"EXTERNAL"},
                !.resolutions = {1},
                !.modes       = {"ARPEGGIATOR"},
                !.directions  = {"UP", "DOWN", "UP_DOWN", "RANDOM", "CHORD"},
                !.octaves     = {1, 2},
                !.maxKeys     = 3,
                !.events      = {"Load"}]

\* The chord sequence under edits of its length.
Chords ==
  [Quiet EXCEPT !.tempos      = {"EXTERNAL"},
                !.resolutions = {1},
                !.modes       = {"CHORD", "ARPEGGIATOR"},
                !.lengths     = {1, 3},
                !.events      = {"Stop"}]

Playing == {Pulsing, TwoParts, Arpeggio, Chords}

=============================================================================
