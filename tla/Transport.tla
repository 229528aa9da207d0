----------------------------- MODULE Transport ------------------------------
(***************************************************************************)
(* The clock of the controller: the interrupt that counts time             *)
(* (Multi::Tick in src/controller/multi.h, called by TIMER2_OVF_vect), the *)
(* main loop that takes the pulses it makes (Multi::UpdateClocks,          *)
(* Multi::Clock in multi.cc), the transport, and the counters of the parts *)
(* (Sequencer).  The interrupt can come between any two steps of the main  *)
(* loop.                                                                   *)
(*                                                                         *)
(* tick_duration_ has two bytes, which the main loop stores one after the  *)
(* other: an interrupt between the two reads one new and one old byte.     *)
(*                                                                         *)
(* Bounds: the backlog and the keys of a setup.  num_clock_events_ wraps   *)
(* at 256, 2.6 seconds at the fastest tempo; the main loop is assumed to   *)
(* come round before.  A backlog of 0 leaves the timer out, for setups     *)
(* that only follow an external clock, where its pulses are dropped.       *)
(***************************************************************************)
EXTENDS Sequencer

CONSTANTS Setups,          \* which parts, settings and events a run explores
          TicksPerStep,    \* kNumTicksPerStep
          GrooveSteps,     \* kNumStepsInGroovePattern
          TicksPerBeat,    \* 24
          DurationTable,   \* tick_duration_table_, by tempo and step
          LowByte          \* 256: where the two bytes of a duration part

Setup ==
  [parts      : SUBSET Nat,
   tempos     : SUBSET (DOMAIN DurationTable),
   releases   : SUBSET Nat,           \* clock_release, in beats
   resolutions: SUBSET Nat,           \* clocks per step
   modes      : SUBSET {"STEP", "ARPEGGIATOR", "NOTE", "CHORD"},
   directions : SUBSET {"UP", "DOWN", "UP_DOWN", "RANDOM", "CHORD"},
   octaves    : SUBSET Nat,
   lengths    : SUBSET Nat,
   patterns   : SUBSET (SUBSET Nat),
   synced     : SUBSET Nat,           \* how many LFOs follow the clock
   maxKeys    : Nat,                  \* bound on the keys down on a part
   backlog    : Nat,                  \* bound on num_clock_events_
   events     : SUBSET STRING]        \* which of the optional events happen

ASSUME TransportAssumption ==
  /\ {TicksPerStep, GrooveSteps, TicksPerBeat, LowByte}
       \subseteq Nat \ {0}
  /\ \A t \in DOMAIN DurationTable : DurationTable[t] \in [0..(GrooveSteps - 1) -> Nat \ {0}]
  /\ \A s \in Setups : s \in Setup /\ 0 \notin s.resolutions \cup s.octaves

VARIABLES
  count,      \* clock_counter_
  duration,   \* tick_duration_
  before,     \* what it was before the last step of the main loop
  events,     \* num_clock_events_
  pc,         \* where the main loop is: serving, or inside UpdateClocks
  pending,    \* pending_clock_events
  refresh,    \* lfo_refresh_counter_ has reached kControlRate
  tick,       \* tick_count_
  step,       \* step_count_
  idle,       \* idle_ticks_
  running,    \* running_
  tempo,      \* clock_bpm and groove
  release,    \* clock_release
  part,       \* the parts
  setup       \* never changes

timer     == <<count, events>>
transport == <<tick, step, idle, running>>
settings  == <<tempo, release>>
vars == <<count, duration, before, events, pc, pending, refresh, tick, step, idle,
          running, tempo, release, part, setup>>

Parts == DOMAIN part

\* Below 40 BPM the unit follows an external clock.
Internal == tempo # "EXTERNAL"

Init ==
  /\ setup \in Setups
  /\ count = 0 /\ events = 0 /\ pc = "serve" /\ pending = 0 /\ refresh = FALSE
  /\ tick = 0 /\ step = 0 /\ idle = 0 /\ running = FALSE
  /\ tempo \in setup.tempos /\ release \in setup.releases
  /\ duration = DurationTable[tempo][0] /\ before = duration
  /\ \E r \in setup.resolutions, m \in setup.modes, d \in setup.directions,
        o \in setup.octaves, n \in setup.lengths, b \in setup.patterns, y \in setup.synced :
       part = [i \in setup.parts |->
         StartPart([prescaler |-> r, counter |-> 0, mode |-> m, seen |-> m, length |-> n,
                    seqStep |-> 0, chord |-> 0, keys |-> 0, direction |-> d,
                    octaves |-> o, arpDir |-> 1, arpStep |-> 0, arpOct |-> 0, bit |-> 0,
                    pattern |-> b, gate |-> FALSE, synced |-> y, fresh |-> FALSE,
                    unset |-> FALSE])]

-----------------------------------------------------------------------------
\* The interrupt.

Mixed(a, b) == {LowByte * (a \div LowByte) + (b % LowByte),
                LowByte * (b \div LowByte) + (a % LowByte)}

\* Values of tick_duration_ the interrupt may read.
Readable == {duration} \cup Mixed(before, duration)

TickOutOfLock ==     \* variant: interrupts stay enabled while the events are taken
  /\ \E d \in Readable :
       IF count + 1 >= d THEN events < setup.backlog /\ events' = events + 1 /\ count' = 0 /\ refresh' = TRUE
       ELSE count' = count + 1 /\ UNCHANGED <<events, refresh>>
  /\ before' = duration
  /\ UNCHANGED <<duration, pc, pending, transport, settings, part, setup>>

\* Between two events there are at least ten refreshes of the LFOs.
Tick ==
  /\ pc # "locked"
  /\ \E d \in Readable :
       IF count + 1 >= d
       THEN events < setup.backlog /\ events' = events + 1 /\ count' = 0 /\ refresh' = TRUE
       ELSE count' = count + 1 /\ UNCHANGED <<events, refresh>>
  /\ before' = duration
  /\ UNCHANGED <<duration, pc, pending, transport, settings, part, setup>>

-----------------------------------------------------------------------------
\* The main loop.  A step that may store tick_duration_ says so by Store.
Store(d) == duration' = d /\ before' = duration
Keep     == Store(duration)

\* UpdateClocks: the LFOs are refreshed, then the events taken with interrupts
\* disabled.
LockEvents ==
  /\ pc = "serve"
  /\ part' = IF refresh THEN [i \in Parts |-> UpdateLfos(part[i])] ELSE part
  /\ refresh' = FALSE
  /\ pending' = events
  /\ pc' = "locked"
  /\ Keep
  /\ UNCHANGED <<timer, transport, settings, setup>>

ClearEvents ==
  /\ pc = "locked"
  /\ events' = 0
  /\ pc' = IF pending = 0 THEN "serve" ELSE "work"
  /\ Keep
  /\ UNCHANGED <<count, pending, refresh, transport, settings, part, setup>>

\* An external clock: the events of the timer are not used.
DropEvents ==
  /\ pc = "work" /\ ~Internal
  /\ pending' = 0 /\ pc' = "serve"
  /\ Keep
  /\ UNCHANGED <<timer, refresh, transport, settings, part, setup>>

\* A change of the sequencer mode of one part restarts all of them.
SyncChangedPart ==   \* variant: only the part whose mode has changed restarts
  [i \in Parts |-> IF part[i].seen # part[i].mode THEN StartPart(part[i]) ELSE part[i]]

SyncPartClocks ==
  IF \E i \in Parts : part[i].seen # part[i].mode
  THEN [i \in Parts |-> StartPart(part[i])] ELSE part

\* The sizes of the next block of the chord sequence.
Blocks == 0..2

Idle(ps) == \A i \in Parts : ps[i].keys = 0

ExpiredAtEquality(n) == n = release * TicksPerBeat + 1     \* variant: not found later

Expired(n) == n > release * TicksPerBeat

\* Multi::Clock.  Counted from the last key, clock_release beats later the clock
\* stops; only the timer's clock does.
ClockMulti ==
  /\ LET wrap  == tick + 1 = TicksPerStep
         next  == IF wrap THEN (step + 1) % GrooveSteps ELSE step
     IN  /\ tick' = IF wrap THEN 0 ELSE tick + 1
         /\ step' = next
         /\ Store(IF wrap THEN DurationTable[tempo][next] ELSE duration)
  /\ IF ~running THEN UNCHANGED <<part, idle, running>>
     ELSE \E ps \in [Parts -> UNION {ClockPart(SyncPartClocks[i], Blocks) : i \in Parts}] :
            /\ \A i \in Parts : ps[i] \in ClockPart(SyncPartClocks[i], Blocks)
            /\ LET n == IF ~Internal THEN idle ELSE IF Idle(ps) THEN (idle + 1) % ByteSize ELSE 0
                   stop == Internal /\ Expired(n)
               IN  /\ idle' = n
                   /\ running' = ~stop
                   /\ part' = IF stop THEN [i \in Parts |-> StopPart(ps[i])] ELSE ps

WorkOff ==
  /\ pc = "work" /\ Internal
  /\ pending' = pending - 1
  /\ pc' = IF pending = 1 THEN "serve" ELSE "work"
  /\ ClockMulti
  /\ UNCHANGED <<timer, refresh, settings, setup>>

-----------------------------------------------------------------------------
\* What the main loop serves: MIDI and the keys.
Serving == pc = "serve" /\ UNCHANGED <<timer, pc, pending, refresh, setup>>

ReceiveClock ==
  /\ Serving /\ ~Internal
  /\ ClockMulti
  /\ UNCHANGED settings

\* Multi::Start with the parts in state ps.
StartMulti(ps) ==
  /\ tick' = 0 /\ step' = 0 /\ idle' = 0 /\ running' = TRUE
  /\ part' = [i \in Parts |-> StartPart(ps[i])]
  /\ Store(DurationTable[tempo][0])

ReceiveStart ==
  /\ Serving /\ "Start" \in setup.events
  /\ StartMulti(part)
  /\ UNCHANGED settings

ReceiveStop ==
  /\ Serving /\ "Stop" \in setup.events
  /\ part' = [i \in Parts |-> StopPart(part[i])]
  /\ running' = FALSE
  /\ Keep
  /\ UNCHANGED <<tick, step, idle, settings>>

\* Keys are counted by the part, except in the chord mode.
MoreKeys(c) == IF c.mode = "CHORD" THEN c ELSE [c EXCEPT !.keys = @ + 1]

\* A note-on starts the clock first; the part then sees the key.
PressKey(i) ==
  /\ Serving /\ part[i].keys < setup.maxKeys
  /\ IF running
     THEN /\ part' = [part EXCEPT ![i] = MoreKeys(@)]
          /\ Keep /\ UNCHANGED transport
     ELSE /\ tick' = 0 /\ step' = 0 /\ idle' = 0 /\ running' = TRUE
          /\ part' = [j \in Parts |-> IF j = i THEN MoreKeys(StartPart(part[j]))
                                      ELSE StartPart(part[j])]
          /\ Store(DurationTable[tempo][0])
  /\ UNCHANGED settings

ReleaseKey(i) ==
  /\ Serving /\ part[i].keys > 0 /\ part[i].mode # "CHORD"
  /\ part' = [part EXCEPT ![i].keys = @ - 1]
  /\ Keep
  /\ UNCHANGED <<transport, settings>>

-----------------------------------------------------------------------------
\* Settings.
EditPart(i) ==
  /\ Serving
  /\ \/ \E r \in setup.resolutions : part' = [part EXCEPT ![i] = EditResolution(@, r)]
     \/ \E m \in setup.modes : part' = [part EXCEPT ![i] = EditMode(@, m)]
     \/ \E n \in setup.lengths : part' = [part EXCEPT ![i] = EditLength(@, n)]
     \/ \E o \in setup.octaves : part' = [part EXCEPT ![i] = EditOctaves(@, o)]
     \/ \E d \in setup.directions \ {part[i].direction} :
          part' = [part EXCEPT ![i] = EditDirection(@, d)]
  /\ Keep
  /\ UNCHANGED <<transport, settings>>

\* A program brings all of them, and is only told to the divider (Part::Touch).
Reloaded(c, r, m, n, o, d) ==
  [c EXCEPT !.prescaler = r, !.mode = m, !.length = n, !.octaves = o, !.direction = d]

LoadProgram(i) ==
  /\ Serving /\ "Load" \in setup.events
  /\ \E r \in setup.resolutions, m \in setup.modes, n \in setup.lengths,
        o \in setup.octaves, d \in setup.directions :
       part' = [part EXCEPT ![i] = Reloaded(@, r, m, n, o, d)]
  /\ Keep
  /\ UNCHANGED <<transport, settings>>

\* ComputeInternalClockOverflowsTable: the duration of the first step is used
\* until the next step.
EditTempo ==
  /\ Serving
  /\ tempo' \in setup.tempos
  /\ Store(DurationTable[tempo'][0])
  /\ UNCHANGED <<transport, release, part>>

EditRelease ==
  /\ Serving
  /\ release' \in setup.releases
  /\ Keep
  /\ UNCHANGED <<transport, tempo, part>>

AnyPart  == UNION {s.parts : s \in Setups}
MostKeys == CHOOSE n \in {s.maxKeys : s \in Setups} : \A s \in Setups : s.maxKeys <= n

MainLoop == LockEvents \/ ClearEvents \/ DropEvents \/ WorkOff

Next ==
  \/ Tick
  \/ MainLoop
  \/ ReceiveClock \/ ReceiveStart \/ ReceiveStop
  \/ \E i \in AnyPart : i \in Parts /\ (PressKey(i) \/ ReleaseKey(i) \/ EditPart(i) \/ LoadProgram(i))
  \/ EditTempo \/ EditRelease

Spec == Init /\ [][Next]_vars

\* The timer never stops (an interrupt that comes while they are disabled stays
\* pending until they are enabled), and the main loop always comes round.
FairSpec == Spec /\ SF_vars(Tick) /\ WF_vars(MainLoop)

-----------------------------------------------------------------------------
\* No pulse of the timer is lost or taken twice between the interrupt and the
\* main loop, whatever interleaves, and the song position moves with them alone
\* (multi.cc:253, "A foreground decrement can otherwise overwrite an interrupt
\* increment on AVR").
Pulses == INSTANCE ClockPulses
  WITH Period   <- TicksPerStep * GrooveSteps,
       due      <- IF pc = "locked" THEN events ELSE events + pending,
       position <- TicksPerStep * step + tick,
       internal <- Internal

ImplementsClockPulses == Pulses!Spec

OneResolution == \A r, s \in setup.resolutions : r = s

\* Parts that divide the clock alike stay in step for ever, whichever of them
\* changes its sequencer mode and whenever the clock stops and starts
\* (multi.cc:132, "Sync Prts workaroud").
PartsStepTogether ==
  OneResolution =>
    \A i, j \in Parts : part[i].counter = part[j].counter /\ part[i].bit = part[j].bit

\* A clock step of a part.
Steps(i) == /\ WorkOff \/ ReceiveClock
            /\ running /\ running' /\ part'[i].counter = 0

\* Whatever came and went between two steps, keys, octaves, lengths and modes,
\* the arpeggiator plays a key that is down, in an octave that was once set,
\* and the chord counter is back in the sequence after one step.
IndicesInRange ==
  [][\A i \in Parts : Steps(i) =>
       LET c == part'[i]
       IN  /\ c.gate /\ c.direction # "CHORD" =>
                /\ c.arpStep \in 0..(c.keys - 1)
                /\ c.arpOct >= 0 /\ \E o \in setup.octaves : c.arpOct < o
           /\ c.mode = "CHORD" /\ c.length # 0 => c.chord < NumBlocks * c.length]_vars

\* Every key is played: once keys and settings are left alone and while the
\* external clock, if that is used, goes on, the walk of the arpeggiator comes to
\* each of them again and again, in every direction that is not random.
OnlyTimePasses == Tick \/ MainLoop \/ ReceiveClock

EveryKeyIsPlayed ==
  \A i \in AnyPart, k \in 0..(MostKeys - 1) :
    SF_vars(ReceiveClock) /\ <>[][OnlyTimePasses]_vars =>
      []<>(\/ i \notin Parts
           \/ ~running \/ k >= part[i].keys
           \/ part[i].mode # "ARPEGGIATOR" \/ part[i].direction \in {"RANDOM", "CHORD"}
           \/ part[i].gate /\ part[i].arpStep = k)

\* A clock nobody plays to stops: with the internal clock and no key on any part
\* it stops, unless a key is played or a start message comes (multi.cc:202, "It
\* looks like we are counting beats for nothing").
IdleClockStops ==
  <>[][~ReceiveStart]_vars =>
    ((running /\ Internal /\ Idle(part))
       ~> (~running \/ ~Internal \/ ~Idle(part)))

=============================================================================
