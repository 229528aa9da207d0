------------------------------- MODULE Envelope -------------------------------
(***************************************************************************)
(* The envelope of a voice card (src/voicecard/envelope.h) in its 8 and    *)
(* 16-bit arithmetic.  Only the curve is coarser than in the code: it is   *)
(* read at every sixteenth point of its table.                             *)
(***************************************************************************)
EXTENDS Naturals, Sequences

Stages == {"ATTACK", "DECAY", "SUSTAIN", "RELEASE", "DEAD"}

NextStage ==
  [ATTACK |-> "DECAY", DECAY |-> "SUSTAIN", SUSTAIN |-> "RELEASE", RELEASE |-> "DEAD"]

HighByte(x) == x \div 256

\* U8MixU16: 255, not 256, is all of b.
Mix(a, b, balance) == a * (255 - balance) + b * balance

\* wav_res_env_expo at 0, 4096, ..., 65536.
ExpoTable == <<0, 57, 102, 137, 164, 185, 201, 214, 224, 232, 238, 243, 246, 249, 251, 253, 255>>

Expo(phase) ==
  LET i == phase \div 4096 + 1
      f == phase % 4096
  IN  (ExpoTable[i] * (4096 - f) + ExpoTable[i + 1] * f) \div 4096

\* The last two stages and the sustained one do not move; Update gives the
\* others their speed.
EnvelopeInit ==
  [stage     |-> "ATTACK",
   start     |-> 0,
   end       |-> 0,
   phase     |-> 0,
   increment |-> 0,
   value     |-> 0,
   target    |-> [s \in Stages |-> IF s = "ATTACK" THEN 255 ELSE 0],
   speed     |-> [s \in Stages |-> 0]]

TriggerFromEnd(e, s) ==
  [e EXCEPT !.start     = e.end,
            !.end       = e.target[s],
            !.stage     = s,
            !.phase     = 0,
            !.increment = e.speed[s]]

TriggerStage(e, s) ==
  LET value == IF s = "DEAD" THEN 0 ELSE e.value
  IN  [stage     |-> s,
       start     |-> HighByte(value),
       end       |-> e.target[s],
       phase     |-> 0,
       increment |-> e.speed[s],
       value     |-> value,
       target    |-> e.target,
       speed     |-> e.speed]

\* The settings of the patch take effect when a stage begins.
Update(e, attack, decay, sustain, release) ==
  [e EXCEPT !.speed  = [@ EXCEPT !["ATTACK"] = attack, !["DECAY"] = decay, !["RELEASE"] = release],
            !.target = [@ EXCEPT !["DECAY"] = 2 * sustain, !["SUSTAIN"] = 2 * sustain]]

\* The phase wraps at 16 bits at the end of a stage.
NextPhase(phase, increment) == (phase + increment) % 65536

Wrapped(phase, increment) == phase < increment

Render(e) ==
  LET phase == NextPhase(e.phase, e.increment)
      r     == IF Wrapped(phase, e.increment)
               THEN TriggerStage([e EXCEPT !.value = Mix(e.start, e.end, 255)], NextStage[e.stage])
               ELSE [e EXCEPT !.phase = phase]
  IN  IF r.increment = 0 THEN r
      ELSE [r EXCEPT !.value = Mix(r.start, r.end, Expo(r.phase))]
=============================================================================
