----------------------------- MODULE VoiceEngine -----------------------------
(***************************************************************************)
(* The sound of one voice card (src/voicecard/voice.cc) as far as it has a *)
(* memory: the envelope that opens its amplifier and the glide of its      *)
(* pitch.  The main loop of voicecard.cc alternates between rendering a    *)
(* block of audio, when the interrupt has made room for one, and executing *)
(* the messages that have come in (voicecard_rx.h), so a note, a release   *)
(* or a write can come between any two blocks.                             *)
(*                                                                         *)
(* The three envelopes are alike; the one here is ENV_2, which the patch   *)
(* sends to the amplifier.  The other routes of the modulation matrix, the *)
(* oscillators and the samples are left out.                               *)
(***************************************************************************)
EXTENDS Envelope, Integers

CONSTANTS
  Pitches,      \* the notes, in 128ths of a semitone; 0 also means no pitch yet
  Choices,      \* the values each setting may be given
  InitSettings, \* what Voice::Init gives them
  MaxMessages   \* bounds the messages of a run

PitchValues == 0..16383

\* The times are entries of lut_res_env_portamento_increments.
Increments == 1..65535

\* What the bytes of the patch and of the part that matter here may hold.
Settings ==
  [attack : Increments, decay : Increments, sustain : 0..127, release : Increments,
   amount : 0..63, legato : BOOLEAN, glide : Increments]

ASSUME EngineAssumption ==
  /\ Pitches \subseteq PitchValues
  /\ InitSettings \in Settings
  /\ Choices \in [attack : SUBSET Increments, decay : SUBSET Increments, sustain : SUBSET (0..127),
                  release : SUBSET Increments, amount : SUBSET (0..63), legato : SUBSET BOOLEAN,
                  glide : SUBSET Increments]

VARIABLES
  env,
  pitch,      \* pitch_value, pitch_target and pitch_increment
  gate,
  vca,        \* modulation_destinations[MOD_DST_VCA] of the last block
  settings,
  blocks,     \* the first block comes before the first message
  sent

vars == <<env, pitch, gate, vca, settings, blocks, sent>>

\* Voice::Init forgets the pitch, not where a glide was going, and ends with Kill.
InitVoice(e) ==
  TriggerStage([e EXCEPT !.target = [@ EXCEPT !["ATTACK"] = 255, !["RELEASE"] = 0, !["DEAD"] = 0],
                         !.speed  = [@ EXCEPT !["SUSTAIN"] = 0, !["DEAD"] = 0]],
               "DEAD")

Init ==
  /\ env = InitVoice(EnvelopeInit)
  /\ pitch = [value |-> 0, target |-> 0, increment |-> 0]
  /\ gate = FALSE
  /\ vca = 0
  /\ settings \in [attack : Choices.attack, decay : Choices.decay, sustain : Choices.sustain,
                   release : Choices.release, amount : Choices.amount,
                   legato : Choices.legato, glide : Choices.glide]
  /\ blocks = FALSE
  /\ sent = 0

-----------------------------------------------------------------------------
\* Messages.
MessageBeforeBlocks == sent < MaxMessages /\ sent' = sent + 1 /\ UNCHANGED <<vca, blocks>>

\* The main loop renders a block before it looks for messages: the envelopes
\* know their speeds by then.
Message == blocks /\ sent < MaxMessages /\ sent' = sent + 1 /\ UNCHANGED <<vca, blocks>>

\* S32 arithmetic: the high word of a negative product is rounded down, and a
\* glide never stands still.
GlideIncrement(delta, speed) ==
  LET increment == (delta * speed) \div 65536
  IN  IF increment # 0 THEN increment ELSE IF delta < 0 THEN -1 ELSE 1

Trigger(note, slur) ==
  /\ Message
  /\ IF settings.legato /\ slur
     THEN UNCHANGED <<env, gate>>
     ELSE env' = TriggerStage(env, "ATTACK") /\ gate' = TRUE
  /\ pitch' = IF pitch.value = 0 \/ (settings.legato /\ ~slur)
              THEN [value |-> note, target |-> note, increment |-> 1]
              ELSE [pitch EXCEPT !.target = note,
                                 !.increment = GlideIncrement(note - pitch.value, settings.glide)]
  /\ UNCHANGED settings

Release ==
  /\ Message
  /\ gate' = FALSE
  /\ env' = TriggerStage(env, "RELEASE")
  /\ UNCHANGED <<pitch, settings>>

\* Kill leaves the gate as it was.
Kill ==
  /\ Message
  /\ env' = TriggerStage(env, "DEAD")
  /\ UNCHANGED <<pitch, gate, settings>>

\* COMMAND_RETRIGGER_ENVELOPE, which an LFO of the part sends at every cycle.
RetriggerEnvelope ==
  /\ Message
  /\ env' = TriggerStage(env, "ATTACK")
  /\ UNCHANGED <<pitch, gate, settings>>

Reset ==
  /\ Message
  /\ env' = InitVoice(env)
  /\ pitch' = [pitch EXCEPT !.value = 0]
  /\ settings' = InitSettings
  /\ UNCHANGED gate

WriteData ==
  /\ Message
  /\ \E f \in DOMAIN settings : \E x \in Choices[f] : settings' = [settings EXCEPT ![f] = x]
  /\ UNCHANGED <<env, pitch, gate>>

-----------------------------------------------------------------------------
\* The amplifier: the full volume, 254, scaled by as much of the envelope as
\* the patch routes to it.
Amplified(level, amount) ==
  (254 * (IF amount = 63 THEN level ELSE HighByte(Mix(255, level, 4 * amount)))) \div 256

GlidedOnEquality(q) ==
  LET next == q.value + q.increment
  IN  IF next = q.target THEN [value |-> q.target, target |-> q.target, increment |-> 0]
      ELSE [q EXCEPT !.value = next]

\* The glide has arrived when a step reaches the target or leaves it behind.
Glided(q) ==
  LET next == q.value + q.increment
  IN  IF (q.increment > 0) # (next < q.target)
      THEN [value |-> q.target, target |-> q.target, increment |-> 0]
      ELSE [q EXCEPT !.value = next]

\* ProcessBlock.  The oscillators, and with them the glide, are skipped when
\* the amplifier is closed.
Block ==
  /\ env' = Update(Render(env), settings.attack, settings.decay, settings.sustain, settings.release)
  /\ vca' = Amplified(HighByte(env'.value), settings.amount)
  /\ pitch' = IF vca' < 2 THEN pitch ELSE Glided(pitch)
  /\ blocks' = TRUE
  /\ UNCHANGED <<gate, settings, sent>>

Next ==
  \/ \E note \in Pitches, slur \in BOOLEAN : Trigger(note, slur)
  \/ Release \/ Kill \/ RetriggerEnvelope \/ Reset \/ WriteData
  \/ Block

Spec == Init /\ [][Next]_vars

\* The audio interrupt keeps making room for the next block.
FairSpec == Spec /\ WF_vars(Block)

-----------------------------------------------------------------------------
\* From the release to the next trigger a note only fades, whatever stage it
\* was released in and whatever is written meanwhile: the envelope starts each
\* segment where it stands (envelope.h, segment_start_value).
ReleaseOnlyFades ==
  [][env'.stage \in {"RELEASE", "DEAD"} => env'.value <= env.value]_vars

\* A glide moves towards its note and stops there: a block never carries the
\* pitch past its target, nor away from it.
GlideStopsAtTarget ==
  [][Block /\ pitch.value # 0 =>
       \/ pitch.value <= pitch'.value /\ pitch'.value <= pitch.target
       \/ pitch.value >= pitch'.value /\ pitch'.value >= pitch.target]_vars

\* When the messages stop, the voice settles: no segment of the envelope lasts
\* for ever, whichever was begun last and with whatever settings, and the pitch
\* becomes that of the last note unless the amplifier closes first.
VoiceSettles ==
  <>[](/\ env.stage \in {"SUSTAIN", "DEAD"}
       /\ env.stage = "DEAD" => env.value = 0
       /\ pitch.value = pitch.target \/ vca < 2)
=============================================================================
