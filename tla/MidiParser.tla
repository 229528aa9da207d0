----------------------------- MODULE MidiParser ------------------------------
(***************************************************************************)
(* The MIDI parser (MidiStreamParser in src/midi/midi.h) and what the      *)
(* dispatcher forwards of what it hears (src/controller/midi_dispatcher.h),*)
(* as functions of the parser's state p and of the next byte b:            *)
(*                                                                         *)
(*   p.status    running_status_                                           *)
(*   p.data      data_, as far as data_size_                               *)
(*   p.expected  expected_data_size_                                       *)
(*                                                                         *)
(* A message is the sequence of its status and data bytes.  The bytes of a *)
(* SysEx message are heard one by one, the first and the last as <<\hF0>>  *)
(* and <<\hF7>>.                                                           *)
(***************************************************************************)
EXTENDS Integers, Sequences

PowerUp == [status |-> 0, data |-> <<>>, expected |-> 0]

IsStatus(b)   == b >= 128
IsRealtime(b) == b >= \hF8
High(b)       == b - (b % 16)

\* How many data bytes the parser waits for.
Expects(b) ==
  CASE High(b) \in {\h80, \h90, \hA0, \hB0, \hE0} \/ b \in {\hF1, \hF2} -> 2
    [] b >= \hF4                                                       -> 0
    [] OTHER                                                           -> 1

\* The parser with the byte in, before it looks whether the message is complete.
Feed(p, b) ==
  IF IsStatus(b) THEN [status |-> IF b = \hF7 THEN 0 ELSE b, data |-> <<>>, expected |-> Expects(b)]
  ELSE [p EXCEPT !.data = Append(@, b)]

Complete(p) == Len(p.data) >= p.expected

\* A complete channel message leaves its status for the next one; a complete
\* system message does not.
PushByte(p, b) ==
  LET f == Feed(p, b)
  IN  IF IsRealtime(b) THEN p
      ELSE IF ~Complete(f) THEN f
      ELSE IF f.status > \hF0 THEN PowerUp
      ELSE [f EXCEPT !.data = <<>>]

\* What a byte makes the device hear: nothing, <<>>, or one message.  System
\* common messages are not implemented, and data without a status are ignored.
Hears(p, b) ==
  LET f == Feed(p, b)
  IN  IF IsRealtime(b) \/ b = \hF0 THEN <<b>>
      ELSE IF b = \hF7 THEN IF p.status = \hF0 THEN <<b>> ELSE <<>>
      ELSE IF ~Complete(f) \/ f.status = 0 \/ f.status > \hF0 THEN <<>>
      ELSE IF f.status = \hF0 THEN f.data
      ELSE <<f.status>> \o f.data

IsNote(status) == High(status) \in {\h80, \h90}

-----------------------------------------------------------------------------
\* Which bytes go to the MIDI output.

\* RawMidiData: a realtime byte goes out with the data received so far.
RawMidiData(p, b) ==
  LET f == Feed(p, b) IN IF IsRealtime(b) THEN <<b>> \o p.data ELSE <<f.status>> \o f.data

SysExForwardedTwice(p, b) ==    \* variant: data of a SysEx message go to RawMidiData too
  IF b \in {\hF0, \hF7} THEN <<b>>
  ELSE IF ~IsRealtime(b) /\ ~Complete(Feed(p, b)) THEN <<>>
  ELSE IF ~IsRealtime(b) /\ Feed(p, b).status = \hF0 THEN RawMidiData(p, b) \o <<b>>
  ELSE RawMidiData(p, b)

\* In the modes FULL and CHAIN.  The end of a SysEx message is followed by a
\* message without a status.
ForwardMessages(p, b) ==
  IF b = \hF0 THEN <<b>>
  ELSE IF b = \hF7 THEN (IF p.status = \hF0 THEN <<b>> ELSE <<>>) \o <<0>>
  ELSE IF ~IsRealtime(b) /\ ~Complete(Feed(p, b)) THEN <<>>
  ELSE IF ~IsRealtime(b) /\ Feed(p, b).status = \hF0 THEN <<b>>
  ELSE RawMidiData(p, b)

NotANote(p, b) == IsRealtime(b) \/ ~IsNote(Feed(p, b).status)

Forward(mode, p, b) ==
  CASE mode = "THRU"  -> <<b>>
    [] mode = "FULL"  -> ForwardMessages(p, b)
    [] mode = "CHAIN" -> IF NotANote(p, b) THEN ForwardMessages(p, b) ELSE <<>>
    [] OTHER          -> <<>>
=============================================================================
