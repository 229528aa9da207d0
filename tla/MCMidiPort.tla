----------------------------- MODULE MCMidiPort ------------------------------
(***************************************************************************)
(* The setups of the MIDI port.  The header has two bytes instead of six,  *)
(* a patch one and a sequence two.                                         *)
(***************************************************************************)
EXTENDS MidiPort

Header2  == <<\hF0, 1>>
Dumps    == (1 :> 1) @@ (2 :> 2)
Edited   == {5, 6, 127, 130}
Ranges   == (5 :> {0, 1, 200}) @@ (6 :> {0, 1}) @@ (127 :> {0, 1, 4}) @@ (130 :> {0, 200})

Silent == [mode |-> "CONTROLLER", bytes |-> {}, inside |-> FALSE, sysex |-> TRUE,
           longest |-> 0, room |-> 8, edited |-> {}, sends |-> {}]

\* Notes, a program change, a tune request, SysEx and a clock, in front of a next
\* unit.
Stream == {\h90, \hC0, \hF6, \hF0, \hF7, \hF8, 60}

Forwarding == {[Silent EXCEPT !.mode = m, !.bytes = Stream, !.longest = 2, !.room = 4] :
                 m \in {"THRU", "CHAIN", "FULL"}}

\* A program loaded here is loaded there too.  (While a SysEx message is forwarded,
\* byte by byte, it would cut the message in two.)
Loading == [Silent EXCEPT !.mode = "FULL", !.bytes = {\h90, \hC0, \hF8, 0, 60},
                          !.sends = {"Program"}]

\* Passing bytes through keeps a realtime byte inside a message apart.
Through == [Silent EXCEPT !.mode = "THRU", !.bytes = Stream, !.longest = 2,
                           !.room = 4, !.inside = TRUE]

Sequencing == [Silent EXCEPT !.mode = "SEQUENCER", !.sends = {"Note", "Clock"}]

\* Edits of two parts, at the same address and at others.
Editing == {[Silent EXCEPT !.mode = "CHAIN", !.room = 12, !.edited = {<<0, 5>>, <<0, 127>>, <<1, 5>>}],
            [Silent EXCEPT !.room = 12, !.edited = {<<0, 5>>, <<1, 5>>, <<1, 6>>}]}

\* SysEx messages, good and bad, with the card in use: whole patches; requests
\* (command 17), which have a checksum only; any of them while SysEx is off.
Receiving ==
  LET Receives(bytes, longest, sysex) ==
        [Silent EXCEPT !.mode = "SEQUENCER", !.bytes = bytes \cup {\hF0, \hF7}, !.longest = longest,
                       !.sends = {"Card"}, !.sysex = sysex]
  IN  {Receives({0, 1, \h90}, 8, TRUE), Receives({0, 1, 17}, 6, TRUE), Receives({1, 17}, 6, FALSE)}

Playing == Forwarding \cup {Loading, Through, Sequencing} \cup Editing \cup Receiving

\* A realtime byte inside a message, for a unit that forwards messages.
Interrupted == {[Silent EXCEPT !.mode = "FULL", !.bytes = {\h90, \hC0, \hF8, 60}, !.inside = TRUE]}

\* A host edits the steps of a sequence.
Hosted == {[Silent EXCEPT !.room = 12, !.edited = {0} \X {5, 130}]}

=============================================================================
