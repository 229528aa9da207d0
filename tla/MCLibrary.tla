------------------------------ MODULE MCLibrary ------------------------------
(***************************************************************************)
(* The setups of the library: two parts, one bank of three slots.          *)
(***************************************************************************)
EXTENDS Library

Off == [events |-> {}, count |-> 0, delay |-> 2, backups |-> TRUE, listens |-> {0, 1}, empty |-> {}]

Gap == Objects \X {0} \X {2}

\* Turning and leaving, with all the objects, and with no delay.
Turning == {[Off EXCEPT !.events = {"Turn", "Click", "Object", "Leave", "Init"}, !.count = 7,
                        !.delay = d, !.empty = Gap] : d \in {0, 2}}

\* Saving, with the card taken out and put in.
Storing == {[Off EXCEPT !.events = {"Turn", "Click", "Leave", "Save", "Card"}, !.count = 8,
                        !.backups = b] : b \in BOOLEAN}

\* Parts are selected while nothing is pending, programs change by MIDI.
Following == {[Off EXCEPT !.events = {"Part", "Object", "Leave", "Program"}, !.count = 6, !.listens = p]
                : p \in {{1}, {0, 1}}}

\* Sounds are edited, copied, swapped, pasted and saved, and the power fails.
Failing == {[Off EXCEPT !.events = {"Edit", "Leave", "Clipboard", "Save", "Crash", "Part", "Card"}, !.count = 7]}

Playing == Turning \cup Storing \cup Following \cup Failing
=============================================================================
