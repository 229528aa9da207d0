------------------------------ MODULE MCPages -------------------------------
(***************************************************************************)
(* The setups of the pages: what the hands and the keyboard do, on bytes   *)
(* loaded with their least or with their greatest values.                  *)
(***************************************************************************)
EXTENDS Pages

Still == [turns |-> {}, pots |-> {}, keys |-> {}, others |-> {}, notes |-> {}, changes |-> {}, entries |-> {},
          steps |-> {}, listens |-> {}, fill |-> "min", snap |-> 0, count |-> 0]

\* All the pages with the keys and the encoder, which also edits.
Panels == {[Still EXCEPT !.turns = t, !.keys = {0, 2, 3, 4, 5}, !.others = {"Click", "TurnPart"}, !.fill = f, !.count = 5] :
            t \in {{1, -1}, {8, -8}}, f \in {"min", "max"}}

\* Pots that must take hold, and what changes the values meanwhile.
Snaps == {[Still EXCEPT !.turns = {1}, !.pots = ({0, 1} \X {0, 2, 127}), !.keys = {2, 5}, !.others = {"TurnPart", "Idle"},
                       !.changes = {<<74, 127>>, <<71, 1>>}, !.listens = {0}, !.fill = f, !.snap = 1, !.count = 5] :
           f \in {"min", "max"}}

\* The pots of the pages of a part, the limits of its keys and its steps.
Keyboard == {[Still EXCEPT !.turns = {1, -1}, !.pots = {1, 2, 7} \X {0, 127}, !.keys = {4, 5}, !.others = {"Click", "Idle"},
                           !.notes = {60}, !.fill = "max", !.snap = s, !.count = 6] : s \in {0, 1}}

\* Knobs are assigned, and turned.
Knobs == {[Still EXCEPT !.turns = {1, -1}, !.pots = {<<0, 0>>, <<4, 127>>, <<2, 0>>, <<3, 127>>, <<5, 127>>, <<6, 64>>},
                        !.keys = {6}, !.others = {"Click", "Idle"}, !.count = 6]}

\* Control changes and data entries while the encoder edits the filter.
Midi == {[Still EXCEPT !.turns = {1, -8}, !.keys = {1}, !.others = {"Click"},
                       !.changes = ({14, 94, 71, 75, 52} \X {0, 127}), !.entries = ({2, 41, 113, 127} \X {0, 64, 254}),
                       !.steps = ({2, 41, 113} \X {1, -1}), !.listens = {0, 3}, !.fill = f, !.count = 4] :
           f \in {"min", "max"}}

\* The settings are edited and left.
Preferences == {[Still EXCEPT !.turns = {1, -1}, !.pots = ({0, 2, 7} \X {0, 127}), !.keys = {1, 7}, !.others = {"Click"},
                              !.changes = {<<74, 127>>}, !.listens = {0}, !.count = 7]}

\* The map of control changes is chosen, and the knobs of a Launchkey are turned: for
\* the filter, for the envelopes, past the end of the map, and for no parameter.
Launchkeys == {[Still EXCEPT !.pots = {<<7, 127>>, <<0, 127>>}, !.keys = {7}, !.listens = {0, 3}, !.fill = f,
                             !.changes = {<<21, 127>>, <<27, 127>>, <<45, 1>>, <<65, 64>>, <<74, 127>>, <<104, 127>>},
                             !.count = 5] : f \in {"min", "max"}}

Hands == Panels \cup Snaps \cup Keyboard \cup Knobs \cup Midi \cup Preferences \cup Launchkeys
=============================================================================
