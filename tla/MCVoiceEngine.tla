---------------------------- MODULE MCVoiceEngine ----------------------------
(***************************************************************************)
(* Segments of one to a dozen blocks: the first entries of the table of    *)
(* increments.  Notes close to each other, where the rounding of the glide *)
(* shows.                                                                  *)
(***************************************************************************)
EXTENDS VoiceEngine

Notes == {40, 43, 60}

Times ==
  [attack  |-> {65535, 18904},
   decay   |-> {16417},
   release |-> {18904},
   sustain |-> {0, 60, 127},
   amount  |-> {63, 32},
   legato  |-> BOOLEAN,
   glide   |-> {65535, 8509}]

\* The init patch of voice.cc, but for its decay (40) and its release (60),
\* which take hundreds of blocks.
InitPatch ==
  [attack |-> 65535, decay |-> 18904, sustain |-> 20, release |-> 16417,
   amount |-> 32, legato |-> FALSE, glide |-> 65535]
=============================================================================
