--------------------------- MODULE MCVoicecardLink ----------------------------
(***************************************************************************)
(* Two cards, one on each queue, and the requests that use the link in     *)
(* different ways.  The arguments of the messages look like commands.      *)
(***************************************************************************)
EXTENDS VoicecardLink

Message(card, bytes) == [card |-> card, bytes |-> bytes]

\* A note for one card while the other is written to and released.
Notes ==
  [kind |-> "messages",
   list |-> << Message(0, <<"NOTE_ON", "SYNC", "BULK_SEND", "WRITE">>),
               Message(1, <<"WRITE", "WRITE_LFO", "GET_SLAVE_ID">>),
               Message(1, <<"RELEASE">>) >>]

Patch == [kind |-> "patch", cards |-> <<0, 1>>]

Identify == [kind |-> "identify", card |-> 1]

AllRequests == {Notes, Patch, Identify}
=============================================================================
