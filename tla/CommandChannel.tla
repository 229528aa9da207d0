---------------------------- MODULE CommandChannel ----------------------------
(***************************************************************************)
(* What the link between the controller and its voice cards promises: each *)
(* card executes the messages meant for it, whole, each once, in the order *)
(* they were issued.  There is no promise about the order between cards.   *)
(***************************************************************************)
EXTENDS Naturals, Sequences

CONSTANTS Cards,
          Batches,    \* sets of messages issued together: [Cards -> sequences]
          NoOp        \* the message a card ignores

VARIABLES pending,    \* [Cards -> messages issued and not yet executed]
          done        \* [Cards -> the last message executed]

-----------------------------------------------------------------------------
\* The controller may have stopped in the middle of a message.  Whatever that
\* message becomes is executed first, and only no-operations follow it.
Init ==
  /\ \A c \in Cards :
       /\ pending[c] # <<>>
       /\ \A i \in 2..Len(pending[c]) : pending[c][i] = NoOp
  /\ done \in [Cards -> {<<>>}]

Issue(batch) ==
  /\ UNCHANGED done
  /\ pending' = [c \in Cards |-> pending[c] \o batch[c]]

Execute(c) ==
  /\ pending[c] # <<>>
  /\ done' = [done EXCEPT ![c] = Head(pending[c])]
  /\ pending' = [pending EXCEPT ![c] = Tail(@)]

Next == (\E batch \in Batches : Issue(batch)) \/ (\E c \in Cards : Execute(c))

Spec == Init /\ [][Next]_<<pending, done>>
=============================================================================
