---------------------------- MODULE VoicecardLink -----------------------------
(***************************************************************************)
(* The serial link between the controller (src/controller/voicecard_tx.h,  *)
(* voicecard_tx.cc) and the voice cards (src/voicecard/voicecard_rx.h).    *)
(*                                                                         *)
(* The main loop of the controller queues bytes in one of two ring         *)
(* buffers, by the parity of the card.  A timer interrupt sends one byte   *)
(* at a time from them, alternating.  A card has one receive register,     *)
(* which a byte that arrives too early overwrites; its own timer interrupt *)
(* moves the register to a ring buffer, and its main loop cuts the bytes   *)
(* into messages.  There is no framing, no acknowledgement and no flow     *)
(* control: everything rests on timing, which appears here as guards.      *)
(*                                                                         *)
(*   - Both timers run at 39 kHz and are not in phase: a card looks at its *)
(*     register before the second tick after a byte has arrived.           *)
(*   - One millisecond is enough to look at the register.                  *)
(*   - Five milliseconds are enough to send 31 queued bytes (1.6 ms),      *)
(*     finish a block of 40 samples (1 ms) and process what was received.  *)
(*   - A card that sits in the receive loop of a block reads each byte     *)
(*     before the next has been shifted out.                               *)
(*   - After the last transaction of a request the controller formats a    *)
(*     screen or loads its parts: it takes more than one tick to return to *)
(*     code that queues bytes.                                             *)
(*   - A card runs Process before its 256 bytes of input are full (it      *)
(*     takes 13 ms to fill them): RxSize only bounds the search.           *)
(*                                                                         *)
(* The ring buffers are queues here, as module RingBuffer shows they are.  *)
(***************************************************************************)
EXTENDS Naturals, Sequences, SequencesExt

CONSTANTS Cards,       \* the addresses of the cards, natural numbers
          RingSize,    \* buffer_size of the two queues: one slot stays free
          RxSize,      \* bound on the bytes received and not yet processed
          BlockSize,   \* Patch::sizeBytes()
          Requests,    \* what the rest of the program asks of the link
          None

ASSUME VoicecardLinkAssumption ==
  /\ Cards \subseteq Nat
  /\ RingSize \in Nat \ {0, 1} /\ RxSize \in Nat \ {0} /\ BlockSize \in Nat
  /\ None \notin Cards

VARIABLES
  todo,        \* what the main loop still has to do for the current request
  queue,       \* even_buffer_ and odd_buffer_, by parity
  flop,        \* flop of SendBytes
  line,        \* [Cards -> the byte in the receive register, or None]
  reply,       \* [Cards -> what the next transfer shifts out of the card]
  age,         \* [Cards -> ticks since the byte in the register arrived]
  rx,          \* [Cards -> buffer_]
  partial,     \* [Cards -> the command and arguments of the current message]
  done,        \* [Cards -> the message last executed]
  answer       \* what the last question to a card returned

main == <<todo, answer>>
wires == <<queue, flop, line, reply, age>>
cardVars == <<rx, partial, done>>
vars == <<main, wires, cardVars>>

-----------------------------------------------------------------------------
(* Messages.  A byte is named after the command it stands for.             *)

LongCommands == [NOTE_ON |-> 3, WRITE |-> 2, WRITE_LFO |-> 1]

\* How many bytes of data follow a command: a block is a size and its data.
Arguments(byte) ==
  IF byte \in DOMAIN LongCommands THEN LongCommands[byte]
  ELSE IF byte = "BULK_SEND" THEN 1 + BlockSize ELSE 0

IsComplete(bytes) == Len(bytes) = 1 + Arguments(bytes[1])

\* The complete messages a card makes of a sequence of bytes.
Messages(bytes) ==
  LET from[i \in 1..(Len(bytes) + 1)] ==
        IF i > Len(bytes) \/ i + Arguments(bytes[i]) > Len(bytes) THEN <<>>
        ELSE LET last == i + Arguments(bytes[i])
             IN  <<SubSeq(bytes, i, last)>> \o from[last + 1]
  IN  from[1]

PatchBlock == <<"BULK_SEND", "SIZE">> \o [i \in 1..BlockSize |-> "NOTE_ON"]

-----------------------------------------------------------------------------
(* Requests and the steps the main loop takes for them.                    *)

Step(op, card, byte) == [op |-> op, card |-> card, byte |-> byte]

\* Sync(c)
SyncSteps(c) == [i \in 1..4 |-> Step("transact", c, "SYNC")]

SyncAllVoices ==
  LET order == SetToSeq(Cards)
  IN  FlattenSeq([i \in DOMAIN order |-> SyncSteps(order[i])])
      \o << Step("return", None, None) >>

\* Trigger, Release, WriteData, WriteLfo: Write of every byte of the message.
MessageSteps(c, bytes) == [i \in DOMAIN bytes |-> Step("put", c, bytes[i])]

\* GetVersion, GetAudioHeadroom
IdentifySteps(c) ==
  SyncSteps(c) \o << Step("transact", c, "GET_SLAVE_ID"),
                     Step("elapse", None, None),
                     Step("ask", c, "SYNC"),
                     Step("return", None, None) >>

\* WriteBlock
BlockSteps(c) ==
  [i \in 1..(1 + BlockSize) |-> Step("block", c, PatchBlock[i + 1])]

\* Part::TouchPatch for the cards of a part
PatchSteps(cards) ==
     [i \in DOMAIN cards |-> Step("put", cards[i], "BULK_SEND")]
  \o << Step("elapse", None, None) >>
  \o FlattenSeq([i \in DOMAIN cards |-> BlockSteps(cards[i])])

Steps(r) ==
  CASE r.kind = "messages" ->
         FlattenSeq([i \in DOMAIN r.list |->
                       MessageSteps(r.list[i].card, r.list[i].bytes)])
    [] r.kind = "patch" -> PatchSteps(r.cards)
    [] r.kind = "identify" -> IdentifySteps(r.card)

\* What each card must make of a request.
Batch(r) ==
  [c \in Cards |->
     CASE r.kind = "messages" ->
            LET mine == SelectSeq(r.list, LAMBDA m : m.card = c)
            IN  [i \in DOMAIN mine |-> mine[i].bytes]
       [] r.kind = "patch" ->
            IF c \in ToSet(r.cards) THEN <<PatchBlock>> ELSE <<>>
       [] r.kind = "identify" ->
            IF c = r.card
            THEN [i \in 1..4 |-> <<"SYNC">>] \o <<<<"GET_SLAVE_ID">>, <<"SYNC">>>>
            ELSE <<>>]

Batches == { Batch(r) : r \in Requests }

-----------------------------------------------------------------------------
(* The state of a card.                                                    *)

\* In the receive loop of COMMAND_BULK_SEND, with the timer stopped.
InBlock(c) == partial[c] # <<>> /\ partial[c][1] = "BULK_SEND"

QueuesEmpty == \A p \in {0, 1} : queue[p] = <<>>
LinesEmpty == \A c \in Cards : line[c] = None

\* What a card holds of a message the controller was sending when it was reset.
Interrupted ==
  {<<>>} \cup UNION { { <<b>> \o [i \in 1..n |-> "NOTE_ON"] :
                         n \in 0..(Arguments(b) - 1) } : b \in DOMAIN LongCommands }

\* The controller starts while the cards run: SyncAllVoices comes first.
Init ==
  /\ partial \in [Cards -> Interrupted]
  /\ todo = SyncAllVoices
  /\ queue = [p \in {0, 1} |-> <<>>]
  /\ flop = 0
  /\ line = [c \in Cards |-> None]
  /\ reply = [c \in Cards |-> "SYNC"]
  /\ age = [c \in Cards |-> 0]
  /\ rx = [c \in Cards |-> <<>>]
  /\ done = [c \in Cards |-> <<>>]
  /\ answer = None

-----------------------------------------------------------------------------
(* The main loop of the controller.                                        *)

Submit(r) ==
  /\ todo = <<>>
  /\ todo' = Steps(r)
  /\ answer' = None
  /\ UNCHANGED <<wires, cardVars>>

Now(op) == todo # <<>> /\ Head(todo).op = op

\* Write(c, byte) waits until the queue of the parity of c is writable.
Put ==
  /\ Now("put")
  /\ LET s == Head(todo)
         p == s.card % 2
     IN  /\ Len(queue[p]) < RingSize - 1
         /\ queue' = [queue EXCEPT ![p] = Append(@, [card |-> s.card, byte |-> s.byte])]
  /\ todo' = Tail(todo)
  /\ UNCHANGED <<answer, flop, line, reply, age, cardVars>>

\* A transfer fills the receive register of the card, whatever it held, except
\* that a card in its receive loop has read the last byte.  The byte left in
\* the shift register is what comes back next time.
Transfer(c, byte) ==
  /\ InBlock(c) => line[c] = None
  /\ line' = [line EXCEPT ![c] = byte]
  /\ age' = [age EXCEPT ![c] = 0]
  /\ reply' = [reply EXCEPT ![c] = byte]

\* BlockingTransaction(c, byte): FlushBuffers, one millisecond, one transfer.
\* The value of the last transaction of a question is its answer.
Transact ==
  /\ Now("transact") \/ Now("ask")
  /\ QueuesEmpty /\ LinesEmpty
  /\ LET s == Head(todo)
     IN  /\ Transfer(s.card, s.byte)
         /\ answer' = IF s.op = "ask" THEN reply[s.card] ELSE answer
  /\ todo' = Tail(todo)
  /\ UNCHANGED <<queue, flop, cardVars>>

\* One byte of WriteBlock.  Nothing tells whether the card is in its loop.
SendBlockByte ==
  /\ Now("block")
  /\ QueuesEmpty
  /\ Transfer(Head(todo).card, Head(todo).byte)
  /\ todo' = Tail(todo)
  /\ UNCHANGED <<answer, queue, flop, cardVars>>

\* ConstantDelay(5)
ElapseAtOnce ==    \* variant: no delay
  /\ Now("elapse")
  /\ todo' = Tail(todo)
  /\ UNCHANGED <<answer, wires, cardVars>>

Elapse ==
  /\ Now("elapse")
  /\ QueuesEmpty /\ LinesEmpty
  /\ \A c \in Cards : rx[c] = <<>>
  /\ todo' = Tail(todo)
  /\ UNCHANGED <<answer, wires, cardVars>>

\* Back to the caller.
Return ==
  /\ Now("return")
  /\ LinesEmpty
  /\ todo' = Tail(todo)
  /\ UNCHANGED <<answer, wires, cardVars>>

MainLoop == Put \/ Transact \/ SendBlockByte \/ Elapse \/ Return

-----------------------------------------------------------------------------
(* The timer interrupt of the controller.                                  *)

\* SendBytes: flop becomes 1 - flop, and 1 stands for the even queue.
SendFrom(p) ==
  IF queue[p] = <<>>
  THEN /\ age' = [c \in Cards |-> IF line[c] = None THEN 0 ELSE age[c] + 1]
       /\ UNCHANGED <<queue, line, reply>>
  ELSE LET e == Head(queue[p])
       IN  /\ InBlock(e.card) => line[e.card] = None
           /\ line' = [line EXCEPT ![e.card] = e.byte]
           /\ reply' = [reply EXCEPT ![e.card] = e.byte]
           /\ age' = [c \in Cards |-> IF line[c] = None \/ c = e.card THEN 0
                                      ELSE age[c] + 1]
           /\ queue' = [queue EXCEPT ![p] = Tail(@)]

\* A card has looked at its register before the second tick after a byte came.
PolledInTime == \A c \in Cards : age[c] = 0

TickWithoutTurns ==    \* variant: every tick sends from a queue that has bytes
  /\ PolledInTime
  /\ flop' = 1 - flop
  /\ SendFrom(IF queue[0] # <<>> THEN 0 ELSE 1)
  /\ UNCHANGED <<main, cardVars>>

TickEvenOnly ==    \* variant: the turn of the odd queue is lost
  /\ PolledInTime
  /\ flop' = 1 - flop
  /\ IF flop' = 1 THEN SendFrom(0)
     ELSE /\ age' = [c \in Cards |-> IF line[c] = None THEN 0 ELSE 1]
          /\ UNCHANGED <<queue, line, reply>>
  /\ UNCHANGED <<main, cardVars>>

Tick ==
  /\ PolledInTime
  /\ flop' = 1 - flop
  /\ SendFrom(1 - flop')
  /\ UNCHANGED <<main, cardVars>>

-----------------------------------------------------------------------------
(* A voice card.                                                           *)

\* Receive, from the timer interrupt of the card.
Receive(c) ==
  /\ ~InBlock(c) /\ line[c] # None
  /\ Len(rx[c]) < RxSize
  /\ rx' = [rx EXCEPT ![c] = Append(@, line[c])]
  /\ line' = [line EXCEPT ![c] = None]
  /\ reply' = [reply EXCEPT ![c] = "SYNC"]
  /\ age' = [age EXCEPT ![c] = 0]
  /\ UNCHANGED <<main, queue, flop, partial, done>>

\* A byte is added to the current message, which is executed when complete.
Accept(c, byte) ==
  LET message == Append(partial[c], byte)
  IN  IF IsComplete(message)
      THEN /\ done' = [done EXCEPT ![c] = message]
           /\ partial' = [partial EXCEPT ![c] = <<>>]
      ELSE /\ partial' = [partial EXCEPT ![c] = message]
           /\ UNCHANGED done

\* One turn of Process.  GET_SLAVE_ID leaves the answer in the register.
Process(c) ==
  /\ ~InBlock(c) /\ rx[c] # <<>>
  /\ Accept(c, Head(rx[c]))
  /\ rx' = [rx EXCEPT ![c] = Tail(@)]
  /\ reply' = IF partial[c] = <<>> /\ Head(rx[c]) = "GET_SLAVE_ID"
              THEN [reply EXCEPT ![c] = "ID"] ELSE reply
  /\ UNCHANGED <<main, queue, flop, line, age>>

\* One spi_.Read() of the loop of COMMAND_BULK_SEND: it goes around the
\* input buffer.
ReadBlock(c) ==
  /\ InBlock(c) /\ line[c] # None
  /\ Accept(c, line[c])
  /\ line' = [line EXCEPT ![c] = None]
  /\ age' = [age EXCEPT ![c] = 0]
  /\ UNCHANGED <<main, queue, flop, reply, rx>>

Next ==
  \/ \E r \in Requests : Submit(r)
  \/ MainLoop
  \/ Tick
  \/ \E c \in Cards : Receive(c) \/ Process(c) \/ ReadBlock(c)

\* The timers never stop ticking and both main loops run whenever the
\* interrupts let them; nobody has to submit a request.
Spec ==
  /\ Init /\ [][Next]_vars
  /\ WF_vars(MainLoop) /\ WF_vars(Tick)
  /\ \A c \in Cards : WF_vars(Receive(c)) /\ WF_vars(Process(c)) /\ WF_vars(ReadBlock(c))

-----------------------------------------------------------------------------
\* The bytes meant for a card that it has not made a whole message of.
BytesOf(seq, c) ==
  LET mine == SelectSeq(seq, LAMBDA e : e.card = c)
  IN  [i \in DOMAIN mine |-> mine[i].byte]

InFlight(c) ==
     partial[c] \o rx[c] \o (IF line[c] = None THEN <<>> ELSE <<line[c]>>)
  \o BytesOf(queue[c % 2], c) \o BytesOf(todo, c)

Channel == INSTANCE CommandChannel
             WITH Batches <- Batches, NoOp <- <<"SYNC">>,
                  pending <- [c \in Cards |-> Messages(InFlight(c))],
                  done <- done

\* Through two queues, two interrupts, a register that is overwritten, blocks
\* that bypass the queues and a start in the middle of a message, each card
\* executes the messages sent to it, whole, once and in order; what is left
\* of a message that was cut by a reset ends before the first of them.
ImplementsCommandChannel == Channel!Spec

\* What GetVersion reads after its delay is what the card prepared, never the
\* echo of a transfer: the value is right without any handshake.
AnswerIsPrepared == answer \in {None, "ID"}

\* The main loop never waits forever for a queue to drain or for a card that
\* must read a block.
MainLoopReturns == todo # <<>> ~> todo = <<>>
=============================================================================
