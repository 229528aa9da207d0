--------------------------- MODULE RingBufferProofs ---------------------------
(***************************************************************************)
(* The ring buffer is a queue, for every size and every set of values.     *)
(***************************************************************************)
EXTENDS RingBuffer, SequenceTheorems, TLAPS

\* The inductive invariant: TypeOK alone does not keep the slots of the two
\* sides apart; what each side checked, and the values in their slots, do.
IInv == TypeOK /\ ChecksStayTrue /\ ValuesAreWhole

\* The distance between the pointers, before and after either of them moves.
LEMMA Distances ==
  ASSUME NEW r \in Slots, NEW w \in Slots
  PROVE  /\ Successor(r) \in Slots
         /\ (IF w >= r THEN w - r ELSE w - r + Size) \in Slots
BY RingBufferAssumption DEF Slots, Successor

LEMMA PublishAddsOne ==
  ASSUME read_ptr \in Slots, write_ptr \in Slots, Readable < Size - 1,
         write_ptr' = Successor(write_ptr), read_ptr' = read_ptr
  PROVE  Readable' = Readable + 1 /\ Readable \in Nat
BY RingBufferAssumption DEF Slots, Successor, Readable

LEMMA ReleaseTakesOne ==
  ASSUME read_ptr \in Slots, write_ptr \in Slots, Readable > 0,
         read_ptr' = Successor(read_ptr), write_ptr' = write_ptr
  PROVE  Readable' = Readable - 1 /\ Readable \in Nat
BY RingBufferAssumption DEF Slots, Successor, Readable

LEMMA Inductive == IInv /\ [Next]_vars => IInv'
<1> SUFFICES ASSUME IInv, [Next]_vars PROVE IInv'
  OBVIOUS
<1> USE RingBufferAssumption DEF IInv, TypeOK, ChecksStayTrue, ValuesAreWhole
<1>1. ASSUME NEW v \in Values, BeginWrite(v) PROVE IInv'
  BY <1>1 DEF BeginWrite, Writable, Readable, Slots
<1>2. CASE Store
  <2>1. consumer.pc = "release" => read_ptr # write_ptr
    BY DEF Readable, Slots
  <2>2. Readable' = Readable
    BY <1>2 DEF Store, Readable
  <2> QED BY <1>2, <2>1, <2>2 DEF Store
<1>3. CASE Publish
  <2>1. Readable' = Readable + 1 /\ Readable \in Nat
    BY <1>3, PublishAddsOne DEF Publish
  <2>2. write_ptr' \in Slots
    BY <1>3, Distances DEF Publish
  <2> QED BY <1>3, <2>1, <2>2 DEF Publish
<1>4. CASE BeginRead
  BY <1>4 DEF BeginRead, Readable, Slots
<1>5. CASE Load
  <2>1. Readable' = Readable
    BY <1>5 DEF Load, Readable
  <2> QED BY <1>5, <2>1 DEF Load
<1>6. CASE Release
  <2>1. Readable' = Readable - 1 /\ Readable \in Nat
    BY <1>6, ReleaseTakesOne DEF Release
  <2>2. read_ptr' \in Slots
    BY <1>6, Distances DEF Release
  <2> QED BY <1>6, <2>1, <2>2 DEF Release, Slots
<1>7. CASE UNCHANGED vars
  BY <1>7 DEF vars, Readable
<1> QED BY <1>1, <1>2, <1>3, <1>4, <1>5, <1>6, <1>7 DEF Next

LEMMA Invariant == Spec => []IInv
<1>1. Init => IInv
  BY RingBufferAssumption DEF Init, IInv, TypeOK, ChecksStayTrue, ValuesAreWhole, Slots, Readable
<1> QED BY <1>1, Inductive, PTL DEF Spec

\* Type correctness: the pointers stay within the buffer.
THEOREM TypeCorrect == Spec => []TypeOK
BY Invariant, PTL DEF IInv

\* The space the producer saw and the value the consumer saw are still there
\* when they act on them, however the other side moves in between.
THEOREM ChecksHold == Spec => []ChecksStayTrue
BY Invariant, PTL DEF IInv

-----------------------------------------------------------------------------
\* The contents: a sequence of Readable values, in slots that are not the one
\* the producer writes to.
LEMMA ContentsTyped ==
  ASSUME TypeOK
  PROVE  /\ Readable \in Nat /\ Readable < Size
         /\ Contents \in Seq(Values) /\ Len(Contents) = Readable
         /\ \A i \in 1..Readable : SlotAt(i - 1) \in Slots /\ SlotAt(i - 1) # write_ptr
<1>1. Readable \in Nat /\ Readable < Size
  BY RingBufferAssumption DEF TypeOK, Slots, Readable
<1>2. \A i \in 1..Readable : SlotAt(i - 1) \in Slots /\ SlotAt(i - 1) # write_ptr
  BY <1>1, RingBufferAssumption DEF TypeOK, Slots, Readable, SlotAt
<1>3. Contents \in [1..Readable -> Values]
  BY <1>2 DEF Contents, TypeOK
<1>4. Contents \in Seq(Values) /\ Len(Contents) = Readable
  BY <1>1, <1>3
<1> QED BY <1>1, <1>2, <1>4

\* Publishing appends the producer's value.
LEMMA PublishPuts == IInv /\ Publish => Fifo!Put(producer.value)
<1> SUFFICES ASSUME IInv, Publish PROVE Fifo!Put(producer.value)
  OBVIOUS
<1> USE RingBufferAssumption
<1> DEFINE n == Readable
<1>1. /\ n \in Nat /\ n < Size - 1 /\ Readable' = n + 1
      /\ Contents \in Seq(Values) /\ Len(Contents) = n
      /\ producer.value \in Values
  BY PublishAddsOne, ContentsTyped DEF IInv, TypeOK, ChecksStayTrue, Publish
<1>2. buffer' = buffer /\ \A i \in 0..n : SlotAt(i)' = SlotAt(i)
  BY DEF Publish, SlotAt
<1>3. SlotAt(n) = write_ptr
  BY DEF SlotAt, Readable, IInv, TypeOK, Slots
<1>4. Contents' = [i \in 1..(n + 1) |-> buffer[SlotAt(i - 1)]]
  BY <1>1, <1>2 DEF Contents
<1>5. buffer[SlotAt(n)] = producer.value
  BY <1>3 DEF IInv, ValuesAreWhole, Publish
<1>6. Append(Contents, producer.value)
        = [i \in 1..(n + 1) |-> IF i = n + 1 THEN producer.value ELSE Contents[i]]
  BY <1>1
<1>7. \A i \in 1..(n + 1) :
         (IF i = n + 1 THEN producer.value ELSE Contents[i]) = buffer[SlotAt(i - 1)]
  BY <1>1, <1>5 DEF Contents
<1>8. Contents' = Append(Contents, producer.value)
  BY <1>4, <1>6, <1>7
<1>9. Offered = {producer.value} /\ Offered' = {}
  BY DEF Publish, Offered, IInv, TypeOK
<1> QED BY <1>1, <1>8, <1>9 DEF Fifo!Put, Publish

\* Releasing a slot takes the head of the queue, which is what Read returns.
LEMMA ReleaseTakes == IInv /\ Release => Fifo!Take
<1> SUFFICES ASSUME IInv, Release PROVE Fifo!Take
  OBVIOUS
<1> USE RingBufferAssumption
<1> DEFINE n == Readable
<1>1. /\ n \in Nat /\ n > 0 /\ Readable' = n - 1
      /\ Contents \in Seq(Values) /\ Len(Contents) = n
  BY ReleaseTakesOne, ContentsTyped DEF IInv, TypeOK, ChecksStayTrue, Release
<1>2. buffer' = buffer /\ \A i \in 0..(n - 2) : SlotAt(i)' = SlotAt(i + 1)
  <2>1. /\ read_ptr' = Successor(read_ptr) /\ buffer' = buffer
        /\ read_ptr \in 0..(Size - 1) /\ n < Size
    BY ContentsTyped DEF Release, IInv, TypeOK, Slots
  <2>2. ASSUME NEW i \in 0..(n - 2) PROVE SlotAt(i)' = SlotAt(i + 1)
    <3>1. SlotAt(i)' = IF read_ptr' + i >= Size THEN read_ptr' + i - Size ELSE read_ptr' + i
      BY DEF SlotAt
    <3>2. i \in Nat /\ i < Size - 2
      BY <1>1, <2>1
    <3> QED BY <2>1, <3>1, <3>2 DEF SlotAt, Successor
  <2> QED BY <2>1, <2>2
<1>3. SlotAt(0) = read_ptr
  BY DEF SlotAt, IInv, TypeOK, Slots
<1>4. Contents' = [i \in 1..(n - 1) |-> buffer[SlotAt(i)]]
  BY <1>1, <1>2 DEF Contents
<1>5. /\ Tail(Contents) \in Seq(Values) /\ Len(Tail(Contents)) = n - 1
      /\ \A i \in 1..(n - 1) : Tail(Contents)[i] = Contents[i + 1]
  BY <1>1, HeadTailProperties
<1>6. \A i \in 1..(n - 1) : Contents[i + 1] = buffer[SlotAt(i)]
  BY <1>1 DEF Contents
<1>7. Contents' = Tail(Contents)
  <2>1. Contents' \in Seq(Values) /\ Len(Contents') = n - 1
    <3>1. \A i \in 1..(n - 1) : buffer[SlotAt(i)] \in Values
      BY <1>1, <1>5, <1>6
    <3>2. Contents' \in [1..(n - 1) -> Values]
      BY <1>4, <3>1
    <3> QED BY <1>1, <3>2
  <2>2. \A i \in 1..(n - 1) : Contents'[i] = Tail(Contents)[i]
    BY <1>4, <1>5, <1>6
  <2> HIDE DEF n
  <2> QED BY <1>5, <2>1, <2>2, SeqEqual
<1>8. Head(Contents) = buffer[read_ptr]
  BY <1>1, <1>3 DEF Contents
<1>9. returned' = Head(Contents) /\ Contents # <<>>
  BY <1>1, <1>8 DEF IInv, ValuesAreWhole, Release
<1>10. Offered' = Offered
  BY DEF Release, Offered
<1> QED BY <1>7, <1>9, <1>10 DEF Fifo!Take

\* The other steps leave the contents alone: Store writes to a slot outside.
LEMMA OthersKeepContents ==
  ASSUME IInv,
         \/ \E v \in Values : BeginWrite(v)
         \/ Store \/ BeginRead \/ Load \/ UNCHANGED vars
  PROVE  UNCHANGED <<Contents, returned>>
<1>1. /\ read_ptr' = read_ptr /\ write_ptr' = write_ptr /\ returned' = returned
      /\ Readable' = Readable
  BY DEF BeginWrite, Store, BeginRead, Load, vars, Readable
<1>2. \A i \in 1..Readable : buffer'[SlotAt(i - 1)] = buffer[SlotAt(i - 1)]
  BY ContentsTyped DEF IInv, TypeOK, BeginWrite, Store, BeginRead, Load, vars
<1>3. \A i \in 1..Readable : SlotAt(i - 1)' = SlotAt(i - 1)
  BY <1>1 DEF SlotAt
<1> QED BY <1>1, <1>2, <1>3 DEF Contents

\* Beginning to write offers the value.
LEMMA BeginWriteOffers ==
  ASSUME IInv, NEW v \in Values, BeginWrite(v)
  PROVE  Fifo!Offer(v)
<1>1. UNCHANGED <<Contents, returned>>
  BY OthersKeepContents
<1>2. Offered = {} /\ Offered' = {v}
  BY DEF BeginWrite, Offered
<1> QED BY <1>1, <1>2 DEF Fifo!Offer

\* Store, BeginRead and Load are invisible.
LEMMA OthersStutter ==
  ASSUME IInv, Store \/ BeginRead \/ Load \/ UNCHANGED vars
  PROVE  UNCHANGED <<Offered, Contents, returned>>
<1>1. UNCHANGED <<Contents, returned>>
  BY OthersKeepContents
<1>2. Offered' = Offered
  BY DEF Store, BeginRead, Load, vars, Offered, IInv, TypeOK
<1> QED BY <1>1, <1>2

\* The ring buffer implements the bounded queue, for every size and values,
\* and whatever the interleaving of its producer and consumer (ring_buffer.h).
THEOREM IsFifo == Spec => ImplementsFifo
<1>1. Init => Fifo!Init
  BY RingBufferAssumption DEF Init, Fifo!Init, Contents, Readable, Offered
<1>2. IInv /\ [Next]_vars => [Fifo!Next]_<<Offered, Contents, returned>>
  <2> SUFFICES ASSUME IInv, [Next]_vars
               PROVE  [Fifo!Next]_<<Offered, Contents, returned>>
    OBVIOUS
  <2>1. CASE Publish
    BY <2>1, PublishPuts DEF Fifo!Next, IInv, TypeOK
  <2>2. CASE Release
    BY <2>2, ReleaseTakes DEF Fifo!Next
  <2>3. ASSUME NEW v \in Values, BeginWrite(v)
        PROVE  Fifo!Next
    BY <2>3, BeginWriteOffers DEF Fifo!Next
  <2>4. CASE Store \/ BeginRead \/ Load \/ UNCHANGED vars
    BY <2>4, OthersStutter
  <2> QED BY <2>1, <2>2, <2>3, <2>4 DEF Next
<1> QED BY <1>1, <1>2, Invariant, PTL DEF Spec, ImplementsFifo, Fifo!Spec
=============================================================================
