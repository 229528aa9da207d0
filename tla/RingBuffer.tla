------------------------------ MODULE RingBuffer ------------------------------
(***************************************************************************)
(* RingBuffer<Owner> (src/avrlib/ring_buffer.h) between one producer and   *)
(* one consumer that may interrupt each other at any access to the shared  *)
(* memory: an interrupt handler on one side and the main loop on the       *)
(* other.  The controller has six of them: the even and odd voicecard      *)
(* queues, the MIDI input, the two MIDI output queues and, on each voice   *)
(* card, the received bytes.                                               *)
(*                                                                         *)
(* read_ptr_ and write_ptr_ are bytes that are read and written in one     *)
(* instruction.  A value may take several (the voicecard queues hold       *)
(* 16-bit words), but it is only looked at between its own two pointers.   *)
(***************************************************************************)
EXTENDS Integers, Sequences

CONSTANTS Size,      \* Owner::buffer_size, a power of two
          Values     \* what is written

ASSUME RingBufferAssumption ==
  /\ Size \in Nat \ {0, 1}
  /\ 0 \in Values

VARIABLES
  buffer,      \* buffer_, zero at startup like all static memory
  read_ptr,    \* read_ptr_
  write_ptr,   \* write_ptr_
  producer,    \* [pc, value]: where Write is, and its argument
  consumer,    \* [pc, value]: where Read is, and its local variable result
  returned     \* what the last Read returned

vars == <<buffer, read_ptr, write_ptr, producer, consumer, returned>>

Slots == 0..(Size - 1)

\* (ptr + 1) & (size - 1)
Successor(ptr) == IF ptr + 1 = Size THEN 0 ELSE ptr + 1

\* (write_ptr_ - read_ptr_) & (size - 1)
Readable == IF write_ptr >= read_ptr THEN write_ptr - read_ptr
            ELSE write_ptr - read_ptr + Size

\* (read_ptr_ - write_ptr_ - 1) & (size - 1)
WritableToTheEnd == Size - Readable    \* variant: no slot is left free

Writable == Size - 1 - Readable

-----------------------------------------------------------------------------
Init ==
  /\ buffer = [i \in Slots |-> 0]
  /\ read_ptr = 0
  /\ write_ptr = 0
  /\ producer = [pc |-> "idle", value |-> 0]
  /\ consumer = [pc |-> "idle", value |-> 0]
  /\ returned = 0

\* Write(v) waits until the buffer is writable; NonBlockingWrite(v) gives up,
\* which leaves everything as it was.
BeginWrite(v) ==
  /\ producer.pc = "idle" /\ Writable # 0
  /\ producer' = [pc |-> "store", value |-> v]
  /\ UNCHANGED <<buffer, read_ptr, write_ptr, consumer, returned>>

\* Overwrite(v): the value is stored first, then the pointer.
StoreAtNewPointer ==    \* variant: the index is read after the increment
  /\ producer.pc = "store"
  /\ buffer' = [buffer EXCEPT ![Successor(write_ptr)] = producer.value]
  /\ producer' = [producer EXCEPT !.pc = "publish"]
  /\ UNCHANGED <<read_ptr, write_ptr, consumer, returned>>

Store ==
  /\ producer.pc = "store"
  /\ buffer' = [buffer EXCEPT ![write_ptr] = producer.value]
  /\ producer' = [producer EXCEPT !.pc = "publish"]
  /\ UNCHANGED <<read_ptr, write_ptr, consumer, returned>>

Publish ==
  /\ producer.pc = "publish"
  /\ write_ptr' = Successor(write_ptr)
  /\ producer' = [producer EXCEPT !.pc = "idle"]
  /\ UNCHANGED <<buffer, read_ptr, consumer, returned>>

\* Read() waits until the buffer is readable, or its caller has checked it.
BeginRead ==
  /\ consumer.pc = "idle" /\ Readable # 0
  /\ consumer' = [consumer EXCEPT !.pc = "load"]
  /\ UNCHANGED <<buffer, read_ptr, write_ptr, producer, returned>>

\* ImmediateRead(): the value is loaded first, then the pointer moves on.
Load ==
  /\ consumer.pc = "load"
  /\ consumer' = [pc |-> "release", value |-> buffer[read_ptr]]
  /\ UNCHANGED <<buffer, read_ptr, write_ptr, producer, returned>>

Release ==
  /\ consumer.pc = "release"
  /\ read_ptr' = Successor(read_ptr)
  /\ returned' = consumer.value
  /\ consumer' = [consumer EXCEPT !.pc = "idle"]
  /\ UNCHANGED <<buffer, write_ptr, producer>>

Next ==
  \/ \E v \in Values : BeginWrite(v)
  \/ Store \/ Publish
  \/ BeginRead \/ Load \/ Release

Spec == Init /\ [][Next]_vars

-----------------------------------------------------------------------------
TypeOK ==
  /\ buffer \in [Slots -> Values]
  /\ read_ptr \in Slots /\ write_ptr \in Slots
  /\ producer \in [pc : {"idle", "store", "publish"}, value : Values]
  /\ consumer \in [pc : {"idle", "load", "release"}, value : Values]
  /\ returned \in Values

\* While Write stores its value there is a slot for it that the consumer does
\* not look at, and while Read loads one there is a value: what each side saw
\* when it checked is still true when it acts.
ChecksStayTrue ==
  /\ producer.pc # "idle" => Readable < Size - 1
  /\ consumer.pc # "idle" => Readable > 0

\* A value is in place before it is published, and a value that is loaded is
\* the one the consumer's pointer stands at until it moves on.
ValuesAreWhole ==
  /\ producer.pc = "publish" => buffer[write_ptr] = producer.value
  /\ consumer.pc = "release" => consumer.value = buffer[read_ptr]

\* The slot of the value at a distance from the read pointer.
SlotAt(i) == IF read_ptr + i >= Size THEN read_ptr + i - Size ELSE read_ptr + i

Contents == [i \in 1..Readable |-> buffer[SlotAt(i - 1)]]

Offered == IF producer.pc = "idle" THEN {} ELSE {producer.value}

Fifo == INSTANCE BoundedFifo
          WITH Values <- Values, Capacity <- Size - 1,
               offered <- Offered, queue <- Contents, returned <- returned

\* Whatever accesses of the two sides interleave, the buffer is a queue of
\* Size - 1 values: nothing is lost, repeated, torn or out of order.
ImplementsFifo == Fifo!Spec
=============================================================================
