----------------------------- MODULE RingBuffer -----------------------------
(***************************************************************************)
(* RingBufferSPSCLockFree, the bounded queue between the threads of the    *)
(* server, at the grain of its loads and stores: a thread can be preempted *)
(* between any two of them. Slots are read and written between an acquire  *)
(* load and a release store of the counters, so that interleaving the      *)
(* accesses loses no behaviour of the memory model while each counter has  *)
(* one writer.                                                             *)
(*                                                                         *)
(* The counters are C++ ints that are only ever incremented; they are      *)
(* converted to size_t before they are compared and reduced to an index.   *)
(***************************************************************************)
EXTENDS Integers, Sequences

CONSTANTS
  Producers,    \* the threads that push (the class is meant for one)
  Capacity,     \* m_capacity
  MaxMessages,  \* bound: messages each producer pushes
  IntMax,       \* largest value of int
  SizeModulus,  \* number of values of size_t
  NoMessage     \* content of a slot nobody wrote yet

ASSUME RingAssumption ==
  /\ Capacity \in Nat \ {0}
  /\ MaxMessages \in Nat
  /\ IntMax \in Nat
  /\ SizeModulus \in Nat \ {0}
  /\ Capacity <= IntMax
  /\ 2 * (IntMax + 1) <= SizeModulus

VARIABLES
  write,     \* m_write
  read,      \* m_read
  slots,     \* m_buffer
  producer,  \* where each producer is in push, and the tail it loaded
  consumer,  \* where the consumer is in tryPop, the head it loaded, its copy
  sent,      \* history: messages whose push returned, per producer
  received   \* history: what tryPop returned

vars == <<write, read, slots, producer, consumer, sent, received>>
-----------------------------------------------------------------------------
Message == Producers \X (1 .. MaxMessages)

IntValues == -(IntMax + 1) .. IntMax

(* The result n of an int operation: the builds wrap around on overflow. *)
ToInt(n) == ((n + IntMax + 1) % (2 * (IntMax + 1))) - (IntMax + 1)

(* Conversion of an int to size_t. *)
ToSize(n) == n % SizeModulus

(* Faulty variant: a counter that leaves the range of int. *)
IncrementUnbounded(n) == n + 1

Increment(n) == ToInt(n + 1)

Index(n) == ToSize(n) % Capacity

(* Faulty variant: off by one, one message too many. *)
HasRoomOffByOne(tail, head) == ToSize(ToInt(tail - head)) <= Capacity

HasRoom(tail, head) == ToSize(ToInt(tail - head)) <= Capacity - 1
-----------------------------------------------------------------------------
Init ==
  /\ write = 0
  /\ read = 0
  /\ slots = [i \in 0 .. Capacity - 1 |-> NoMessage]
  /\ producer = [p \in Producers |-> [pc |-> "idle", tail |-> 0]]
  /\ consumer = [pc |-> "idle", head |-> 0, element |-> NoMessage]
  /\ sent = [p \in Producers |-> 0]
  /\ received = <<>>

(* tryPush: load of m_write *)
LoadTail(p) ==
  /\ producer[p].pc = "idle"
  /\ sent[p] < MaxMessages
  /\ producer' = [producer EXCEPT ![p] = [pc |-> "loaded", tail |-> write]]
  /\ UNCHANGED <<write, read, slots, consumer, sent, received>>

(* tryPush: load of m_read and the test for room; without room tryPush     *)
(* returns false and push calls it again                                   *)
CheckRoom(p) ==
  /\ producer[p].pc = "loaded"
  /\ producer' = [producer EXCEPT ![p].pc =
                    IF HasRoom(producer[p].tail, read) THEN "checked" ELSE "idle"]
  /\ UNCHANGED <<write, read, slots, consumer, sent, received>>

(* tryPush: the slot is assigned *)
WriteSlot(p) ==
  /\ producer[p].pc = "checked"
  /\ slots' = [slots EXCEPT ![Index(producer[p].tail)] = <<p, sent[p] + 1>>]
  /\ producer' = [producer EXCEPT ![p].pc = "written"]
  /\ UNCHANGED <<write, read, consumer, sent, received>>

(* tryPush: store of m_write; push returns *)
PublishTail(p) ==
  /\ producer[p].pc = "written"
  /\ write' = Increment(producer[p].tail)
  /\ sent' = [sent EXCEPT ![p] = @ + 1]
  /\ producer' = [producer EXCEPT ![p].pc = "idle"]
  /\ UNCHANGED <<read, slots, consumer, received>>

(* Faulty variant: the slot is released before it is copied. *)
CheckNotEmptyReleasing ==
  /\ consumer.pc = "idle"
  /\ read # write
  /\ consumer' = [consumer EXCEPT !.pc = "ready", !.head = read]
  /\ read' = Increment(read)
  /\ UNCHANGED <<write, slots, producer, sent, received>>

(* Faulty variant: counters compared by size, as if they never wrapped. *)
CheckNotEmptyOrdered ==
  /\ consumer.pc = "idle"
  /\ read < write
  /\ consumer' = [consumer EXCEPT !.pc = "ready", !.head = read]
  /\ UNCHANGED <<write, read, slots, producer, sent, received>>

(* tryPop: loads of m_read, which only the consumer writes, and of m_write *)
CheckNotEmpty ==
  /\ consumer.pc = "idle"
  /\ read # write
  /\ consumer' = [consumer EXCEPT !.pc = "ready", !.head = read]
  /\ UNCHANGED <<write, read, slots, producer, sent, received>>

(* tryPop: the slot is copied *)
ReadSlot ==
  /\ consumer.pc = "ready"
  /\ consumer' = [consumer EXCEPT !.pc = "copied", !.element = slots[Index(consumer.head)]]
  /\ UNCHANGED <<write, read, slots, producer, sent, received>>

(* tryPop: store of m_read; tryPop returns the copy *)
PublishHead ==
  /\ consumer.pc = "copied"
  /\ read' = Increment(consumer.head)
  /\ received' = Append(received, consumer.element)
  /\ consumer' = [consumer EXCEPT !.pc = "idle"]
  /\ UNCHANGED <<write, slots, producer, sent>>

Produce(p) == LoadTail(p) \/ CheckRoom(p) \/ WriteSlot(p) \/ PublishTail(p)

Consume == CheckNotEmpty \/ ReadSlot \/ PublishHead

(* Every push has returned and the consumer polls an empty queue. *)
Drained ==
  /\ \A p \in Producers : producer[p].pc = "idle" /\ sent[p] = MaxMessages
  /\ consumer.pc = "idle"
  /\ read = write

Next == Consume \/ (\E p \in Producers : Produce(p)) \/ (Drained /\ UNCHANGED vars)

(* Each thread spins in its loop: it keeps being scheduled. *)
Spec ==
  /\ Init /\ [][Next]_vars
  /\ \A p \in Producers : WF_vars(Produce(p))
  /\ WF_vars(Consume)
-----------------------------------------------------------------------------
(* Properties *)

(* Type invariant; the counters stay within int. *)
TypeOK ==
  /\ write \in IntValues
  /\ read \in IntValues
  /\ slots \in [0 .. Capacity - 1 -> Message \cup {NoMessage}]
  /\ producer \in [Producers -> [pc : {"idle", "loaded", "checked", "written"},
                                 tail : IntValues]]
  /\ consumer \in [pc : {"idle", "ready", "copied"}, head : IntValues,
                   element : Message \cup {NoMessage}]
  /\ sent \in [Producers -> 0 .. MaxMessages]
  /\ received \in Seq(Message \cup {NoMessage})

(* The contents of the queue: the slots from m_read up to m_write. *)
QueueLength == ToSize(ToInt(write - read))
Queue == [i \in 1 .. QueueLength |-> slots[Index(ToInt(read + i - 1))]]

(* No slot is assigned by a producer while the consumer copies it. *)
NoSlotRace ==
  \A p \in Producers :
    producer[p].pc = "checked" /\ consumer.pc = "ready"
    => Index(producer[p].tail) # Index(consumer.head)

(* Every message whose push returned is received once, in the order of its *)
(* producer: the sums of pushed and pulled values agree.                   *)
NothingLost ==
  Drained => \A p \in Producers :
    SelectSeq(received, LAMBDA m : m # NoMessage /\ m[1] = p)
      = [k \in 1 .. MaxMessages |-> <<p, k>>]

(* The ring buffer is a bounded FIFO queue: a push takes effect when       *)
(* m_write is stored, a pop when m_read is stored.                         *)
Bounded == INSTANCE BoundedQueue WITH queue <- Queue
ImplementsQueue == Bounded!Spec

(* Every message is delivered: push does not spin for ever. *)
EverythingDelivered == <>(Drained)
=============================================================================
