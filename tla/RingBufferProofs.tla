-------------------------- MODULE RingBufferProofs --------------------------
(***************************************************************************)
(* For one producer and a capacity that divides the number of ints (every  *)
(* power of two up to IntMax does), the ring buffer is a bounded FIFO      *)
(* queue however many messages pass through it and however often its       *)
(* counters overflow.                                                      *)
(***************************************************************************)
EXTENDS RingBuffer, TLAPS

(* Number of values of int. *)
IntRange == 2 * (IntMax + 1)
-----------------------------------------------------------------------------
(* Arithmetic *)

(* Quotient and remainder, as witnesses. *)
LEMMA Quotient ==
  ASSUME NEW m \in Nat \ {0}, NEW x \in Int
  PROVE  \E q \in Int, r \in 0 .. m - 1 : r = x % m /\ x = m * q + r
<1>1. x \div m \in Int /\ (x % m) \in 0 .. m - 1 /\ x = (m * (x \div m)) + (x % m)
  OBVIOUS
<1>2. QED
  BY <1>1

(* Distributivity, stated for products with a symbolic factor. *)
LEMMA Distribute ==
  ASSUME NEW m \in Int, NEW a \in Int, NEW b \in Int
  PROVE  /\ m * a \in Int
         /\ m * (a + b) = m * a + m * b
         /\ m * (a - b) = m * a - m * b
         /\ m * (-a) = -(m * a)
  OBVIOUS

(* A multiple of m strictly between -m and m is zero. *)
LEMMA SmallMultiple ==
  ASSUME NEW m \in Nat \ {0}, NEW k \in Int, m * k < m, -m < m * k
  PROVE  k = 0
<1>1. k < 1
  <2> SUFFICES ASSUME k >= 1 PROVE FALSE
    OBVIOUS
  <2>1. m * k >= m
    OBVIOUS
  <2>2. QED
    BY <2>1
<1>2. -k < 1
  <2> SUFFICES ASSUME -k >= 1 PROVE FALSE
    OBVIOUS
  <2>1. m * (-k) >= m
    OBVIOUS
  <2>2. QED
    BY <2>1, Distribute
<1>3. QED
  BY <1>1, <1>2

(* The remainder does not depend on the quotient one finds. *)
LEMMA RemainderUnique ==
  ASSUME NEW m \in Nat \ {0}, NEW q1 \in Int, NEW q2 \in Int,
         NEW r1 \in 0 .. m - 1, NEW r2 \in 0 .. m - 1, m * q1 + r1 = m * q2 + r2
  PROVE  r1 = r2
<1>1. m * (q1 - q2) = r2 - r1
  BY Distribute
<1>2. q1 - q2 \in Int /\ m * (q1 - q2) < m /\ -m < m * (q1 - q2)
  BY <1>1
<1>3. q1 - q2 = 0
  BY <1>2, SmallMultiple
<1>4. QED
  BY <1>1, <1>3

(* Numbers that differ by less than m have different remainders. *)
LEMMA ModDistinct ==
  ASSUME NEW m \in Nat \ {0}, NEW x \in Int, NEW y \in Int, x < y, y < x + m
  PROVE  x % m # y % m
<1> SUFFICES ASSUME x % m = y % m PROVE FALSE
  OBVIOUS
<1>1. PICK q1 \in Int, r1 \in 0 .. m - 1 : r1 = x % m /\ x = m * q1 + r1
  BY Quotient
<1>2. PICK q2 \in Int, r2 \in 0 .. m - 1 : r2 = y % m /\ y = m * q2 + r2
  BY Quotient
<1>3. r1 = r2
  BY <1>1, <1>2
<1>4. y - x = m * (q2 - q1)
  BY <1>1, <1>2, <1>3, Distribute
<1>5. m * (q2 - q1) < m /\ -m < m * (q2 - q1) /\ m * (q2 - q1) > 0
  BY <1>4
<1>6. q2 - q1 = 0
  BY <1>5, SmallMultiple
<1>7. QED
  BY <1>5, <1>6

(* Adding a multiple of m does not change the remainder. *)
LEMMA ModPeriodic ==
  ASSUME NEW m \in Nat \ {0}, NEW x \in Int, NEW k \in Int
  PROVE  (x + m * k) % m = x % m
<1>1. x + m * k \in Int
  OBVIOUS
<1>2. PICK q1 \in Int, r1 \in 0 .. m - 1 : r1 = x % m /\ x = m * q1 + r1
  BY Quotient
<1>3. PICK q2 \in Int, r2 \in 0 .. m - 1 : r2 = (x + m * k) % m /\ x + m * k = m * q2 + r2
  BY <1>1, Quotient
<1>4. m * (q1 + k) + r1 = m * q2 + r2
  BY <1>2, <1>3, Distribute
<1>5. r1 = r2
  BY <1>4, RemainderUnique
<1>6. QED
  BY <1>2, <1>3, <1>5

(* Sequences with the same elements are equal. *)
LEMMA SeqEqual ==
  ASSUME NEW S, NEW s \in Seq(S), NEW t \in Seq(S), Len(s) = Len(t),
         \A i \in 1 .. Len(s) : s[i] = t[i]
  PROVE  s = t
  OBVIOUS
-----------------------------------------------------------------------------
(* The int counters *)

(* ToInt gives an int that differs by a multiple of the range. *)
LEMMA ToIntCongruent ==
  ASSUME NEW n \in Int
  PROVE  ToInt(n) \in IntValues /\ ToInt(n) \in Int /\ \E j \in Int : ToInt(n) = n + IntRange * j
<1>1. IntMax \in Nat /\ IntRange \in Nat \ {0}
  BY RingAssumption DEF IntRange
<1>2. n + IntMax + 1 \in Int
  BY <1>1
<1>3. PICK q \in Int, r \in 0 .. IntRange - 1 :
        r = (n + IntMax + 1) % IntRange /\ n + IntMax + 1 = IntRange * q + r
  BY <1>1, <1>2, Quotient
<1>4. ToInt(n) = r - (IntMax + 1)
  BY <1>3 DEF ToInt, IntRange
<1>5. IntRange * (-q) = -(IntRange * q) /\ IntRange * q \in Int
  BY <1>1, Distribute
<1>6. ToInt(n) = n + IntRange * (-q)
  BY <1>1, <1>3, <1>4, <1>5
<1>7. ToInt(n) \in IntValues /\ ToInt(n) \in Int
  BY <1>1, <1>4 DEF IntValues, IntRange
<1>8. -q \in Int
  OBVIOUS
<1>9. QED
  BY <1>6, <1>7, <1>8

(* An int is determined by its value up to multiples of the range. *)
LEMMA IntUnique ==
  ASSUME NEW x \in IntValues, NEW y \in IntValues, NEW j \in Int, x = y + IntRange * j
  PROVE  x = y
<1>1. IntMax \in Nat /\ IntRange \in Nat \ {0} /\ x \in Int /\ y \in Int
  BY RingAssumption DEF IntRange, IntValues
<1>2. IntRange * j \in Int
  BY <1>1, Distribute
<1>3. x - y < IntRange /\ -IntRange < x - y
  BY <1>1 DEF IntValues, IntRange
<1>4. IntRange * j < IntRange /\ -IntRange < IntRange * j
  BY <1>1, <1>2, <1>3
<1>5. j = 0
  BY <1>1, <1>4, SmallMultiple
<1>6. IntRange * j = 0
  BY <1>1, <1>5
<1>7. QED
  BY <1>1, <1>6

(* A sum may be wrapped before or after the addition. *)
LEMMA ToIntShift ==
  ASSUME NEW n \in Int, NEW k \in Int
  PROVE  ToInt(ToInt(n) + k) = ToInt(n + k)
<1>1. IntRange \in Int
  BY RingAssumption DEF IntRange
<1>2. PICK i \in Int : ToInt(n) = n + IntRange * i
  BY ToIntCongruent
<1>3. ToInt(n) \in Int /\ ToInt(n) + k \in Int /\ n + k \in Int
  BY ToIntCongruent
<1>4. PICK j \in Int : ToInt(ToInt(n) + k) = ToInt(n) + k + IntRange * j
  BY <1>3, ToIntCongruent
<1>5. PICK h \in Int : ToInt(n + k) = n + k + IntRange * h
  BY <1>3, ToIntCongruent
<1>6. IntRange * ((i + j) - h) = IntRange * i + IntRange * j - IntRange * h
  BY <1>1, Distribute
<1>7. ToInt(ToInt(n) + k) = ToInt(n + k) + IntRange * ((i + j) - h)
  BY <1>1, <1>2, <1>4, <1>5, <1>6, Distribute
<1>8. ToInt(ToInt(n) + k) \in IntValues /\ ToInt(n + k) \in IntValues
  BY <1>3, ToIntCongruent
<1>9. QED
  BY <1>7, <1>8, IntUnique

(* The increment of a counter that has wrapped around. *)
LEMMA IncrementToInt ==
  ASSUME NEW n \in Int
  PROVE  Increment(ToInt(n)) = ToInt(n + 1)
  BY ToIntShift DEF Increment

(* The distance of two counters survives the conversions. *)
LEMMA DistanceExact ==
  ASSUME NEW a \in Int, NEW b \in Int, a - b \in 0 .. IntMax
  PROVE  ToSize(ToInt(ToInt(a) - ToInt(b))) = a - b
<1>1. IntMax \in Nat /\ IntRange \in Int /\ SizeModulus \in Nat \ {0} /\ IntMax < SizeModulus
  BY RingAssumption DEF IntRange
<1>2. PICK i \in Int : ToInt(a) = a + IntRange * i
  BY ToIntCongruent
<1>3. PICK j \in Int : ToInt(b) = b + IntRange * j
  BY ToIntCongruent
<1>4. ToInt(a) \in Int /\ ToInt(b) \in Int /\ ToInt(a) - ToInt(b) \in Int
  BY ToIntCongruent
<1>5. PICK k \in Int : ToInt(ToInt(a) - ToInt(b)) = ToInt(a) - ToInt(b) + IntRange * k
  BY <1>4, ToIntCongruent
<1>6. IntRange * ((i - j) + k) = IntRange * i - IntRange * j + IntRange * k
  BY <1>1, Distribute
<1>7. ToInt(ToInt(a) - ToInt(b)) = (a - b) + IntRange * ((i - j) + k)
  BY <1>1, <1>2, <1>3, <1>5, <1>6, Distribute
<1>8. a - b \in IntValues
  BY <1>1 DEF IntValues
<1>9. ToInt(ToInt(a) - ToInt(b)) \in IntValues
  BY <1>4, ToIntCongruent
<1>10. ToInt(ToInt(a) - ToInt(b)) = a - b
  BY <1>7, <1>8, <1>9, IntUnique
<1>11. ASSUME NEW d \in 0 .. IntMax PROVE d % SizeModulus = d
  BY <1>1
<1>12. QED
  BY <1>10, <1>11 DEF ToSize

(* A wrapped counter distinguishes the numbers of a window. *)
LEMMA ToIntInjective ==
  ASSUME NEW a \in Int, NEW b \in Int, a - b \in 0 .. IntMax, ToInt(a) = ToInt(b)
  PROVE  a = b
<1>1. ToInt(a) - ToInt(b) = 0
  BY ToIntCongruent
<1>2. ToSize(ToInt(0)) = 0
  <2>1. IntMax \in Nat /\ SizeModulus \in Nat \ {0}
    BY RingAssumption
  <2>2. ToSize(ToInt(ToInt(0) - ToInt(0))) = 0 - 0
    BY <2>1, DistanceExact
  <2>3. ToInt(0) - ToInt(0) = 0
    BY ToIntCongruent
  <2>4. QED
    BY <2>2, <2>3
<1>3. a - b = 0
  BY <1>1, <1>2, DistanceExact
<1>4. QED
  BY <1>3

(* If the capacity divides the ranges of int and of size_t, the slots are  *)
(* used round robin even across an overflow.                               *)
LEMMA IndexToInt ==
  ASSUME NEW n \in Int, NEW u \in Int, NEW v \in Int,
         IntRange = Capacity * u, SizeModulus = Capacity * v
  PROVE  Index(ToInt(n)) = n % Capacity
<1>1. Capacity \in Nat \ {0} /\ SizeModulus \in Nat \ {0}
  BY RingAssumption
<1>2. PICK i \in Int : ToInt(n) = n + IntRange * i
  BY ToIntCongruent
<1>3. ToInt(n) \in Int
  BY ToIntCongruent
<1>4. PICK w \in Int, r \in 0 .. SizeModulus - 1 :
        r = ToInt(n) % SizeModulus /\ ToInt(n) = SizeModulus * w + r
  BY <1>1, <1>3, Quotient
<1>5. IntRange * i = Capacity * (u * i) /\ SizeModulus * w = Capacity * (v * w)
  BY <1>1
<1>6. u * i \in Int /\ v * w \in Int /\ u * i - v * w \in Int
  BY Distribute
<1>7. Capacity * (u * i - v * w) = Capacity * (u * i) - Capacity * (v * w)
  BY <1>1, <1>6, Distribute
<1>8. Capacity * (u * i) \in Int /\ Capacity * (v * w) \in Int
  BY <1>1, <1>6, Distribute
<1>9. r = n + Capacity * (u * i - v * w)
  BY <1>2, <1>4, <1>5, <1>7, <1>8
<1>10. r % Capacity = n % Capacity
  BY <1>1, <1>6, <1>9, ModPeriodic
<1>11. QED
  BY <1>4, <1>10 DEF Index, ToSize
-----------------------------------------------------------------------------
(* One producer *)

(* The capacity divides the number of ints and of size_t values. *)
RoundRobin ==
  \E u \in Int, v \in Int : IntRange = Capacity * u /\ SizeModulus = Capacity * v

(* The slot of the n-th message, counted from 0. *)
Slot(n) == n % Capacity

(* The inductive invariant for the only producer p. The counters are the   *)
(* numbers of messages sent and received, wrapped to int; the slots hold   *)
(* the messages in between.                                                *)
Window(p) == Len(received) <= sent[p] /\ sent[p] <= Len(received) + Capacity

Counters(p) == write = ToInt(sent[p]) /\ read = ToInt(Len(received))

ProducerInv(p) ==
  /\ producer[p].pc # "idle" => producer[p].tail = write /\ sent[p] < MaxMessages
  /\ producer[p].pc \in {"checked", "written"} => sent[p] < Len(received) + Capacity
  /\ producer[p].pc = "written" => slots[Slot(sent[p])] = <<p, sent[p] + 1>>

ConsumerInv(p) ==
  /\ consumer.pc # "idle" => consumer.head = read /\ Len(received) < sent[p]
  /\ consumer.pc = "copied" => consumer.element = <<p, Len(received) + 1>>

Contents(p) ==
  \A k \in Nat : Len(received) <= k /\ k < sent[p] => slots[Slot(k)] = <<p, k + 1>>

InOrder(p) == \A k \in 1 .. Len(received) : received[k] = <<p, k>>

SpscInv(p) ==
  /\ TypeOK
  /\ Window(p) /\ Counters(p) /\ ProducerInv(p) /\ ConsumerInv(p)
  /\ Contents(p) /\ InOrder(p)

(* Facts about the slots of the messages. *)
LEMMA SlotFacts ==
  ASSUME RoundRobin
  PROVE  /\ \A n \in Nat : Index(ToInt(n)) = Slot(n) /\ Slot(n) \in 0 .. Capacity - 1
         /\ \A m, n \in Nat : m < n /\ n < m + Capacity => Slot(m) # Slot(n)
<1>1. Capacity \in Nat \ {0}
  BY RingAssumption
<1>2. ASSUME NEW n \in Nat
      PROVE  Index(ToInt(n)) = Slot(n) /\ Slot(n) \in 0 .. Capacity - 1
  <2>1. PICK u \in Int, v \in Int : IntRange = Capacity * u /\ SizeModulus = Capacity * v
    BY DEF RoundRobin
  <2>2. n \in Int
    OBVIOUS
  <2>3. Index(ToInt(n)) = n % Capacity
    BY <2>1, <2>2, IndexToInt, Zenon
  <2>4. n % Capacity \in 0 .. Capacity - 1
    BY <1>1, <2>2
  <2>5. QED
    BY <2>3, <2>4, Zenon DEF Slot
<1>3. ASSUME NEW m \in Nat, NEW n \in Nat, m < n, n < m + Capacity
      PROVE  Slot(m) # Slot(n)
  <2>1. m \in Int /\ n \in Int
    OBVIOUS
  <2>2. m % Capacity # n % Capacity
    BY <1>1, <1>3, <2>1, ModDistinct, Zenon
  <2>3. QED
    BY <2>2, Zenon DEF Slot
<1>4. QED
  BY <1>2, <1>3

(* Facts about the counters while the window holds. *)
LEMMA CounterFacts ==
  /\ Capacity \in Nat \ {0} /\ MaxMessages \in Nat /\ Capacity <= IntMax /\ IntMax \in Nat
  /\ \A n \in Nat : ToInt(n) \in IntValues /\ Increment(ToInt(n)) = ToInt(n + 1)
  /\ \A m, n \in Nat : m <= n /\ n <= m + Capacity =>
       /\ HasRoom(ToInt(n), ToInt(m)) <=> n < m + Capacity
       /\ ToSize(ToInt(ToInt(n) - ToInt(m))) = n - m
       /\ ToInt(n) = ToInt(m) => n = m
<1>1. Capacity \in Nat \ {0} /\ MaxMessages \in Nat /\ Capacity <= IntMax /\ IntMax \in Nat
  BY RingAssumption
<1>2. ASSUME NEW n \in Nat
      PROVE  ToInt(n) \in IntValues /\ Increment(ToInt(n)) = ToInt(n + 1)
  BY ToIntCongruent, IncrementToInt
<1>3. ASSUME NEW m \in Nat, NEW n \in Nat, m <= n, n <= m + Capacity
      PROVE  /\ HasRoom(ToInt(n), ToInt(m)) <=> n < m + Capacity
             /\ ToSize(ToInt(ToInt(n) - ToInt(m))) = n - m
             /\ ToInt(n) = ToInt(m) => n = m
  <2>1. n - m \in 0 .. IntMax
    BY <1>1, <1>3
  <2>2. ToSize(ToInt(ToInt(n) - ToInt(m))) = n - m
    BY <2>1, DistanceExact
  <2>3. HasRoom(ToInt(n), ToInt(m)) <=> n < m + Capacity
    BY <1>1, <2>2 DEF HasRoom
  <2>4. ToInt(n) = ToInt(m) => n = m
    BY <2>1, ToIntInjective
  <2>5. QED
    BY <2>2, <2>3, <2>4
<1>4. QED
  BY <1>1, <1>2, <1>3

(* The invariant holds initially. *)
LEMMA SpscInit ==
  ASSUME NEW p, Producers = {p}, Init
  PROVE  SpscInv(p)
<1>1. ToInt(0) = 0
  <2>1. 0 \in IntValues /\ ToInt(0) \in IntValues /\ IntRange \in Int
    BY RingAssumption, ToIntCongruent DEF IntValues, IntRange
  <2>2. PICK j \in Int : ToInt(0) = 0 + IntRange * j
    BY ToIntCongruent
  <2>3. QED
    BY <2>1, <2>2, IntUnique
<1>2. TypeOK
  BY <1>1, CounterFacts, RingAssumption DEF Init, TypeOK, IntValues, Message
<1>3. Window(p) /\ Counters(p) /\ ProducerInv(p) /\ ConsumerInv(p) /\ Contents(p) /\ InOrder(p)
  BY <1>1, CounterFacts
     DEF Init, Window, Counters, ProducerInv, ConsumerInv, Contents, InOrder
<1>4. QED
  BY <1>2, <1>3 DEF SpscInv

(* Every step of the producer and of the consumer preserves it. *)
LEMMA SpscNext ==
  ASSUME NEW p, Producers = {p}, RoundRobin, SpscInv(p), [Next]_vars
  PROVE  SpscInv(p)'
<1> DEFINE n == sent[p]
           r == Len(received)
<1>1. TypeOK /\ Window(p) /\ Counters(p) /\ ProducerInv(p) /\ ConsumerInv(p)
      /\ Contents(p) /\ InOrder(p)
  BY DEF SpscInv
<1>2. n \in 0 .. MaxMessages /\ n \in Nat /\ r \in Nat /\ r <= n /\ n <= r + Capacity
  BY <1>1, CounterFacts DEF TypeOK, Window
<1>3. write = ToInt(n) /\ read = ToInt(r)
  BY <1>1 DEF Counters
<1>4. CASE UNCHANGED vars
  BY <1>1, <1>4 DEF vars, SpscInv, TypeOK, Window, Counters, ProducerInv, ConsumerInv,
                    Contents, InOrder
<1>5. CASE LoadTail(p)
  <2>1. TypeOK'
    BY <1>1, <1>5 DEF LoadTail, TypeOK
  <2>2. (Window(p) /\ Counters(p) /\ ConsumerInv(p) /\ Contents(p) /\ InOrder(p))'
    BY <1>1, <1>5 DEF LoadTail, Window, Counters, ConsumerInv, Contents, InOrder
  <2>3. ProducerInv(p)'
    BY <1>1, <1>5 DEF LoadTail, ProducerInv, TypeOK
  <2>4. QED
    BY <2>1, <2>2, <2>3 DEF SpscInv
<1>6. CASE CheckRoom(p)
  <2>1. TypeOK'
    BY <1>1, <1>6 DEF CheckRoom, TypeOK
  <2>2. (Window(p) /\ Counters(p) /\ ConsumerInv(p) /\ Contents(p) /\ InOrder(p))'
    BY <1>1, <1>6 DEF CheckRoom, Window, Counters, ConsumerInv, Contents, InOrder
  <2>3. HasRoom(producer[p].tail, read) => n < r + Capacity
    BY <1>1, <1>2, <1>3, <1>6, CounterFacts DEF CheckRoom, ProducerInv
  <2>4. ProducerInv(p)'
    BY <1>1, <1>6, <2>3 DEF CheckRoom, ProducerInv, TypeOK
  <2>5. QED
    BY <2>1, <2>2, <2>4 DEF SpscInv
<1>7. CASE WriteSlot(p)
  <2>1. n < MaxMessages /\ n < r + Capacity /\ Index(producer[p].tail) = Slot(n)
        /\ Slot(n) \in 0 .. Capacity - 1
    BY <1>1, <1>2, <1>3, <1>7, SlotFacts DEF WriteSlot, ProducerInv
  <2>2. slots' = [slots EXCEPT ![Slot(n)] = <<p, n + 1>>]
    BY <1>7, <2>1 DEF WriteSlot
  <2>3. <<p, n + 1>> \in Message
    <3>1. n + 1 \in 1 .. MaxMessages
      BY <1>2, <2>1, RingAssumption
    <3>2. QED
      BY <3>1 DEF Message
  <2>4. TypeOK'
    <3>1. slots' \in [0 .. Capacity - 1 -> Message \cup {NoMessage}]
      BY <1>1, <2>2, <2>3 DEF TypeOK
    <3>2. QED
      BY <1>1, <1>7, <3>1 DEF WriteSlot, TypeOK
  <2>5. (Window(p) /\ Counters(p) /\ ConsumerInv(p) /\ InOrder(p))'
    BY <1>1, <1>7 DEF WriteSlot, Window, Counters, ConsumerInv, InOrder
  <2>6. ProducerInv(p)'
    BY <1>1, <1>7, <2>1, <2>2 DEF WriteSlot, ProducerInv, TypeOK
  <2>7. ASSUME NEW k \in Nat, r <= k, k < n
        PROVE  slots'[Slot(k)] = <<p, k + 1>>
    <3>1. Slot(k) # Slot(n) /\ Slot(k) \in 0 .. Capacity - 1
      <4>1. k < n /\ n < k + Capacity /\ k \in Nat /\ n \in Nat
        BY <1>2, <2>1, <2>7, RingAssumption
      <4>2. QED
        BY <4>1, SlotFacts
    <3>2. QED
      BY <1>1, <2>2, <2>7, <3>1 DEF Contents, TypeOK
  <2>8. Contents(p)'
    BY <1>7, <2>7 DEF WriteSlot, Contents
  <2>9. QED
    BY <2>4, <2>5, <2>6, <2>8 DEF SpscInv
<1>8. CASE PublishTail(p)
  <2>1. n < MaxMessages /\ n < r + Capacity /\ slots[Slot(n)] = <<p, n + 1>>
        /\ producer[p].tail = ToInt(n)
    BY <1>1, <1>3, <1>8 DEF PublishTail, ProducerInv
  <2>2. write' = ToInt(n + 1) /\ write' \in IntValues
    <3>1. Increment(ToInt(n)) = ToInt(n + 1) /\ ToInt(n + 1) \in IntValues
      <4>1. n \in Int /\ n + 1 \in Int
        BY <1>2
      <4>2. QED
        BY <4>1, IncrementToInt, ToIntCongruent
    <3>2. QED
      BY <1>8, <2>1, <3>1 DEF PublishTail
  <2>3. sent'[p] = n + 1 /\ sent' \in [Producers -> 0 .. MaxMessages]
    BY <1>1, <1>2, <1>8, <2>1, CounterFacts DEF PublishTail, TypeOK
  <2>4. TypeOK'
    BY <1>1, <1>8, <2>2, <2>3 DEF PublishTail, TypeOK
  <2>5. (Window(p) /\ Counters(p) /\ InOrder(p))'
    BY <1>1, <1>2, <1>8, <2>1, <2>2, <2>3, CounterFacts
       DEF PublishTail, Window, Counters, InOrder
  <2>6. ProducerInv(p)'
    BY <1>1, <1>8 DEF PublishTail, ProducerInv, TypeOK
  <2>7. ConsumerInv(p)'
    BY <1>1, <1>2, <1>8, <2>3 DEF PublishTail, ConsumerInv
  <2>8. Contents(p)'
    BY <1>1, <1>2, <1>8, <2>1, <2>3 DEF PublishTail, Contents
  <2>9. QED
    BY <2>4, <2>5, <2>6, <2>7, <2>8 DEF SpscInv
<1>9. CASE CheckNotEmpty
  <2>1. r < n
    BY <1>2, <1>3, <1>9, CounterFacts DEF CheckNotEmpty
  <2>2. TypeOK'
    BY <1>1, <1>9 DEF CheckNotEmpty, TypeOK
  <2>3. (Window(p) /\ Counters(p) /\ ProducerInv(p) /\ Contents(p) /\ InOrder(p))'
    BY <1>1, <1>9 DEF CheckNotEmpty, Window, Counters, ProducerInv, Contents, InOrder
  <2>4. ConsumerInv(p)'
    BY <1>1, <1>9, <2>1 DEF CheckNotEmpty, ConsumerInv, TypeOK
  <2>5. QED
    BY <2>2, <2>3, <2>4 DEF SpscInv
<1>10. CASE ReadSlot
  <2>1. r < n /\ Index(consumer.head) = Slot(r) /\ Slot(r) \in 0 .. Capacity - 1
    BY <1>1, <1>2, <1>3, <1>10, SlotFacts DEF ReadSlot, ConsumerInv
  <2>2. slots[Index(consumer.head)] = <<p, r + 1>>
    BY <1>1, <1>2, <2>1 DEF Contents
  <2>3. TypeOK'
    BY <1>1, <1>10, <2>1 DEF ReadSlot, TypeOK
  <2>4. (Window(p) /\ Counters(p) /\ ProducerInv(p) /\ Contents(p) /\ InOrder(p))'
    BY <1>1, <1>10 DEF ReadSlot, Window, Counters, ProducerInv, Contents, InOrder
  <2>5. ConsumerInv(p)'
    BY <1>1, <1>10, <2>1, <2>2 DEF ReadSlot, ConsumerInv, TypeOK
  <2>6. QED
    BY <2>3, <2>4, <2>5 DEF SpscInv
<1>11. CASE PublishHead
  <2>1. r < n /\ consumer.head = ToInt(r) /\ consumer.element = <<p, r + 1>>
    BY <1>1, <1>3, <1>11 DEF PublishHead, ConsumerInv
  <2>2. read' = ToInt(r + 1) /\ read' \in IntValues
    <3>1. Increment(ToInt(r)) = ToInt(r + 1) /\ ToInt(r + 1) \in IntValues
      BY <1>2, CounterFacts
    <3>2. QED
      BY <1>11, <2>1, <3>1 DEF PublishHead
  <2>3. received' = Append(received, <<p, r + 1>>) /\ Len(received') = r + 1
        /\ received' \in Seq(Message \cup {NoMessage})
    <3>1. received' = Append(received, <<p, r + 1>>)
      BY <1>11, <2>1 DEF PublishHead
    <3>2. received \in Seq(Message \cup {NoMessage}) /\ <<p, r + 1>> \in Message \cup {NoMessage}
      BY <1>1, <2>1 DEF TypeOK
    <3>3. QED
      BY <3>1, <3>2
  <2>4. TypeOK'
    BY <1>1, <1>11, <2>2, <2>3 DEF PublishHead, TypeOK
  <2>5. (Window(p) /\ Counters(p))'
    BY <1>1, <1>2, <1>11, <2>1, <2>2, <2>3, CounterFacts DEF PublishHead, Window, Counters
  <2>6. ProducerInv(p)'
    BY <1>1, <1>2, <1>11, <2>3, CounterFacts DEF PublishHead, ProducerInv
  <2>7. ConsumerInv(p)'
    BY <1>1, <1>11 DEF PublishHead, ConsumerInv, TypeOK
  <2>8. Contents(p)'
    BY <1>1, <1>2, <1>11, <2>3 DEF PublishHead, Contents
  <2>9. InOrder(p)'
    BY <1>1, <1>2, <2>3 DEF InOrder, TypeOK
  <2>10. QED
    BY <2>4, <2>5, <2>6, <2>7, <2>8, <2>9 DEF SpscInv
<1>12. QED
  BY <1>4, <1>5, <1>6, <1>7, <1>8, <1>9, <1>10, <1>11 DEF Next, Produce, Consume

(* A producer and the consumer of a RingBufferSPSCLockFree never touch the *)
(* same slot at the same time, for every capacity that divides the ranges  *)
(* of the counters and every number of messages.                           *)
THEOREM SpscNoSlotRace ==
  ASSUME NEW p, Producers = {p}, RoundRobin
  PROVE  Spec => [](TypeOK /\ NoSlotRace)
<1>1. Init => SpscInv(p)
  BY SpscInit
<1>2. SpscInv(p) /\ [Next]_vars => SpscInv(p)'
  BY SpscNext
<1>3. SpscInv(p) => TypeOK /\ NoSlotRace
  <2> SUFFICES ASSUME SpscInv(p), producer[p].pc = "checked", consumer.pc = "ready"
               PROVE  Index(producer[p].tail) # Index(consumer.head)
    BY DEF NoSlotRace, SpscInv
  <2>1. sent[p] \in Nat /\ Len(received) \in Nat
    BY CounterFacts DEF SpscInv, TypeOK
  <2>2. Len(received) < sent[p] /\ sent[p] < Len(received) + Capacity
        /\ producer[p].tail = ToInt(sent[p]) /\ consumer.head = ToInt(Len(received))
    BY DEF SpscInv, ProducerInv, ConsumerInv, Counters
  <2>3. QED
    BY <2>1, <2>2, SlotFacts
<1>4. QED
  BY <1>1, <1>2, <1>3, PTL DEF Spec

(* The mapped queue holds the messages sent and not yet received. *)
QueueIsWindow(p) ==
  /\ Queue \in Seq(Message)
  /\ Len(Queue) = sent[p] - Len(received)
  /\ \A i \in 1 .. Len(Queue) : Queue[i] = <<p, Len(received) + i>>

(* While the invariant holds, the mapped queue is the window of messages. *)
LEMMA QueueContents ==
  ASSUME NEW p, Producers = {p}, RoundRobin
  PROVE  SpscInv(p) => QueueIsWindow(p)
<1> SUFFICES ASSUME SpscInv(p) PROVE QueueIsWindow(p)
  OBVIOUS
<1> DEFINE n == sent[p]
           r == Len(received)
<1>1. n \in Nat /\ r \in Nat /\ r <= n /\ n <= r + Capacity /\ n <= MaxMessages
  BY CounterFacts DEF SpscInv, TypeOK, Window
<1>2. write = ToInt(n) /\ read = ToInt(r)
  BY DEF SpscInv, Counters
<1>3. QueueLength = n - r
  BY <1>1, <1>2, CounterFacts DEF QueueLength
<1>4. ASSUME NEW i \in 1 .. n - r
      PROVE  slots[Index(ToInt(read + i - 1))] = <<p, r + i>>
  <2>1. ToInt(read + (i - 1)) = ToInt(r + (i - 1))
    BY <1>1, <1>2, ToIntShift
  <2>2. read + (i - 1) = read + i - 1
    BY <1>1, <1>2, ToIntCongruent
  <2>3. Index(ToInt(r + (i - 1))) = Slot(r + (i - 1))
    BY <1>1, SlotFacts
  <2>4. slots[Slot(r + (i - 1))] = <<p, (r + (i - 1)) + 1>>
    BY <1>1 DEF SpscInv, Contents
  <2>5. QED
    BY <1>1, <2>1, <2>2, <2>3, <2>4
<1>5. Queue = [i \in 1 .. n - r |-> <<p, r + i>>]
  BY <1>3, <1>4 DEF Queue
<1>6. \A i \in 1 .. n - r : <<p, r + i>> \in Message
  <2> SUFFICES ASSUME NEW i \in 1 .. n - r PROVE <<p, r + i>> \in Message
    OBVIOUS
  <2>1. r + i \in 1 .. MaxMessages
    BY <1>1, RingAssumption
  <2>2. QED
    BY <2>1 DEF Message
<1>7. QED
  BY <1>1, <1>5, <1>6 DEF QueueIsWindow

(* The ring buffer implements the bounded queue: the step that stores      *)
(* m_write is a push, the step that stores m_read is a pop, and no other   *)
(* step changes the queue.                                                 *)
THEOREM SpscImplementsQueue ==
  ASSUME NEW p, Producers = {p}, RoundRobin
  PROVE  Spec => ImplementsQueue
<1>1. Init => SpscInv(p)
  BY SpscInit
<1>2. SpscInv(p) /\ [Next]_vars => SpscInv(p)'
  BY SpscNext
<1>3. SpscInv(p) => QueueIsWindow(p)
  BY QueueContents
<1>4. SpscInv(p)' => QueueIsWindow(p)'
  BY <1>3, PTL
<1>5. Init => Bounded!Init
  <2> SUFFICES ASSUME Init PROVE Bounded!Init
    OBVIOUS
  <2>1. Queue = <<>>
    BY <1>1, <1>3 DEF Init, QueueIsWindow
  <2>2. QED
    BY <2>1 DEF Init, Bounded!Init
<1>6. SpscInv(p) /\ SpscInv(p)' /\ [Next]_vars => [Bounded!Next]_<<Queue, sent, received>>
  <2> SUFFICES ASSUME SpscInv(p), SpscInv(p)', [Next]_vars
               PROVE  Bounded!Next \/ UNCHANGED <<Queue, sent, received>>
    BY DEF Bounded!Next
  <2> DEFINE n == sent[p]
             r == Len(received)
  <2>1. /\ Queue \in Seq(Message) /\ Len(Queue) = n - r
        /\ \A i \in 1 .. Len(Queue) : Queue[i] = <<p, r + i>>
    BY <1>3 DEF QueueIsWindow
  <2>2. /\ Queue' \in Seq(Message) /\ Len(Queue)' = n' - r'
        /\ \A i \in 1 .. Len(Queue') : Queue'[i] = <<p, r' + i>>
    BY <1>4 DEF QueueIsWindow
  <2>3. n \in Nat /\ r \in Nat /\ r <= n /\ received \in Seq(Message \cup {NoMessage})
    BY CounterFacts DEF SpscInv, TypeOK, Window
  <2>4. CASE sent' = sent /\ received' = received
    <3>1. n' = n /\ r' = r
      BY <2>4
    <3>2. Queue' = Queue
      BY <2>1, <2>2, <3>1, SeqEqual
    <3>3. QED
      BY <2>4, <3>2
  <2>5. CASE PublishTail(p)
    <3>1. n < MaxMessages /\ n < r + Capacity /\ sent' = [sent EXCEPT ![p] = n + 1]
          /\ n' = n + 1 /\ received' = received
      BY <2>5, CounterFacts DEF PublishTail, SpscInv, ProducerInv, TypeOK
    <3>2. Queue' = Append(Queue, <<p, n + 1>>)
      <4>1. <<p, n + 1>> \in Message
        BY <2>3, <3>1, RingAssumption DEF Message
      <4>2. Append(Queue, <<p, n + 1>>) \in Seq(Message)
            /\ Len(Append(Queue, <<p, n + 1>>)) = Len(Queue')
        BY <2>1, <2>2, <2>3, <3>1, <4>1
      <4>3. ASSUME NEW i \in 1 .. Len(Queue')
            PROVE  Queue'[i] = Append(Queue, <<p, n + 1>>)[i]
        <5>1. Queue'[i] = <<p, r + i>> /\ i \in 1 .. (n - r) + 1
          <6>1. r' = r /\ n' - r' = (n - r) + 1
            BY <2>3, <3>1
          <6>2. Len(Queue') = (n - r) + 1
            BY <2>2, <6>1
          <6>3. QED
            BY <2>2, <6>1, <6>2
        <5>2. CASE i \in 1 .. n - r
          BY <2>1, <2>3, <5>1, <5>2
        <5>3. CASE i = (n - r) + 1
          BY <2>1, <2>3, <5>1, <5>3
        <5>4. ASSUME NEW d \in Int, i \in 1 .. d + 1
              PROVE  i \in 1 .. d \/ i = d + 1
          BY <5>4
        <5>5. n - r \in Int
          BY <2>3
        <5>6. QED
          BY <5>1, <5>2, <5>3, <5>4, <5>5
      <4>4. QED
        BY <2>2, <4>2, <4>3, SeqEqual
    <3>3. Len(Queue) < Capacity
      BY <2>1, <2>3, <3>1, RingAssumption
    <3>4. Bounded!Push(p)
      BY <3>1, <3>2, <3>3 DEF Bounded!Push
    <3>5. QED
      BY <3>4 DEF Bounded!Next
  <2>6. CASE PublishHead
    <3>1. r < n /\ sent' = sent /\ received' = Append(received, <<p, r + 1>>) /\ r' = r + 1
      BY <2>3, <2>6 DEF PublishHead, SpscInv, ConsumerInv
    <3>2. Queue # <<>> /\ Head(Queue) = <<p, r + 1>>
      BY <2>1, <2>3, <3>1
    <3>3. Queue' = Tail(Queue)
      <4>1. Tail(Queue) \in Seq(Message) /\ Len(Tail(Queue)) = Len(Queue')
        BY <2>1, <2>2, <2>3, <3>1, <3>2
      <4>2. ASSUME NEW i \in 1 .. Len(Queue')
            PROVE  Queue'[i] = Tail(Queue)[i]
        <5>1. Queue'[i] = <<p, (r + 1) + i>> /\ i + 1 \in 1 .. Len(Queue)
          BY <2>1, <2>2, <2>3, <3>1
        <5>2. Queue[i + 1] = <<p, r + (i + 1)>>
          BY <2>1, <5>1
        <5>3. Tail(Queue)[i] = Queue[i + 1]
          BY <2>1, <3>2, <4>1
        <5>4. (r + 1) + i = r + (i + 1)
          BY <2>3
        <5>5. QED
          BY <5>1, <5>2, <5>3, <5>4
      <4>3. QED
        BY <2>2, <4>1, <4>2, SeqEqual
    <3>4. Bounded!Pop
      BY <3>1, <3>2, <3>3 DEF Bounded!Pop
    <3>5. QED
      BY <3>4 DEF Bounded!Next
  <2>7. QED
    BY <2>4, <2>5, <2>6 DEF Next, Produce, Consume, LoadTail, CheckRoom, WriteSlot,
                            CheckNotEmpty, ReadSlot, vars
<1>7. QED
  BY <1>1, <1>2, <1>5, <1>6, PTL DEF Spec, ImplementsQueue, Bounded!Spec
-----------------------------------------------------------------------------
(* Any number of producers *)

(* The result of an int operation is an int. *)
LEMMA ToIntType ==
  ASSUME NEW n \in Int
  PROVE  ToInt(n) \in IntValues
  BY RingAssumption DEF ToInt, IntValues

(* An index is a slot of the buffer, whatever the counter holds. *)
LEMMA IndexType ==
  ASSUME NEW n \in Int
  PROVE  Index(n) \in 0 .. Capacity - 1
  BY RingAssumption DEF Index, ToSize

(* What a thread has counted stays within the messages it sends, however   *)
(* many producers share the buffer: it counts a message only after the     *)
(* test that it has one left.                                              *)
CountInv == \A p \in Producers : producer[p].pc # "idle" => sent[p] < MaxMessages

(* However many threads push, and although they then overwrite each        *)
(* other's slots, the counters stay ints and what the consumer copies is a *)
(* message that some thread pushed, or the content of a slot nobody wrote: *)
(* it reads no slot outside of m_buffer.                                   *)
THEOREM TypeCorrect == Spec => []TypeOK
<1>1. Init => TypeOK /\ CountInv
  <2> SUFFICES ASSUME Init PROVE TypeOK /\ CountInv
    OBVIOUS
  <2>1. 0 \in IntValues /\ 0 \in 0 .. MaxMessages
    BY RingAssumption DEF IntValues
  <2>2. received \in Seq(Message \cup {NoMessage})
    BY DEF Init
  <2> QED
    BY <2>1, <2>2 DEF Init, TypeOK, CountInv
<1>2. TypeOK /\ CountInv /\ [Next]_vars => TypeOK' /\ CountInv'
  <2> SUFFICES ASSUME TypeOK, CountInv, [Next]_vars PROVE TypeOK' /\ CountInv'
    OBVIOUS
  <2>1. \A n \in IntValues : n \in Int
    BY RingAssumption DEF IntValues
  <2>2. ASSUME NEW p \in Producers, LoadTail(p) PROVE TypeOK' /\ CountInv'
    BY <2>2 DEF LoadTail, TypeOK, CountInv
  <2>3. ASSUME NEW p \in Producers, CheckRoom(p) PROVE TypeOK' /\ CountInv'
    BY <2>3 DEF CheckRoom, TypeOK, CountInv
  <2>4. ASSUME NEW p \in Producers, WriteSlot(p) PROVE TypeOK' /\ CountInv'
    <3>1. sent[p] + 1 \in 1 .. MaxMessages
      <4>1. sent[p] \in 0 .. MaxMessages /\ sent[p] < MaxMessages
        BY <2>4 DEF WriteSlot, CountInv, TypeOK
      <4> QED
        BY <4>1, RingAssumption
    <3>2. <<p, sent[p] + 1>> \in Message
      BY <3>1 DEF Message
    <3>3. slots' \in [0 .. Capacity - 1 -> Message \cup {NoMessage}]
      BY <2>4, <3>2 DEF WriteSlot, TypeOK
    <3>4. /\ producer' \in [Producers -> [pc : {"idle", "loaded", "checked", "written"},
                                          tail : IntValues]]
          /\ CountInv'
      BY <2>4 DEF WriteSlot, TypeOK, CountInv
    <3> QED
      BY <2>4, <3>3, <3>4 DEF WriteSlot, TypeOK
  <2>5. ASSUME NEW p \in Producers, PublishTail(p) PROVE TypeOK' /\ CountInv'
    <3>1. write' \in IntValues
      BY <2>1, <2>5, ToIntType DEF PublishTail, Increment, TypeOK
    <3>2. sent[p] + 1 \in 0 .. MaxMessages
      BY <2>5, RingAssumption DEF PublishTail, CountInv, TypeOK
    <3>3. sent' \in [Producers -> 0 .. MaxMessages]
      BY <2>5, <3>2 DEF PublishTail, TypeOK
    <3>4. /\ producer' \in [Producers -> [pc : {"idle", "loaded", "checked", "written"},
                                          tail : IntValues]]
          /\ CountInv'
      BY <2>5 DEF PublishTail, TypeOK, CountInv
    <3> QED
      BY <2>5, <3>1, <3>3, <3>4 DEF PublishTail, TypeOK
  <2>6. CASE CheckNotEmpty
    BY <2>6 DEF CheckNotEmpty, TypeOK, CountInv
  <2>7. CASE ReadSlot
    <3>1. consumer.head \in Int
      BY <2>1 DEF TypeOK
    <3>2. Index(consumer.head) \in 0 .. Capacity - 1
      BY <3>1, IndexType
    <3>3. slots[Index(consumer.head)] \in Message \cup {NoMessage}
      BY <3>2 DEF TypeOK
    <3> QED
      BY <2>7, <3>3 DEF ReadSlot, TypeOK, CountInv
  <2>8. CASE PublishHead
    <3>1. read' \in IntValues
      BY <2>1, <2>8, ToIntType DEF PublishHead, Increment, TypeOK
    <3>2. received' \in Seq(Message \cup {NoMessage})
      BY <2>8 DEF PublishHead, TypeOK
    <3> QED
      BY <2>8, <3>1, <3>2 DEF PublishHead, TypeOK, CountInv
  <2>9. CASE UNCHANGED vars
    BY <2>9 DEF vars, TypeOK, CountInv
  <2> QED
    BY <2>2, <2>3, <2>4, <2>5, <2>6, <2>7, <2>8, <2>9 DEF Next, Produce, Consume
<1> QED
  BY <1>1, <1>2, PTL DEF Spec
=============================================================================
