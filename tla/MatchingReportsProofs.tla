----------------------- MODULE MatchingReportsProofs -----------------------
(***************************************************************************)
(* What the clients are told: the reports of the matching layer are a      *)
(* behaviour of OrderLifeCycle and agree with the books, for every number  *)
(* of symbols, sessions, orders and cancels, all prices, quantities and    *)
(* queue capacities. At the end: no shares are made or lost.               *)
(*                                                                         *)
(* A report, the standing of an order and the view of a client are reduced *)
(* to the same four fields. For each symbol, T is the set of the standings *)
(* of its orders and A the set of the reports on their way; the lemmas on  *)
(* Coherent(A, T, v) argue about these sets alone.                         *)
(***************************************************************************)
EXTENDS MatchingEngineProofs, FiniteSetTheorems, WellFoundedInduction

Says(o, st) ==
  [id |-> o.id, status |-> st, quantity |-> o.quantity, executed |-> o.executed]

Saying == [id : Nat, status : OrderStatus \cup {"NONE"}, quantity : Nat, executed : Int]

ViewOf(v, i) ==
  [id |-> i, status |-> v[i].status, quantity |-> v[i].quantity, executed |-> v[i].executed]

(* y is what may be said of an order after x has been said of it. *)
Later(x, y) ==
  /\ x.quantity = y.quantity
  /\ x.status \in {"ACCEPTED", "PARTIALLY_FILLED"}
  /\ \/ y.status \in {"PARTIALLY_FILLED", "FILLED"} /\ x.executed < y.executed
     \/ y.status = "CANCELED" /\ x.executed <= y.executed

Follows(x, y) == x.id = y.id => Later(x, y)

(* Status and quantities belong together. *)
Fits(x) ==
  /\ x \in Saying /\ x.id \in OrderIds /\ x.quantity \in Quantities
  /\ \/ x.status = "ACCEPTED" /\ x.executed = 0
     \/ x.status = "PARTIALLY_FILLED" /\ 0 < x.executed /\ x.executed < x.quantity
     \/ x.status = "FILLED" /\ x.executed = x.quantity
     \/ x.status = "CANCELED" /\ 0 <= x.executed /\ x.executed < x.quantity

(* Every order stands for one thing. *)
Unique(T) == \A x, y \in T : x.id = y.id => x = y

(* No report says more than what the order has come to. *)
Bounded(A, T) == \A m \in A : \E x \in T : x.id = m.id /\ (m = x \/ Later(m, x))

(* What an order has come to was said, or a report that says so is on its  *)
(* way.                                                                    *)
Told(A, T, v) == \A x \in T : ViewOf(v, x.id) = x \/ x \in A

(* No report on its way is behind what was said. *)
Ahead(A, v) == \A m \in A : v[m.id].status = "NONE" \/ Later(ViewOf(v, m.id), m)

(* The first thing said about an order is ACCEPTED. *)
AcceptedFirst(A, T, v) ==
  \A x \in T : v[x.id].status = "NONE" => \E m \in A : m.id = x.id /\ m.status = "ACCEPTED"

(* What a CANCELED report says was executed was said before. *)
CanceledAsSaid(A, v) ==
  \A m \in A : m.status = "CANCELED" =>
    \/ v[m.id].status # "NONE" /\ v[m.id].executed = m.executed
    \/ \E b \in A : b.id = m.id /\ b.status # "CANCELED" /\ b.executed = m.executed

Coherent(A, T, v) ==
  /\ \A x \in A \cup T : Fits(x)
  /\ Unique(T) /\ Bounded(A, T) /\ Told(A, T, v) /\ Ahead(A, v)
  /\ AcceptedFirst(A, T, v) /\ CanceledAsSaid(A, v)
-----------------------------------------------------------------------------
(* The orders that erase finds and that this argument is about. *)
Sided(o) == o.side # "NON_SUPPORTED"

(* The reports of a queue. REJECTED answers a cancel and says nothing      *)
(* about an order.                                                         *)
Speaks(r) == r.status # "REJECTED" /\ Sided(r.order)

Message(r) == Says(r.order, r.status)

Messages(q) == {Message(q[k]) : k \in {i \in 1 .. Len(q) : Speaks(q[i])}}

Ordered(q) ==
  \A j, k \in 1 .. Len(q) : j < k /\ Speaks(q[j]) /\ Speaks(q[k]) =>
    Follows(Message(q[j]), Message(q[k]))

(* What the worker of s has still to push. A CANCELED report counts only   *)
(* once it is pushed: the order leaves the book in the same step.          *)
Fills(s) == IF workerPc[s] = "canceling" THEN <<>> ELSE pending[s]

OnTheWay(s) == Messages(out[s]) \cup Messages(Fills(s))

QueuesOrdered(s) ==
  /\ Ordered(out[s]) /\ Ordered(Fills(s))
  /\ \A x \in Messages(out[s]), y \in Messages(Fills(s)) : Follows(x, y)

(* What the orders of s have come to. *)
OpenStatus(o) == IF o.executed = 0 THEN "ACCEPTED" ELSE "PARTIALLY_FILLED"

LastStatus(o) == IF IsFilled(o) THEN "FILLED" ELSE "CANCELED"

InBook(s) == {Says(o, OpenStatus(o)) : o \in {x \in bids[s] \cup asks[s] : Sided(x)}}

Gone(s) == {Says(o, LastStatus(o)) : o \in {x \in left[s] : Sided(x)}}

Asks(task) == task.kind = "new" /\ Sided(task.order)

Requested(q) == {Says(q[k].order, "ACCEPTED") : k \in {i \in 1 .. Len(q) : Asks(q[i])}}

Waiting(s) == Requested(work[s])

Submitting(s) ==
  IF reactor # Idle /\ reactor.pc = "submit" /\ reactor.symbol = s /\ Asks(reactor.task)
  THEN {Says(reactor.task.order, "ACCEPTED")} ELSE {}

Standing(s) == InBook(s) \cup Gone(s) \cup Waiting(s) \cup Submitting(s)

(* The worker cancels the order that erase will find, if it has a side.    *)
CancelShape ==
  \A s \in Symbols :
    /\ workerPc[s] = "idle" => pending[s] = <<>>
    /\ workerPc[s] = "canceling" =>
         \E o \in bids[s] \cup asks[s] :
           /\ pending[s] = <<[order |-> o, status |-> "CANCELED"]>>
           /\ Erased(s, o) = {x \in {o} : Sided(x)}

(* New orders have a quantity a client may send. *)
Sensible(o) == o.quantity \in Quantities

SensibleInv ==
  /\ reactor.pc = "accept" => NewInReactor
  /\ NewInReactor => Sensible(reactor.task.order) /\ orderNumber >= 1
  /\ \A s \in Symbols : \A k \in 1 .. Len(work[s]) : NewInWork(s, k) => Sensible(work[s][k].order)

(* A book holds an order once, and holds none that has left it. *)
OnceInv ==
  \A s \in Symbols : /\ \A a, b \in Known(s) : a.id = b.id => a = b
                     /\ left[s] \cap (bids[s] \cup asks[s]) = {}

(* Orders of different symbols have different ids. *)
ApartInv ==
  \A s, t \in Symbols : s # t => \A x \in Standing(s), y \in Standing(t) : x.id # y.id

(* The orders the clients may have heard of. *)
Accepted == IF reactor # Idle /\ reactor.pc = "accept" THEN orderNumber - 1 ELSE orderNumber

Heard ==
  \A i \in OrderIds : (i > Accepted => view[i].status = "NONE") /\ view[i].executed >= 0

(* Nothing is taken from a queue whose contents are not known. *)
RaceInv == \A s \in Symbols : raced[s] => out[s] = <<>>

ReportInv ==
  /\ SensibleInv /\ CancelShape /\ OnceInv /\ ApartInv /\ Heard /\ RaceInv
  /\ \A s \in Symbols : ~raced[s] =>
       QueuesOrdered(s) /\ Coherent(OnTheWay(s), Standing(s), view)
-----------------------------------------------------------------------------
(* The argument on the sets *)

(* Saying more is transitive and never goes back. *)
LEMMA LaterOrder ==
  ASSUME NEW x \in Saying, NEW y \in Saying
  PROVE  /\ ~(Later(x, y) /\ Later(y, x))
         /\ ~Later(x, x)
         /\ Later(x, y) => y.status # "ACCEPTED" /\ y.status # "NONE"
         /\ x.status \in {"CANCELED", "FILLED", "NONE"} => ~Later(x, y)
         /\ \A z \in Saying : Later(x, y) /\ Later(y, z) => Later(x, z)
  BY DEF Later, Saying

(* The standing that a report is about is the one of its order. *)
LEMMA BoundedUnique ==
  ASSUME NEW A, NEW T, Unique(T), Bounded(A, T), NEW m \in A, NEW x \in T, m.id = x.id
  PROVE  m = x \/ Later(m, x)
  BY DEF Unique, Bounded

(* The view of an order is at most what the order has come to. *)
LEMMA ViewBounded ==
  ASSUME NEW A, NEW T, NEW v, Told(A, T, v), Ahead(A, v), NEW x \in T
  PROVE  v[x.id].status = "NONE" \/ ViewOf(v, x.id) = x \/ Later(ViewOf(v, x.id), x)
  BY DEF Told, Ahead

(* What a client saw is a saying. *)
LEMMA ViewType ==
  ASSUME NEW v \in [OrderIds -> ViewEntry], NEW i \in OrderIds
  PROVE  ViewOf(v, i) \in Saying /\ ViewOf(v, i).id = i
<1>1. v[i] \in ViewEntry /\ i \in Nat
  BY ConstantsAssumption DEF OrderIds
<1> QED
  BY <1>1 DEF ViewOf, Saying, ViewEntry, OrderStatus

(* An order trades or is canceled, and a report that says so is queued.    *)
LEMMA Publish ==
  ASSUME NEW A, NEW T, NEW v \in [OrderIds -> ViewEntry], Coherent(A, T, v),
         NEW x \in T, NEW y, Fits(y), y.id = x.id, Later(x, y),
         y.status = "CANCELED" => y.executed = x.executed
  PROVE  /\ Coherent(A \cup {y}, (T \ {x}) \cup {y}, v)
         /\ \A m \in A : Follows(m, y)
<1> DEFINE A1 == A \cup {y}
           T1 == (T \ {x}) \cup {y}
<1>1. \A m \in A \cup T : m \in Saying /\ Fits(m)
  BY DEF Coherent, Fits
<1>2. y \in Saying /\ x \in Saying /\ x.id \in OrderIds
  BY <1>1 DEF Fits
<1>3. \A m \in A : Follows(m, y)
  <2> SUFFICES ASSUME NEW m \in A, m.id = x.id PROVE Later(m, y)
    BY DEF Follows
  <2>1. m = x \/ Later(m, x)
    BY BoundedUnique DEF Coherent
  <2> QED
    BY <1>1, <1>2, <2>1, LaterOrder
<1>4. v[y.id].status = "NONE" \/ Later(ViewOf(v, y.id), y)
  <2>1. v[x.id].status = "NONE" \/ ViewOf(v, x.id) = x \/ Later(ViewOf(v, x.id), x)
    BY ViewBounded DEF Coherent
  <2>2. ViewOf(v, x.id) \in Saying
    BY <1>2, ViewType
  <2> QED
    BY <1>2, <2>1, <2>2, LaterOrder
<1>5. Unique(T1)
  BY DEF Coherent, Unique
<1>6. Bounded(A1, T1)
  <2> SUFFICES ASSUME NEW m \in A1 PROVE \E z \in T1 : z.id = m.id /\ (m = z \/ Later(m, z))
    BY DEF Bounded
  <2>1. CASE m = y
    BY <2>1
  <2>2. CASE m \in A /\ m.id = x.id
    BY <1>3, <2>2 DEF Follows
  <2>3. CASE m \in A /\ m.id # x.id
    BY <2>3 DEF Coherent, Bounded
  <2> QED
    BY <2>1, <2>2, <2>3
<1>7. Told(A1, T1, v) /\ Ahead(A1, v)
  BY <1>4 DEF Coherent, Told, Ahead
<1>8. AcceptedFirst(A1, T1, v)
  BY DEF Coherent, AcceptedFirst
<1>9. CanceledAsSaid(A1, v)
  <2> SUFFICES ASSUME NEW m \in A1, m.status = "CANCELED"
               PROVE  \/ v[m.id].status # "NONE" /\ v[m.id].executed = m.executed
                      \/ \E b \in A1 : b.id = m.id /\ b.status # "CANCELED" /\ b.executed = m.executed
    BY DEF CanceledAsSaid
  <2>1. CASE m \in A
    BY <2>1 DEF Coherent, CanceledAsSaid
  <2>2. CASE m = y
    <3>1. x.status # "CANCELED" /\ x.status # "NONE" /\ x.executed = m.executed
      BY <1>2, <2>2, LaterOrder
    <3>2. ViewOf(v, x.id) = x \/ x \in A
      BY DEF Coherent, Told
    <3> QED
      BY <2>2, <3>1, <3>2 DEF ViewOf
  <2> QED
    BY <2>1, <2>2
<1> QED
  BY <1>1, <1>3, <1>5, <1>6, <1>7, <1>8, <1>9 DEF Coherent

(* addOrder accepts an order nobody has heard of. *)
LEMMA Announce ==
  ASSUME NEW A, NEW T, NEW v, Coherent(A, T, v), NEW y, Fits(y), y.status = "ACCEPTED",
         \A x \in T : x.id # y.id, v[y.id].status = "NONE"
  PROVE  /\ Coherent(A \cup {y}, T \cup {y}, v)
         /\ \A m \in A : m.id # y.id
<1>1. \A m \in A : m.id # y.id
  BY DEF Coherent, Bounded
<1>2. Unique(T \cup {y}) /\ Bounded(A \cup {y}, T \cup {y})
  BY DEF Coherent, Unique, Bounded
<1>3. Told(A \cup {y}, T \cup {y}, v) /\ Ahead(A \cup {y}, v)
  BY DEF Coherent, Told, Ahead
<1>4. AcceptedFirst(A \cup {y}, T \cup {y}, v)
  BY DEF Coherent, AcceptedFirst
<1>5. CanceledAsSaid(A \cup {y}, v)
  BY DEF Coherent, CanceledAsSaid
<1> QED
  BY <1>1, <1>2, <1>3, <1>4, <1>5 DEF Coherent

(* Only the view of the orders of a symbol matters to it. *)
LEMMA Frame ==
  ASSUME NEW A, NEW T, NEW v, NEW w, Coherent(A, T, v), \A x \in T : w[x.id] = v[x.id]
  PROVE  Coherent(A, T, w)
<1>1. \A m \in A : w[m.id] = v[m.id]
  BY DEF Coherent, Bounded
<1>2. Told(A, T, w) /\ Ahead(A, w)
  BY <1>1 DEF Coherent, Told, Ahead, ViewOf
<1>3. AcceptedFirst(A, T, w) /\ CanceledAsSaid(A, w)
  BY <1>1 DEF Coherent, AcceptedFirst, CanceledAsSaid
<1> QED
  BY <1>2, <1>3 DEF Coherent

(* What the client saw when a report has been delivered. *)
Delivered(v, r) ==
  [v EXCEPT ![r.id] = [status |-> r.status, quantity |-> r.quantity, executed |-> r.executed]]

(* The view of the order of a delivered report is the report. *)
LEMMA DeliveredView ==
  ASSUME NEW v \in [OrderIds -> ViewEntry], NEW r, Fits(r)
  PROVE  /\ ViewOf(Delivered(v, r), r.id) = r
         /\ Delivered(v, r)[r.id].status = r.status
         /\ Delivered(v, r)[r.id].executed = r.executed
         /\ \A i \in OrderIds : i # r.id => Delivered(v, r)[i] = v[i]
                                            /\ ViewOf(Delivered(v, r), i) = ViewOf(v, i)
  BY DEF Fits, Delivered, ViewOf, Saying

(* The next report of a queue is delivered. *)
LEMMA Deliver ==
  ASSUME NEW B, NEW T, NEW v \in [OrderIds -> ViewEntry], NEW r,
         Coherent(B \cup {r}, T, v), \A m \in B : Follows(r, m)
  PROVE  Coherent(B, T, Delivered(v, r))
<1> DEFINE w == Delivered(v, r)
<1>1. \A m \in B \cup {r} \cup T : m \in Saying /\ Fits(m) /\ m.id \in OrderIds
  BY DEF Coherent, Fits
<1>2. /\ ViewOf(w, r.id) = r /\ w[r.id].status = r.status /\ w[r.id].executed = r.executed
      /\ \A i \in OrderIds : i # r.id => w[i] = v[i] /\ ViewOf(w, i) = ViewOf(v, i)
  BY <1>1, DeliveredView
<1> HIDE DEF w
<1>3. r.status # "NONE"
  BY <1>1 DEF Fits
<1>4. Bounded(B, T)
  BY DEF Coherent, Bounded
<1>5. Told(B, T, w)
  <2> SUFFICES ASSUME NEW x \in T PROVE ViewOf(w, x.id) = x \/ x \in B
    BY DEF Told
  <2>1. ViewOf(v, x.id) = x \/ x \in B \/ x = r
    BY DEF Coherent, Told
  <2>2. CASE x.id # r.id
    BY <1>1, <1>2, <2>1, <2>2
  <2>3. CASE x.id = r.id /\ ViewOf(v, x.id) = x
    <3>1. r = x \/ Later(r, x)
      BY <2>3, BoundedUnique DEF Coherent
    <3>2. x.status = v[x.id].status
      BY <2>3 DEF ViewOf
    <3>3. x.status # "NONE"
      BY <1>1 DEF Fits
    <3>4. Later(x, r)
      BY <2>3, <3>2, <3>3 DEF Coherent, Ahead
    <3> QED
      BY <1>1, <3>1, <3>4, LaterOrder
  <2> QED
    BY <1>2, <2>1, <2>2, <2>3
<1>6. Ahead(B, w)
  BY <1>1, <1>2 DEF Coherent, Ahead, Follows
<1>7. AcceptedFirst(B, T, w)
  <2> SUFFICES ASSUME NEW x \in T, w[x.id].status = "NONE"
               PROVE  \E m \in B : m.id = x.id /\ m.status = "ACCEPTED"
    BY DEF AcceptedFirst
  <2>1. x.id # r.id
    BY <1>2, <1>3
  <2>2. v[x.id].status = "NONE"
    BY <1>1, <1>2, <2>1
  <2> QED
    BY <2>1, <2>2 DEF Coherent, AcceptedFirst
<1>8. CanceledAsSaid(B, w)
  <2> SUFFICES ASSUME NEW m \in B, m.status = "CANCELED"
               PROVE  \/ w[m.id].status # "NONE" /\ w[m.id].executed = m.executed
                      \/ \E b \in B : b.id = m.id /\ b.status # "CANCELED" /\ b.executed = m.executed
    BY DEF CanceledAsSaid
  <2>1. \/ v[m.id].status # "NONE" /\ v[m.id].executed = m.executed
        \/ \E b \in B \cup {r} : b.id = m.id /\ b.status # "CANCELED" /\ b.executed = m.executed
    BY DEF Coherent, CanceledAsSaid
  <2>2. CASE m.id # r.id
    BY <1>1, <1>2, <2>1, <2>2
  <2>3. CASE m.id = r.id /\ v[m.id].status # "NONE" /\ v[m.id].executed = m.executed
    <3>1. Later(r, m) /\ Later(ViewOf(v, r.id), r)
      BY <2>3 DEF Follows, Coherent, Ahead
    <3>2. ViewOf(v, r.id).executed = m.executed
      BY <2>3 DEF ViewOf
    <3>3. r.status # "CANCELED" /\ ViewOf(v, r.id) \in Saying
      BY <1>1, <3>1, LaterOrder, ViewType
    <3>4. FALSE
      BY <1>1, <3>1, <3>2, <3>3 DEF Later, Saying
    <3> QED
      BY <3>4
  <2>4. CASE m.id = r.id /\ \E b \in B \cup {r} :
               b.id = m.id /\ b.status # "CANCELED" /\ b.executed = m.executed
    BY <1>2, <1>3, <2>4
  <2> QED
    BY <2>1, <2>2, <2>3, <2>4
<1> QED
  BY <1>1, <1>4, <1>5, <1>6, <1>7, <1>8 DEF Coherent, w

(* A delivered report is a step of the life cycle of its order. *)
LEMMA DeliverStep ==
  ASSUME NEW B, NEW T, NEW r, view \in [OrderIds -> ViewEntry],
         Coherent(B \cup {r}, T, view), \A m \in B : Follows(r, m),
         view' = Delivered(view, r), \A j \in OrderIds : view[j].executed >= 0
  PROVE  LifeCycle!Next
<1> DEFINE i == r.id
           n == r.executed - view[i].executed
<1>1. \A m \in B \cup {r} \cup T : m \in Saying /\ Fits(m)
  BY DEF Coherent, Fits
<1>2. /\ i \in OrderIds /\ i \in LifeCycle!OrderIds /\ view[i] \in ViewEntry
      /\ r.quantity \in Quantities /\ r.quantity \in Nat /\ r.executed \in Int
  BY <1>1 DEF Fits, Saying, LifeCycle!OrderIds, OrderIds
<1>3. view' = [view EXCEPT ![i] = [status |-> r.status, quantity |-> r.quantity,
                                   executed |-> r.executed]]
  BY DEF Delivered
<1>4. CASE view[i].status = "NONE"
  <2>1. PICK x \in T : x.id = i
    BY DEF Coherent, Bounded
  <2>2. PICK m \in B \cup {r} : m.id = i /\ m.status = "ACCEPTED"
    BY <1>4, <2>1 DEF Coherent, AcceptedFirst
  <2>3. m = r
    <3>1. m # r => Later(r, m)
      BY <2>2 DEF Follows
    <3> QED
      BY <1>1, <2>2, <3>1, LaterOrder
  <2>4. r.executed = 0 /\ r.status = "ACCEPTED"
    BY <1>1, <2>2, <2>3 DEF Fits
  <2>5. LifeCycle!Accept(i, r.quantity)
    BY <1>3, <1>4, <2>4 DEF LifeCycle!Accept
  <2> QED
    BY <1>2, <2>5 DEF LifeCycle!Next
<1>5. CASE view[i].status # "NONE"
  <2>1. Later(ViewOf(view, i), r)
    BY <1>5 DEF Coherent, Ahead
  <2>2. /\ view[i].quantity = r.quantity /\ LifeCycle!Open(i)
        /\ \/ r.status \in {"PARTIALLY_FILLED", "FILLED"} /\ view[i].executed < r.executed
           \/ r.status = "CANCELED"
    BY <2>1 DEF Later, ViewOf, LifeCycle!Open
  <2>3. view[i].executed \in Int /\ view[i].quantity \in Nat
    BY <1>2 DEF ViewEntry
  <2>4. view[i] = [status |-> view[i].status, quantity |-> view[i].quantity,
                   executed |-> view[i].executed]
    BY <1>2 DEF ViewEntry
  <2>5. CASE r.status = "CANCELED"
    <3>1. \/ view[i].executed = r.executed
          \/ \E b \in B \cup {r} : b.id = i /\ b.status # "CANCELED" /\ b.executed = r.executed
      BY <2>5 DEF Coherent, CanceledAsSaid
    <3>2. \A b \in B : b.id # i
      <4>1. \A b \in B : b.id = i => Later(r, b)
        BY DEF Follows
      <4> QED
        BY <1>1, <2>5, <4>1, LaterOrder
    <3>3. view[i].executed = r.executed
      BY <2>5, <3>1, <3>2
    <3>4. view' = [view EXCEPT ![i].status = "CANCELED"]
      BY <1>2, <1>3, <2>2, <2>4, <2>5, <3>3
    <3> QED
      BY <1>2, <2>2, <3>4 DEF LifeCycle!Next, LifeCycle!Cancel
  <2>6. CASE r.status \in {"PARTIALLY_FILLED", "FILLED"} /\ view[i].executed < r.executed
    <3>1. r.executed <= r.quantity /\ (r.status = "FILLED" <=> r.executed = r.quantity)
      BY <1>1, <1>2, <2>6 DEF Fits
    <3>2. n \in Int /\ n >= 1 /\ view[i].executed + n = r.executed
          /\ n <= view[i].quantity - view[i].executed
          /\ (n = view[i].quantity - view[i].executed <=> r.status = "FILLED")
      BY <1>2, <2>2, <2>3, <2>6, <3>1
    <3>3. 0 <= view[i].executed
      BY <1>2
    <3>4. n \in 1 .. view[i].quantity
      BY <2>2, <2>3, <3>2, <3>3
    <3>5. view' = [view EXCEPT ![i].executed = @ + n,
                          ![i].status = IF n = view[i].quantity - view[i].executed
                                        THEN "FILLED" ELSE "PARTIALLY_FILLED"]
      BY <1>2, <1>3, <2>2, <2>4, <2>6, <3>2
    <3> QED
      BY <1>2, <2>2, <3>2, <3>4, <3>5 DEF LifeCycle!Next, LifeCycle!Fill
  <2> QED
    BY <2>2, <2>5, <2>6
<1> QED
  BY <1>4, <1>5
-----------------------------------------------------------------------------
(* The reports of the queues *)

(* A report is a saying. *)
LEMMA MessageType ==
  ASSUME NEW r \in Report
  PROVE  /\ Message(r) \in Saying
         /\ Message(r) = Says(r.order, r.status)
         /\ Message(r).id = r.order.id /\ Message(r).status = r.status
         /\ Message(r).quantity = r.order.quantity /\ Message(r).executed = r.order.executed
  BY DEF Report, Order, Message, Says, Saying

(* push adds a report at the end. *)
LEMMA PushMessage ==
  ASSUME NEW q \in Seq(Report), NEW r \in Report
  PROVE  /\ Speaks(r) => Messages(Append(q, r)) = Messages(q) \cup {Message(r)}
         /\ ~Speaks(r) => Messages(Append(q, r)) = Messages(q)
         /\ Ordered(q) /\ (Speaks(r) => \A m \in Messages(q) : Follows(m, Message(r)))
              => Ordered(Append(q, r))
<1> DEFINE p == Append(q, r)
           n == Len(q)
<1>1. /\ n \in Nat /\ Len(p) = n + 1 /\ p[n + 1] = r
      /\ \A k \in 1 .. n : p[k] = q[k]
  OBVIOUS
<1> HIDE DEF p
<1>2. \A k \in 1 .. Len(p) : k \in 1 .. n \/ k = n + 1
  BY <1>1
<1>3. \A k : k \in 1 .. n => k \in 1 .. Len(p)
  BY <1>1
<1>4. n + 1 \in 1 .. Len(p)
  BY <1>1
<1> HIDE DEF n
<1>5. ASSUME Speaks(r) PROVE Messages(p) = Messages(q) \cup {Message(r)}
  BY <1>1, <1>2, <1>3, <1>4, <1>5, Zenon DEF Messages, n
<1>6. ASSUME ~Speaks(r) PROVE Messages(p) = Messages(q)
  BY <1>1, <1>2, <1>3, <1>6, Zenon DEF Messages, n
<1>7. ASSUME Ordered(q), Speaks(r) => \A m \in Messages(q) : Follows(m, Message(r))
      PROVE  Ordered(p)
  <2> SUFFICES ASSUME NEW j \in 1 .. Len(p), NEW k \in 1 .. Len(p), j < k,
                      Speaks(p[j]), Speaks(p[k])
               PROVE  Follows(Message(p[j]), Message(p[k]))
    BY DEF Ordered
  <2>1. CASE k \in 1 .. n
    <3>1. j \in 1 .. n
      BY <1>1, <2>1
    <3> QED
      BY <1>1, <1>7, <2>1, <3>1 DEF Ordered, n
  <2>2. CASE k = n + 1
    <3>1. j \in 1 .. n
      BY <1>1, <1>2, <2>2
    <3>2. Message(p[j]) \in Messages(q)
      BY <1>1, <3>1 DEF Messages, n
    <3> QED
      BY <1>1, <1>7, <2>2, <3>2
  <2> QED
    BY <1>2, <2>1, <2>2
<1> QED
  BY <1>5, <1>6, <1>7 DEF p

(* tryPop takes the report at the head. *)
LEMMA PopMessage ==
  ASSUME NEW q \in Seq(Report), q # <<>>
  PROVE  /\ Head(q) \in Report /\ Tail(q) \in Seq(Report)
         /\ Speaks(Head(q)) => Messages(q) = Messages(Tail(q)) \cup {Message(Head(q))}
         /\ ~Speaks(Head(q)) => Messages(q) = Messages(Tail(q))
         /\ Ordered(q) => /\ Ordered(Tail(q))
                          /\ Speaks(Head(q)) =>
                               \A m \in Messages(Tail(q)) : Follows(Message(Head(q)), m)
<1> DEFINE p == Tail(q)
           r == Head(q)
           n == Len(p)
<1>1. /\ n \in Nat /\ Len(q) = n + 1 /\ q[1] = r /\ r \in Report /\ p \in Seq(Report)
      /\ \A k \in 1 .. n : p[k] = q[k + 1]
  OBVIOUS
<1> HIDE DEF p, r
<1>2. \A k \in 1 .. Len(q) : k = 1 \/ (k - 1 \in 1 .. n /\ q[k] = p[k - 1])
  BY <1>1
<1>3. \A k \in 1 .. n : k + 1 \in 1 .. Len(q)
  BY <1>1
<1>4. 1 \in 1 .. Len(q)
  BY <1>1
<1>5. \A k \in 1 .. n : Speaks(p[k]) => Message(p[k]) \in Messages(q)
  BY <1>1, <1>3 DEF Messages
<1>6. \A k \in 1 .. n : Speaks(p[k]) => Message(p[k]) \in Messages(p)
  BY DEF Messages
<1>7. Speaks(r) => Message(r) \in Messages(q)
  BY <1>1, <1>4 DEF Messages
<1>8. ASSUME NEW m \in Messages(q) PROVE (Speaks(r) /\ m = Message(r)) \/ m \in Messages(p)
  <2>1. PICK k \in 1 .. Len(q) : Speaks(q[k]) /\ m = Message(q[k])
    BY DEF Messages
  <2> QED
    BY <1>1, <1>2, <1>6, <2>1
<1>9. ASSUME NEW m \in Messages(p) PROVE m \in Messages(q) /\ (Ordered(q) /\ Speaks(r) => Follows(Message(r), m))
  <2>1. PICK k \in 1 .. n : Speaks(p[k]) /\ m = Message(p[k])
    BY DEF Messages
  <2>2. k + 1 \in 1 .. Len(q) /\ 1 < k + 1 /\ q[k + 1] = p[k]
    BY <1>1, <1>3
  <2> QED
    BY <1>1, <1>4, <1>5, <2>1, <2>2 DEF Ordered
<1>10. ASSUME Ordered(q) PROVE Ordered(p)
  <2> SUFFICES ASSUME NEW j \in 1 .. n, NEW k \in 1 .. n, j < k, Speaks(p[j]), Speaks(p[k])
               PROVE  Follows(Message(p[j]), Message(p[k]))
    BY DEF Ordered
  <2>1. j + 1 < k + 1 /\ j + 1 \in 1 .. Len(q) /\ k + 1 \in 1 .. Len(q)
        /\ p[j] = q[j + 1] /\ p[k] = q[k + 1]
    BY <1>1, <1>3
  <2> QED
    BY <1>10, <2>1 DEF Ordered
<1>11. Speaks(r) => Messages(q) = Messages(p) \cup {Message(r)}
  BY <1>7, <1>8, <1>9
<1>12. ~Speaks(r) => Messages(q) = Messages(p)
  BY <1>8, <1>9
<1> QED
  BY <1>1, <1>9, <1>10, <1>11, <1>12 DEF p, r

(* An empty queue says nothing. *)
LEMMA NoMessage == Messages(<<>>) = {} /\ Ordered(<<>>)
  BY DEF Messages, Ordered
-----------------------------------------------------------------------------
(* The reactor, the work queues and cancels *)

(* A request in the reactor. *)
LEMMA ReactorBusy ==
  ASSUME TypeOK, reactor.pc \in {"accept", "submit"}
  PROVE  /\ reactor \in Request /\ reactor # Idle
         /\ reactor.symbol \in Symbols /\ reactor.task \in Task /\ reactor.task.order \in Order
  BY DEF TypeOK, Idle, Request, Task

(* The reactor is busy with a new order until it has submitted it. *)
LEMMA ReactorSteps ==
  ASSUME [Next]_vars
  PROVE  \/ \E s \in Symbols, c \in ClientIds, n \in Sessions, side \in NewOrderSides,
               p \in Prices, q \in Quantities : ReceiveNewOrder(s, c, n, side, p, q)
         \/ \E s \in Symbols, c \in ClientIds, n \in Sessions, side \in OrderSide,
               orig \in ClientIds : ReceiveCancel(s, c, n, side, orig)
         \/ PushAccepted
         \/ SubmitTask
         \/ UNCHANGED <<reactor, orderNumber>>
<1>1. ASSUME NEW s \in Symbols, Worker(s) \/ ProcessOutgoing(s)
      PROVE  UNCHANGED <<reactor, orderNumber>>
  BY <1>1 DEF Worker, LoadTail, TryPushFails, StartNewOrder, MatchBestOrders, FinishMatching,
              PushReport, FinishTask, StartCancel, PushCanceled, ProcessOutgoing
<1>2. CASE UNCHANGED vars \/ \E s \in Symbols : LoadTail("reactor", s) \/ TryPushFails("reactor", s)
  BY <1>2 DEF vars, LoadTail, TryPushFails
<1> QED
  BY <1>1, <1>2 DEF Next, Receive, Reactor, Poll

(* New orders stay sensible on their way to the book. *)
LEMMA SensibleNext ==
  ASSUME TypeOK, SensibleInv, [Next]_vars
  PROVE  SensibleInv'
<1>0. (reactor.pc = "accept" => NewInReactor)'
  <2>1. ASSUME NEW s \in Symbols, NEW c \in ClientIds, NEW n \in Sessions,
               NEW side \in NewOrderSides, NEW p \in Prices, NEW q \in Quantities,
               ReceiveNewOrder(s, c, n, side, p, q)
        PROVE  NewInReactor'
    BY <2>1 DEF ReceiveNewOrder, NewInReactor, Idle
  <2>2. ASSUME NEW s \in Symbols, NEW c \in ClientIds, NEW n \in Sessions,
               NEW side \in OrderSide, NEW orig \in ClientIds,
               ReceiveCancel(s, c, n, side, orig)
        PROVE  reactor'.pc = "submit"
    BY <2>2 DEF ReceiveCancel
  <2>3. CASE PushAccepted
    BY <2>3, ReactorBusy DEF PushAccepted, Request
  <2>4. CASE SubmitTask
    BY <2>4 DEF SubmitTask, Idle
  <2>5. CASE UNCHANGED <<reactor, orderNumber>>
    BY <2>5 DEF SensibleInv, NewInReactor
  <2> QED
    BY <2>1, <2>2, <2>3, <2>4, <2>5, ReactorSteps
<1>1. (NewInReactor => Sensible(reactor.task.order) /\ orderNumber >= 1)'
  <2>1. ASSUME NEW s \in Symbols, NEW c \in ClientIds, NEW n \in Sessions,
               NEW side \in NewOrderSides, NEW p \in Prices, NEW q \in Quantities,
               ReceiveNewOrder(s, c, n, side, p, q)
        PROVE  Sensible(reactor'.task.order) /\ orderNumber' >= 1
    <3>1. reactor'.task.order.quantity = q
      BY <2>1 DEF ReceiveNewOrder, NewOrder
    <3>2. orderNumber' = orderNumber + 1 /\ orderNumber \in Nat
      BY <2>1 DEF ReceiveNewOrder, TypeOK
    <3> QED
      BY <3>1, <3>2 DEF Sensible
  <2>2. ASSUME NEW s \in Symbols, NEW c \in ClientIds, NEW n \in Sessions,
               NEW side \in OrderSide, NEW orig \in ClientIds,
               ReceiveCancel(s, c, n, side, orig)
        PROVE  ~NewInReactor'
    BY <2>2 DEF ReceiveCancel, NewInReactor
  <2>3. CASE PushAccepted
    <3>1. reactor'.task = reactor.task /\ reactor # Idle /\ orderNumber' = orderNumber
      BY <2>3, ReactorBusy DEF PushAccepted, Request
    <3> QED
      BY <3>1 DEF SensibleInv, NewInReactor
  <2>4. CASE SubmitTask
    BY <2>4 DEF SubmitTask, NewInReactor
  <2>5. CASE UNCHANGED <<reactor, orderNumber>>
    BY <2>5 DEF SensibleInv, NewInReactor
  <2> QED
    BY <2>1, <2>2, <2>3, <2>4, <2>5, ReactorSteps
<1>2. ASSUME NEW t \in Symbols
      PROVE  (\A k \in 1 .. Len(work[t]) : NewInWork(t, k) => Sensible(work[t][k].order))'
  <2>1. work[t] \in Seq(Task)
        /\ \A k \in 1 .. Len(work[t]) : work[t][k].kind = "new" => Sensible(work[t][k].order)
    BY DEF TypeOK, SensibleInv, NewInWork
  <2> SUFFICES \A k \in 1 .. Len(work'[t]) : work'[t][k].kind = "new" => Sensible(work'[t][k].order)
    BY DEF NewInWork
  <2>2. CASE work'[t] = work[t]
    BY <2>1, <2>2
  <2>3. CASE StartNewOrder(t) \/ StartCancel(t)
    <3>1. work[t] # <<>> /\ work'[t] = Tail(work[t])
      BY <2>3 DEF StartNewOrder, StartCancel, TypeOK
    <3>2. \A k \in 1 .. Len(work'[t]) : k + 1 \in 1 .. Len(work[t]) /\ work'[t][k] = work[t][k + 1]
      BY <2>1, <3>1
    <3> QED
      BY <2>1, <3>2
  <2>4. CASE SubmitTask /\ reactor.symbol = t
    <3> DEFINE x == reactor.task
    <3>1. x \in Task /\ reactor # Idle
      BY <2>4, ReactorBusy DEF SubmitTask
    <3>2. x.kind = "new" => Sensible(x.order)
      BY <3>1 DEF SensibleInv, NewInReactor
    <3>3. work'[t] = Append(work[t], x)
      BY <2>4 DEF SubmitTask, TypeOK
    <3> HIDE DEF x
    <3>4. \A k \in 1 .. Len(work'[t]) :
            (k \in 1 .. Len(work[t]) /\ work'[t][k] = work[t][k]) \/ work'[t][k] = x
      BY <2>1, <3>1, <3>3
    <3> QED
      BY <2>1, <3>2, <3>4
  <2> QED
    BY <2>2, <2>3, <2>4, WorkSteps
<1> QED
  BY <1>0, <1>1, <1>2 DEF SensibleInv

(* Of two orders one comes first. *)
LEMMA OneFirst ==
  ASSUME NEW side, NEW S, \A o \in S : o \in Order, NEW a, NEW b,
         IsFirst(side, a, S), IsFirst(side, b, S)
  PROVE  a = b
<1> SUFFICES ASSUME a # b PROVE FALSE
  OBVIOUS
<1>1. Precedes(side, a, b) /\ Precedes(side, b, a)
  BY DEF IsFirst
<1>2. a \in Order /\ b \in Order
  BY DEF IsFirst
<1>3. a.price \in Int /\ b.price \in Int /\ a.arrival \in Nat /\ b.arrival \in Nat
  BY <1>2 DEF Order
<1> QED
  BY <1>1, <1>3 DEF Precedes, BetterPrice

(* erase finds again what find has found, and nothing else, unless the     *)
(* order names no side.                                                    *)
LEMMA FindAgain ==
  ASSUME TypeOK, SideInv, NEW s \in Symbols, NEW side, NEW c, NEW n,
         NEW o \in Find(s, side, c, n)
  PROVE  o \in bids[s] \cup asks[s] /\ Erased(s, o) = {x \in {o} : Sided(x)}
<1>1. \A x \in bids[s] \cup asks[s] : x \in Order
  BY DEF TypeOK
<1>2. CASE side = "BUY"
  <2>1. o \in bids[s] /\ IsFirst("BUY", o, Named(bids[s], c, n))
    BY <1>2 DEF Find
  <2>2. o.side = "BUY" /\ o.client = c /\ o.session = n
    BY <2>1 DEF SideInv, IsFirst, Named
  <2>3. Erased(s, o) = {x \in bids[s] : IsFirst("BUY", x, Named(bids[s], c, n))}
    BY <2>2 DEF Erased, Find
  <2>4. \A x \in Named(bids[s], c, n) : x \in Order
    BY <1>1 DEF Named
  <2>5. \A x \in Erased(s, o) : x = o
    BY <2>1, <2>3, <2>4, OneFirst
  <2> QED
    BY <2>1, <2>2, <2>3, <2>5 DEF Sided
<1>3. CASE side = "SELL"
  <2>1. o \in asks[s] /\ IsFirst("SELL", o, Named(asks[s], c, n))
    BY <1>3 DEF Find
  <2>0. CASE ~Sided(o)
    <3>1. Erased(s, o) = {}
      BY <2>0 DEF Sided, Erased, Find
    <3> QED
      BY <2>0, <2>1, <3>1
  <2>2. (Sided(o) => o.side = "SELL") /\ o.client = c /\ o.session = n
    <3>1. o \in Order
      BY <1>1, <2>1
    <3> QED
      BY <2>1, <3>1 DEF SideInv, IsFirst, Named, Sided, Order, OrderSide
  <2> SUFFICES ASSUME Sided(o) PROVE o \in bids[s] \cup asks[s] /\ Erased(s, o) = {o}
    BY <2>0
  <2>3. Erased(s, o) = {x \in asks[s] : IsFirst("SELL", x, Named(asks[s], c, n))}
    BY <2>2 DEF Erased, Find
  <2>4. \A x \in Named(asks[s], c, n) : x \in Order
    BY <1>1 DEF Named
  <2>5. \A x \in Erased(s, o) : x = o
    BY <2>1, <2>3, <2>4, OneFirst
  <2> QED
    BY <2>1, <2>3, <2>5
<1>4. CASE side \notin {"BUY", "SELL"}
  BY <1>4 DEF Find
<1> QED
  BY <1>2, <1>3, <1>4

(* The steps of a worker, those of tryPush but its last left out. *)
Acts(s) ==
  \/ StartNewOrder(s) \/ MatchBestOrders(s) \/ FinishMatching(s)
  \/ PushReport(s) \/ FinishTask(s)
  \/ StartCancel(s) \/ PushCanceled(s)

(* What a step of another thread leaves alone at the worker of t. *)
LEMMA WorkerSteps ==
  ASSUME TypeOK, [Next]_vars, NEW t \in Symbols
  PROVE  \/ Acts(t)
         \/ /\ workerPc'[t] = workerPc[t] /\ pending'[t] = pending[t]
            /\ bids'[t] = bids[t] /\ asks'[t] = asks[t] /\ left'[t] = left[t]
<1> DEFINE Same == /\ workerPc'[t] = workerPc[t] /\ pending'[t] = pending[t]
                   /\ bids'[t] = bids[t] /\ asks'[t] = asks[t] /\ left'[t] = left[t]
<1>1. CASE Receive \/ Reactor \/ UNCHANGED vars
  BY <1>1 DEF Receive, ReceiveNewOrder, ReceiveCancel, Reactor, LoadTail, TryPushFails,
              PushAccepted, SubmitTask, vars, workerVars, bookVars
<1>2. ASSUME NEW s \in Symbols,
             ProcessOutgoing(s) \/ LoadTail("worker", s) \/ TryPushFails("worker", s)
      PROVE  Same
  BY <1>2 DEF ProcessOutgoing, LoadTail, TryPushFails, workerVars, bookVars
<1>3. ASSUME NEW s \in Symbols, s # t, Acts(s) PROVE Same
  <2>1. CASE StartNewOrder(s) \/ MatchBestOrders(s)
    BY <1>3, <2>1 DEF StartNewOrder, MatchBestOrders, TypeOK
  <2>2. CASE FinishMatching(s) \/ PushReport(s) \/ FinishTask(s)
    BY <1>3, <2>2 DEF FinishMatching, PushReport, FinishTask, bookVars, TypeOK
  <2>3. CASE StartCancel(s) \/ PushCanceled(s)
    BY <1>3, <2>3 DEF StartCancel, PushCanceled, bookVars, TypeOK
  <2> QED
    BY <1>3, <2>1, <2>2, <2>3 DEF Acts
<1> QED
  BY <1>1, <1>2, <1>3 DEF Next, Worker, Acts, Poll

(* A worker that is canceling keeps the order it found until it erases it. *)
LEMMA CancelShapeNext ==
  ASSUME TypeOK, SideInv, CancelShape, [Next]_vars
  PROVE  CancelShape'
<1> SUFFICES ASSUME NEW t \in Symbols
             PROVE  (/\ workerPc[t] = "idle" => pending[t] = <<>>
                     /\ workerPc[t] = "canceling" =>
                          \E o \in bids[t] \cup asks[t] :
                            /\ pending[t] = <<[order |-> o, status |-> "CANCELED"]>>
                            /\ Erased(t, o) = {x \in {o} : Sided(x)})'
  BY DEF CancelShape
<1>1. CASE /\ workerPc'[t] = workerPc[t] /\ pending'[t] = pending[t]
           /\ bids'[t] = bids[t] /\ asks'[t] = asks[t]
  <2>1. \A o : Erased(t, o)' = Erased(t, o)
    BY <1>1 DEF Erased, Find
  <2> QED
    BY <1>1, <2>1 DEF CancelShape
<1>2. CASE StartNewOrder(t) \/ MatchBestOrders(t) \/ FinishMatching(t) \/ PushReport(t)
  BY <1>2 DEF StartNewOrder, MatchBestOrders, FinishMatching, PushReport, TypeOK
<1>3. CASE FinishTask(t) \/ PushCanceled(t)
  BY <1>3 DEF FinishTask, PushCanceled, TypeOK
<1>4. CASE StartCancel(t)
  <2> DEFINE request == Head(work[t]).order
             found == Find(t, request.side, Head(work[t]).orig, request.session)
  <2>1. bids' = bids /\ asks' = asks
    BY <1>4 DEF StartCancel, bookVars
  <2>2. CASE workerPc' = [workerPc EXCEPT ![t] = "reporting"]
    BY <2>2 DEF TypeOK
  <2>3. ASSUME NEW o \in found,
               workerPc' = [workerPc EXCEPT ![t] = "canceling"],
               pending' = [pending EXCEPT ![t] = <<[order |-> o, status |-> "CANCELED"]>>]
        PROVE  /\ workerPc'[t] = "canceling" /\ o \in bids'[t] \cup asks'[t]
               /\ pending'[t] = <<[order |-> o, status |-> "CANCELED"]>>
               /\ Erased(t, o)' = {x \in {o} : Sided(x)}
    <3>1. o \in bids[t] \cup asks[t] /\ Erased(t, o) = {x \in {o} : Sided(x)}
      BY FindAgain
    <3>2. Erased(t, o)' = Erased(t, o)
      BY <2>1 DEF Erased, Find
    <3> QED
      BY <2>1, <2>3, <3>1, <3>2 DEF TypeOK
  <2> QED
    BY <1>4, <2>2, <2>3 DEF StartCancel
<1> QED
  BY <1>1, <1>2, <1>3, <1>4, WorkerSteps DEF Acts
-----------------------------------------------------------------------------
(* What the orders have come to *)

(* The parts of the standings that other threads than the worker hold. *)
LEMMA RequestedSteps ==
  ASSUME NEW q \in Seq(Task)
  PROVE  /\ \A x \in Task : Requested(Append(q, x)) =
              IF Asks(x) THEN Requested(q) \cup {Says(x.order, "ACCEPTED")} ELSE Requested(q)
         /\ q # <<>> => Requested(q) =
              IF Asks(Head(q))
              THEN Requested(Tail(q)) \cup {Says(Head(q).order, "ACCEPTED")} ELSE Requested(Tail(q))
<1>1. ASSUME NEW x \in Task
      PROVE  Requested(Append(q, x)) =
               IF Asks(x) THEN Requested(q) \cup {Says(x.order, "ACCEPTED")} ELSE Requested(q)
  <2> DEFINE p == Append(q, x)
             n == Len(q)
  <2>1. /\ n \in Nat /\ Len(p) = n + 1 /\ p[n + 1] = x
        /\ \A k \in 1 .. n : p[k] = q[k]
    OBVIOUS
  <2> HIDE DEF p
  <2>2. \A k \in 1 .. Len(p) : k \in 1 .. n \/ k = n + 1
    BY <2>1
  <2>3. n + 1 \in 1 .. Len(p) /\ \A k : k \in 1 .. n => k \in 1 .. Len(p)
    BY <2>1
  <2> HIDE DEF n
  <2>4. CASE Asks(x)
    <3>1. Requested(p) = Requested(q) \cup {Says(x.order, "ACCEPTED")}
      BY <2>1, <2>2, <2>3, <2>4, Zenon DEF Requested, n
    <3> QED
      BY <2>4, <3>1 DEF p
  <2>5. CASE ~Asks(x)
    <3>1. Requested(p) = Requested(q)
      BY <2>1, <2>2, <2>3, <2>5, Zenon DEF Requested, n
    <3> QED
      BY <2>5, <3>1 DEF p
  <2> QED
    BY <2>4, <2>5
<1>2. ASSUME q # <<>>
      PROVE  Requested(q) =
               IF Asks(Head(q))
               THEN Requested(Tail(q)) \cup {Says(Head(q).order, "ACCEPTED")} ELSE Requested(Tail(q))
  <2> DEFINE p == Tail(q)
             x == Head(q)
             n == Len(p)
  <2>1. /\ n \in Nat /\ Len(q) = n + 1 /\ q[1] = x
        /\ \A k \in 1 .. n : p[k] = q[k + 1]
    BY <1>2
  <2> HIDE DEF p, x
  <2>2. \A k \in 1 .. Len(q) : k = 1 \/ (k - 1 \in 1 .. n /\ q[k] = p[k - 1])
    BY <2>1
  <2>3. 1 \in 1 .. Len(q) /\ \A k \in 1 .. n : k + 1 \in 1 .. Len(q)
    BY <2>1
  <2>4. \A m \in Requested(p) : m \in Requested(q)
    BY <2>1, <2>3 DEF Requested
  <2>5. Asks(x) => Says(x.order, "ACCEPTED") \in Requested(q)
    BY <2>1, <2>3 DEF Requested
  <2>6. \A m \in Requested(q) : m \in Requested(p) \/ (Asks(x) /\ m = Says(x.order, "ACCEPTED"))
    <3> SUFFICES ASSUME NEW k \in 1 .. Len(q), Asks(q[k]), k # 1
                 PROVE  Says(q[k].order, "ACCEPTED") \in Requested(p)
      BY <2>1 DEF Requested
    <3>1. k - 1 \in 1 .. n /\ q[k] = p[k - 1]
      BY <2>2
    <3> QED
      BY <3>1 DEF Requested
  <2>7. Asks(x) => Requested(q) = Requested(p) \cup {Says(x.order, "ACCEPTED")}
    BY <2>4, <2>5, <2>6
  <2>8. ~Asks(x) => Requested(q) = Requested(p)
    BY <2>4, <2>6
  <2> QED
    BY <2>7, <2>8 DEF p, x
<1> QED
  BY <1>1, <1>2

(* Submitting a task moves an order from the reactor to the work queue. *)
LEMMA HandedOver ==
  ASSUME TypeOK, NEW t \in Symbols, [Next]_vars, ~PushAccepted,
         ~StartNewOrder(t)
  PROVE  Waiting(t)' \cup Submitting(t)' = Waiting(t) \cup Submitting(t)
<1>1. work[t] \in Seq(Task)
  BY DEF TypeOK
<1>2. CASE SubmitTask /\ reactor.symbol = t
  <2>1. reactor.task \in Task /\ reactor # Idle /\ reactor.pc = "submit"
    BY <1>2, ReactorBusy DEF SubmitTask
  <2>2. work'[t] = Append(work[t], reactor.task) /\ reactor' = Idle
    BY <1>2 DEF SubmitTask, TypeOK
  <2>3. Submitting(t)' = {}
    BY <2>2 DEF Submitting
  <2>4. Submitting(t) = IF Asks(reactor.task) THEN {Says(reactor.task.order, "ACCEPTED")} ELSE {}
    BY <1>2, <2>1 DEF Submitting
  <2>5. Waiting(t)' = IF Asks(reactor.task)
                      THEN Waiting(t) \cup {Says(reactor.task.order, "ACCEPTED")} ELSE Waiting(t)
    BY <1>1, <2>1, <2>2, RequestedSteps DEF Waiting
  <2> QED
    BY <2>3, <2>4, <2>5
<1>3. CASE ~(SubmitTask /\ reactor.symbol = t)
  <2>1. Waiting(t)' = Waiting(t)
    <3>1. CASE work'[t] = work[t]
      BY <3>1 DEF Waiting
    <3>2. CASE StartCancel(t)
      <4>1. work[t] # <<>> /\ Head(work[t]).kind = "cancel" /\ work'[t] = Tail(work[t])
        BY <3>2 DEF StartCancel, TypeOK
      <4>2. ~Asks(Head(work[t]))
        BY <4>1 DEF Asks
      <4> QED
        BY <1>1, <4>1, <4>2, RequestedSteps DEF Waiting
    <3> QED
      BY <1>3, <3>1, <3>2, WorkSteps
  <2>2. Submitting(t)' = Submitting(t)
    <3>1. ASSUME NEW s \in Symbols, NEW c \in ClientIds, NEW n \in Sessions,
                 NEW side \in NewOrderSides, NEW p \in Prices, NEW q \in Quantities,
                 ReceiveNewOrder(s, c, n, side, p, q)
          PROVE  Submitting(t)' = Submitting(t)
      BY <3>1 DEF ReceiveNewOrder, Submitting
    <3>2. ASSUME NEW s \in Symbols, NEW c \in ClientIds, NEW n \in Sessions,
                 NEW side \in OrderSide, NEW orig \in ClientIds,
                 ReceiveCancel(s, c, n, side, orig)
          PROVE  Submitting(t)' = Submitting(t)
      BY <3>2 DEF ReceiveCancel, Submitting, Asks
    <3>3. CASE SubmitTask
      BY <1>3, <3>3 DEF SubmitTask, Submitting
    <3>4. CASE UNCHANGED <<reactor, orderNumber>>
      BY <3>4 DEF Submitting
    <3> QED
      BY <3>1, <3>2, <3>3, <3>4, ReactorSteps
  <2> QED
    BY <2>1, <2>2
<1> QED
  BY <1>2, <1>3

(* Only accepting, matching and erasing change what orders have come to. *)
LEMMA StandingSame ==
  ASSUME TypeOK, QuantityInv, NEW t \in Symbols, [Next]_vars,
         ~PushAccepted, ~MatchBestOrders(t), ~PushCanceled(t)
  PROVE  Standing(t)' = Standing(t)
<1>1. CASE ~StartNewOrder(t)
  <2>1. bids'[t] = bids[t] /\ asks'[t] = asks[t] /\ left'[t] = left[t]
    <3>1. CASE FinishMatching(t) \/ PushReport(t) \/ FinishTask(t) \/ StartCancel(t)
      BY <3>1 DEF FinishMatching, PushReport, FinishTask, StartCancel, bookVars
    <3> QED
      BY <1>1, <3>1, WorkerSteps DEF Acts
  <2>2. InBook(t)' = InBook(t) /\ Gone(t)' = Gone(t)
    BY <2>1 DEF InBook, Gone
  <2>3. Waiting(t)' \cup Submitting(t)' = Waiting(t) \cup Submitting(t)
    BY <1>1, HandedOver
  <2> QED
    BY <2>2, <2>3 DEF Standing
<1>2. CASE StartNewOrder(t)
  <2> DEFINE x == Says(Head(work[t]).order, "ACCEPTED")
  <2>1. work[t] \in Seq(Task) /\ work[t] # <<>> /\ Head(work[t]).kind = "new"
        /\ work'[t] = Tail(work[t]) /\ left' = left /\ reactor' = reactor
    BY <1>2 DEF StartNewOrder, TypeOK
  <2> DEFINE X == {z \in {x} : Sided(Head(work[t]).order)}
  <2>2. Waiting(t) = Waiting(t)' \cup X
    BY <2>1, RequestedSteps DEF Waiting, Asks
  <2>3. PICK o \in Order : Inserts(t, o)
    BY <1>2, InsertEffect
  <2>4. o.executed = 0
    <3>1. TaskSane(Head(work[t]))
      BY <2>1, SaneTasks DEF QuantityInv
    <3> QED
      BY <2>3, <3>1 DEF TaskSane, Untraded, Inserts
  <2>5. Says(o, OpenStatus(o)) = x
    BY <2>3, <2>4 DEF Inserts, Says, OpenStatus
  <2>6. bids'[t] \cup asks'[t] = bids[t] \cup asks[t] \cup {o}
    BY <2>3 DEF Inserts, TypeOK
  <2>9. Sided(o) <=> Sided(Head(work[t]).order)
    BY <2>3 DEF Inserts, Sided
  <2> HIDE DEF x
  <2>7. InBook(t)' = InBook(t) \cup X
    <3>1. CASE Sided(o)
      <4>1. X = {x}
        BY <2>9, <3>1
      <4>2. InBook(t)' = InBook(t) \cup {x}
        BY <2>5, <2>6, <3>1, Zenon DEF InBook
      <4> QED
        BY <4>1, <4>2
    <3>2. CASE ~Sided(o)
      <4>1. X = {}
        BY <2>9, <3>2
      <4>2. InBook(t)' = InBook(t)
        BY <2>6, <3>2, Zenon DEF InBook
      <4> QED
        BY <4>1, <4>2
    <3> QED
      BY <3>1, <3>2
  <2>8. Gone(t)' = Gone(t) /\ Submitting(t)' = Submitting(t)
    BY <2>1 DEF Gone, Submitting
  <2> HIDE DEF X
  <2> QED
    BY <2>2, <2>7, <2>8 DEF Standing
<1> QED
  BY <1>1, <1>2

(* Ids of standings. *)
LEMMA EarlierIds ==
  ASSUME TypeOK, IdInv, NEW t \in Symbols
  PROVE  /\ orderNumber \in Nat /\ Submitted \in Int
         /\ \A z \in InBook(t) \cup Gone(t) \cup Waiting(t) : z.id \in Nat /\ z.id <= Submitted
         /\ \A z \in Submitting(t) : NewInReactor /\ z.id = orderNumber
         /\ \A z \in Waiting(t), o \in Known(t) : o.id < z.id
<1>1. orderNumber \in Nat /\ Submitted \in Int
  BY DEF TypeOK, Submitted
<1>2. \A z \in InBook(t) \cup Gone(t) : z.id \in Nat /\ z.id <= Submitted
  BY IdTypes DEF IdInv, IdsBelow, InBook, Gone, Known, Says
<1>3. \A z \in Waiting(t) : z.id \in Nat /\ z.id <= Submitted
  BY IdTypes DEF IdInv, IdsBelow, Waiting, Requested, Asks, Says
<1>4. \A z \in Submitting(t) : NewInReactor /\ z.id = orderNumber
  BY DEF IdInv, Submitting, Asks, NewInReactor, Says
<1>5. \A z \in Waiting(t), o \in Known(t) : o.id < z.id
  BY DEF IdInv, IdsOrdered, Waiting, Requested, Asks, Says
<1> QED
  BY <1>1, <1>2, <1>3, <1>4, <1>5

(* The ids of a book are not those of orders on their way to it. *)
LEMMA OtherIds ==
  ASSUME TypeOK, IdInv, NEW t \in Symbols, NEW o \in Known(t),
         NEW z \in Waiting(t) \cup Submitting(t)
  PROVE  z.id # o.id
<1>1. o.id \in Nat /\ o.id <= Submitted
  BY IdTypes DEF IdInv, IdsBelow
<1>2. CASE z \in Waiting(t)
  BY <1>1, <1>2, EarlierIds
<1>3. CASE z \in Submitting(t)
  <2>1. NewInReactor /\ z.id = orderNumber /\ orderNumber \in Nat
    BY <1>3, EarlierIds
  <2> QED
    BY <1>1, <2>1 DEF Submitted
<1> QED
  BY <1>2, <1>3

(* addOrder accepts the order with the next id. *)
LEMMA StandingAccepted ==
  ASSUME TypeOK, QuantityInv, IdInv, SensibleInv, Heard, PushAccepted,
         NEW u, u = reactor.symbol
  PROVE  LET x == Says(reactor.task.order, "ACCEPTED")
         IN  /\ u \in Symbols /\ Fits(x) /\ x.id = orderNumber /\ view[x.id].status = "NONE"
             /\ Standing(u)' = Standing(u) \cup {z \in {x} : Sided(reactor.task.order)}
             /\ \A t \in Symbols \ {u} : Standing(t)' = Standing(t)
             /\ \A t \in Symbols : \A z \in Standing(t) : z.id # x.id
<1> DEFINE x == Says(reactor.task.order, "ACCEPTED")
           X == {z \in {x} : Sided(reactor.task.order)}
<1>1. /\ reactor \in Request /\ reactor # Idle /\ reactor.pc = "accept" /\ u \in Symbols
      /\ reactor.task \in Task /\ reactor.task.order \in Order
  BY ReactorBusy DEF PushAccepted
<1>2. NewInReactor /\ orderNumber >= 1 /\ reactor.task.order.id = orderNumber
  BY <1>1 DEF SensibleInv, IdInv
<1>3. orderNumber \in OrderIds
  BY <1>2 DEF TypeOK, OrderIds
<1>4. x.id = orderNumber /\ x.executed = 0 /\ x.quantity \in Quantities /\ x.status = "ACCEPTED"
  BY <1>1, <1>2 DEF Says, QuantityInv, TaskSane, Untraded, SensibleInv, Sensible
<1>5. x \in Saying
  BY <1>1 DEF Says, Saying, Order, OrderStatus
<1> HIDE DEF x
<1>6. Fits(x)
  BY <1>3, <1>4, <1>5 DEF Fits
<1>7. view[x.id].status = "NONE"
  <2>1. Accepted = orderNumber - 1 /\ orderNumber \in Nat
    BY <1>1 DEF Accepted, TypeOK
  <2> QED
    BY <1>3, <1>4, <2>1 DEF Heard
<1>8. \A t \in Symbols : Submitting(t) = {}
  BY <1>1 DEF Submitting
<1>9. \A t \in Symbols : \A z \in Standing(t) : z.id # x.id
  <2>1. Submitted = orderNumber - 1
    BY <1>2 DEF Submitted
  <2>2. ASSUME NEW t \in Symbols, NEW z \in Standing(t) PROVE z.id # x.id
    <3>1. z \in InBook(t) \cup Gone(t) \cup Waiting(t)
      BY <1>8 DEF Standing
    <3> QED
      BY <1>4, <2>1, <3>1, EarlierIds
  <2> QED
    BY <2>2
<1>10. /\ reactor'.pc = "submit" /\ reactor'.task = reactor.task /\ reactor'.symbol = u
       /\ reactor' # Idle
  BY <1>1 DEF PushAccepted, Request, Idle
<1>11. \A t \in Symbols : Submitting(t)' = IF t = u THEN X ELSE {}
  BY <1>2, <1>10 DEF Submitting, NewInReactor, Asks, x
<1> HIDE DEF X
<1>12. \A t \in Symbols : InBook(t)' = InBook(t) /\ Gone(t)' = Gone(t) /\ Waiting(t)' = Waiting(t)
  BY DEF PushAccepted, bookVars, InBook, Gone, Waiting
<1>13. Standing(u)' = Standing(u) \cup X
  BY <1>1, <1>8, <1>11, <1>12 DEF Standing
<1>14. \A t \in Symbols \ {u} : Standing(t)' = Standing(t)
  BY <1>8, <1>11, <1>12 DEF Standing
<1> QED
  BY <1>1, <1>4, <1>6, <1>7, <1>9, <1>13, <1>14 DEF x, X

(* What an order has come to by a trade. *)
TradedTo(o) == IF IsFilled(o) THEN Says(o, LastStatus(o)) ELSE Says(o, OpenStatus(o))

(* A trade is said of both orders, and replaces what they had come to. *)
LEMMA TradeSays ==
  ASSUME NEW o \in Order, NEW new \in Order, NEW price, NEW q \in Int, Trades(o, new, price, q),
         OrderSane(o), q > 0, q <= o.open, Fits(Says(o, OpenStatus(o)))
  PROVE  LET x == Says(o, OpenStatus(o))
             y == Message(FillReport(new))
         IN  /\ y.id = x.id /\ Later(x, y) /\ Fits(y) /\ y.status # "CANCELED"
             /\ Sided(new) => Speaks(FillReport(new))
             /\ y = TradedTo(new)
<1> DEFINE x == Says(o, OpenStatus(o))
           y == Message(FillReport(new))
           st == IF IsFilled(new) THEN "FILLED" ELSE "PARTIALLY_FILLED"
<1>1. /\ new.id = o.id /\ new.quantity = o.quantity /\ new.executed = o.executed + q
      /\ o.executed \in Int /\ o.open \in Int /\ o.quantity \in Nat /\ o.id \in Nat
  BY DEF Trades, Order
<1>2. o.open + o.executed = o.quantity /\ o.executed >= 0
  BY DEF OrderSane
<1>3. new.executed > o.executed /\ new.executed > 0 /\ new.executed <= new.quantity
      /\ new.executed \in Int
  BY <1>1, <1>2
<1>4. y = Says(new, st)
  BY DEF Message, FillReport
<1>5. /\ y.id = o.id /\ y.status = st /\ y.quantity = o.quantity /\ y.executed = new.executed
      /\ x.id = o.id /\ x.status = OpenStatus(o) /\ x.quantity = o.quantity /\ x.executed = o.executed
  BY <1>1, <1>4 DEF Says
<1>6. Later(x, y)
  BY <1>3, <1>5 DEF Later, OpenStatus
<1>7. Fits(y)
  <2>1. y \in Saying
    BY <1>1, <1>3, <1>4 DEF Says, Saying, OrderStatus
  <2>2. o.id \in OrderIds /\ o.quantity \in Quantities
    BY <1>5 DEF Fits
  <2>3. IsFilled(new) <=> new.executed = o.quantity
    BY <1>1 DEF IsFilled
  <2> QED
    BY <1>1, <1>3, <1>5, <2>1, <2>2, <2>3 DEF Fits
<1>8. Sided(new) => Speaks(FillReport(new))
  BY DEF Speaks, FillReport
<1>9. OpenStatus(new) = "PARTIALLY_FILLED"
  BY <1>3 DEF OpenStatus
<1>10. IsFilled(new) => LastStatus(new) = "FILLED"
  BY DEF LastStatus
<1> QED
  BY <1>4, <1>5, <1>6, <1>7, <1>8, <1>9, <1>10 DEF TradedTo

(* The orders of the book and those that left it, after a match. *)
LEMMA MatchOrders ==
  ASSUME TypeOK, SideInv, NEW s \in Symbols,
         NEW bid \in Order, NEW ask \in Order, NEW newBid \in Order, NEW newAsk \in Order,
         Matches(s, bid, ask, newBid, newAsk)
  PROVE  /\ bid \in bids[s] /\ ask \in asks[s] /\ bid # ask
         /\ \A o : o \in bids'[s] \cup asks'[s] <=>
              \/ o \in (bids[s] \cup asks[s]) \ {bid, ask}
              \/ o \in {newBid, newAsk} /\ ~IsFilled(o)
         /\ \A o : o \in left'[s] <=> o \in left[s] \/ (o \in {newBid, newAsk} /\ IsFilled(o))
<1>1. bid \in bids[s] /\ ask \in asks[s]
  BY DEF Matches
<1>2. bid \notin asks[s] /\ ask \notin bids[s] /\ bid # ask
  BY <1>1 DEF SideInv
<1>3. /\ bids'[s] = AfterMatch(bids[s], bid, newBid) /\ asks'[s] = AfterMatch(asks[s], ask, newAsk)
      /\ left'[s] = left[s] \cup {o \in {newBid, newAsk} : IsFilled(o)}
  BY DEF Matches, TypeOK
<1> QED
  BY <1>1, <1>2, <1>3, Zenon DEF AfterMatch

(* What a match changes. *)
LEMMA StandingMatched ==
  ASSUME TypeOK, SideInv, IdInv, OnceInv, NEW s \in Symbols, UNCHANGED <<work, reactor>>,
         NEW bid \in Order, NEW ask \in Order, NEW newBid \in Order, NEW newAsk \in Order,
         Matches(s, bid, ask, newBid, newAsk)
  PROVE  LET xb == Says(bid, OpenStatus(bid))
             xa == Says(ask, OpenStatus(ask))
             yb == TradedTo(newBid)
             ya == TradedTo(newAsk)
         IN  /\ xb.id # xa.id
             /\ Standing(s)' =
                  IF Sided(ask) THEN (((Standing(s) \ {xb}) \cup {yb}) \ {xa}) \cup {ya}
                                ELSE (Standing(s) \ {xb}) \cup {yb}
<1> DEFINE xb == Says(bid, OpenStatus(bid))
           xa == Says(ask, OpenStatus(ask))
           yb == TradedTo(newBid)
           ya == TradedTo(newAsk)
           W == Waiting(s) \cup Submitting(s)
<1>0. /\ IsFilled(newBid) => yb = Says(newBid, LastStatus(newBid))
      /\ ~IsFilled(newBid) => yb = Says(newBid, OpenStatus(newBid))
      /\ IsFilled(newAsk) => ya = Says(newAsk, LastStatus(newAsk))
      /\ ~IsFilled(newAsk) => ya = Says(newAsk, OpenStatus(newAsk))
  BY DEF TradedTo
<1>1. /\ bid \in bids[s] /\ ask \in asks[s] /\ bid # ask
      /\ \A o : o \in bids'[s] \cup asks'[s] <=>
           \/ o \in (bids[s] \cup asks[s]) \ {bid, ask}
           \/ o \in {newBid, newAsk} /\ ~IsFilled(o)
      /\ \A o : o \in left'[s] <=> o \in left[s] \/ (o \in {newBid, newAsk} /\ IsFilled(o))
  BY MatchOrders
<1>2. bid \in Known(s) /\ ask \in Known(s) /\ bid.id # ask.id
  BY <1>1 DEF Known, OnceInv
<1>3. /\ newBid.id = bid.id /\ newAsk.id = ask.id
      /\ Sided(bid) /\ Sided(newBid) /\ (Sided(newAsk) <=> Sided(ask))
  BY <1>1 DEF Matches, Trades, SideInv, Sided
<1>4. /\ xb.id = bid.id /\ xa.id = ask.id /\ yb.id = bid.id /\ ya.id = ask.id
  BY <1>1, <1>3 DEF Says, TradedTo
<1>5. W' = W
  BY DEF Waiting, Submitting
<1>6. \A o \in Known(s) : o \notin {bid, ask} => o.id # bid.id /\ o.id # ask.id
  BY <1>2 DEF OnceInv
<1>7. \A z \in W : z.id # bid.id /\ z.id # ask.id
  BY <1>2, OtherIds
<1>8. \A o \in left[s] : o \notin {bid, ask}
  BY <1>1 DEF OnceInv
<1> HIDE DEF xb, xa, yb, ya, W
<1>9. ASSUME NEW z \in Standing(s)'
      PROVE  \/ z = yb \/ (Sided(ask) /\ z = ya)
             \/ z \in Standing(s) /\ z.id # bid.id /\ z.id # ask.id
  <2>1. CASE z \in InBook(s)'
    <3>1. PICK o \in bids'[s] \cup asks'[s] : z = Says(o, OpenStatus(o)) /\ Sided(o)
      BY <2>1 DEF InBook
    <3>2. CASE o \in (bids[s] \cup asks[s]) \ {bid, ask}
      <4>1. z \in InBook(s) /\ o \in Known(s) /\ z.id = o.id
        BY <3>1, <3>2 DEF InBook, Known, Says
      <4> QED
        BY <1>6, <3>2, <4>1 DEF Standing
    <3>3. CASE o \in {newBid, newAsk} /\ ~IsFilled(o)
      BY <1>0, <1>3, <3>1, <3>3
    <3> QED
      BY <1>1, <3>2, <3>3
  <2>2. CASE z \in Gone(s)'
    <3>1. PICK o \in left'[s] : z = Says(o, LastStatus(o)) /\ Sided(o)
      BY <2>2 DEF Gone
    <3>2. CASE o \in left[s]
      <4>1. z \in Gone(s) /\ o \in Known(s) /\ z.id = o.id
        BY <3>1, <3>2 DEF Gone, Known, Says
      <4> QED
        BY <1>6, <1>8, <3>2, <4>1 DEF Standing
    <3>3. CASE o \in {newBid, newAsk} /\ IsFilled(o)
      BY <1>0, <1>3, <3>1, <3>3
    <3> QED
      BY <1>1, <3>2, <3>3
  <2>3. CASE z \in W'
    BY <1>5, <1>7, <2>3 DEF Standing, W
  <2> QED
    BY <2>1, <2>2, <2>3 DEF Standing, W
<1>10. yb \in Standing(s)' /\ (Sided(ask) => ya \in Standing(s)')
  <2>1. yb \in InBook(s)' \cup Gone(s)'
    BY <1>0, <1>1, <1>3 DEF InBook, Gone
  <2>2. Sided(ask) => ya \in InBook(s)' \cup Gone(s)'
    BY <1>0, <1>1, <1>3 DEF InBook, Gone
  <2> QED
    BY <2>1, <2>2 DEF Standing
<1>11. ASSUME NEW z \in Standing(s), z # xb, ~(Sided(ask) /\ z = xa) PROVE z \in Standing(s)'
  <2>1. CASE z \in InBook(s)
    <3>1. PICK o \in bids[s] \cup asks[s] : z = Says(o, OpenStatus(o)) /\ Sided(o)
      BY <2>1 DEF InBook
    <3>2. o \notin {bid, ask}
      BY <1>11, <3>1 DEF xb, xa
    <3>3. z \in InBook(s)'
      BY <1>1, <3>1, <3>2 DEF InBook
    <3> QED
      BY <3>3 DEF Standing
  <2>2. CASE z \in Gone(s)
    BY <1>1, <2>2 DEF Gone, Standing
  <2>3. CASE z \in W
    BY <1>5, <2>3 DEF Standing, W
  <2> QED
    BY <2>1, <2>2, <2>3 DEF Standing, W
<1>12. yb # xa /\ xb # xa /\ yb # ya
  BY <1>2, <1>4
<1>13. CASE Sided(ask)
  <2>1. \A z : z \in Standing(s)' <=> z \in (((Standing(s) \ {xb}) \cup {yb}) \ {xa}) \cup {ya}
    BY <1>4, <1>9, <1>10, <1>11, <1>12, <1>13
  <2>2. Standing(s)' = (((Standing(s) \ {xb}) \cup {yb}) \ {xa}) \cup {ya}
    BY <2>1
  <2> QED
    BY <1>2, <1>4, <1>13, <2>2 DEF xb, xa, yb, ya
<1>14. CASE ~Sided(ask)
  <2>1. \A z : z \in Standing(s)' <=> z \in (Standing(s) \ {xb}) \cup {yb}
    BY <1>4, <1>9, <1>10, <1>11, <1>14
  <2>2. Standing(s)' = (Standing(s) \ {xb}) \cup {yb}
    BY <2>1
  <2> QED
    BY <1>2, <1>4, <1>14, <2>2 DEF xb, xa, yb, ya
<1> QED
  BY <1>13, <1>14

(* The order a worker cancels leaves the book when its report is pushed,   *)
(* if it has a side.                                                       *)
LEMMA CanceledOrder ==
  ASSUME TypeOK, CancelShape, NEW s \in Symbols, PushCanceled(s)
  PROVE  \E o \in bids[s] \cup asks[s] :
           /\ pending[s] = <<[order |-> o, status |-> "CANCELED"]>>
           /\ Sided(o) => /\ bids'[s] \cup asks'[s] = (bids[s] \cup asks[s]) \ {o}
                          /\ left'[s] = left[s] \cup {o}
           /\ ~Sided(o) => bids'[s] = bids[s] /\ asks'[s] = asks[s] /\ left'[s] = left[s]
<1>1. PICK o \in bids[s] \cup asks[s] :
        /\ pending[s] = <<[order |-> o, status |-> "CANCELED"]>>
        /\ Erased(s, o) = {x \in {o} : Sided(x)}
  BY DEF PushCanceled, CancelShape
<1> DEFINE erased == Erased(s, o)
<1>2. Head(pending[s]).order = o
  BY <1>1
<1>3. /\ bids' = [bids EXCEPT ![s] = @ \ erased] /\ asks' = [asks EXCEPT ![s] = @ \ erased]
      /\ left' = [left EXCEPT ![s] = @ \cup erased]
  BY <1>2 DEF PushCanceled
<1>4. (Sided(o) => erased = {o}) /\ (~Sided(o) => erased = {})
  BY <1>1
<1> HIDE DEF erased
<1>5. /\ bids'[s] = bids[s] \ erased /\ asks'[s] = asks[s] \ erased
      /\ left'[s] = left[s] \cup erased
  BY <1>3 DEF TypeOK
<1> QED
  BY <1>1, <1>4, <1>5

(* What an erasure changes. *)
LEMMA StandingCanceled ==
  ASSUME TypeOK, IdInv, OnceInv, NoOverfill, NEW s \in Symbols, UNCHANGED <<work, reactor>>,
         NEW o \in bids[s] \cup asks[s], Sided(o),
         bids'[s] \cup asks'[s] = (bids[s] \cup asks[s]) \ {o},
         left'[s] = left[s] \cup {o}
  PROVE  LET x == Says(o, OpenStatus(o))
             y == Says(o, "CANCELED")
         IN  /\ x \in Standing(s) /\ y.id = x.id /\ y.executed = x.executed
             /\ Later(x, y) /\ (Fits(x) => Fits(y))
             /\ Standing(s)' = (Standing(s) \ {x}) \cup {y}
<1> DEFINE x == Says(o, OpenStatus(o))
           y == Says(o, "CANCELED")
           W == Waiting(s) \cup Submitting(s)
<1>1. o \in Known(s) /\ o \in Order /\ OrderSane(o) /\ o.open > 0
  BY DEF Known, TypeOK, NoOverfill
<1>2. /\ o.executed \in Int /\ o.open \in Int /\ o.quantity \in Nat
      /\ 0 <= o.executed /\ o.executed < o.quantity
  BY <1>1 DEF Order, OrderSane
<1>3. LastStatus(o) = "CANCELED"
  BY <1>2 DEF LastStatus, IsFilled
<1>4. /\ x.id = o.id /\ x.status = OpenStatus(o) /\ x.quantity = o.quantity /\ x.executed = o.executed
      /\ y.id = o.id /\ y.status = "CANCELED" /\ y.quantity = o.quantity /\ y.executed = o.executed
  BY DEF Says
<1>5. Later(x, y)
  BY <1>2, <1>4 DEF Later, OpenStatus
<1>6. Fits(x) => Fits(y)
  <2>1. y \in Saying
    BY <1>1 DEF Says, Saying, Order, OrderStatus
  <2> QED
    BY <1>2, <1>4, <2>1 DEF Fits
<1>7. W' = W
  BY DEF Waiting, Submitting
<1>8. \A z \in W : z.id # o.id
  BY <1>1, OtherIds
<1>9. \A p \in Known(s) : p # o => p.id # o.id
  BY <1>1 DEF OnceInv
<1>10. o \notin left[s]
  BY DEF OnceInv
<1> HIDE DEF W, x, y
<1>11. ASSUME NEW z \in Standing(s)' PROVE z = y \/ (z \in Standing(s) /\ z.id # o.id)
  <2>1. CASE z \in InBook(s)'
    <3>1. PICK p \in bids[s] \cup asks[s] : p # o /\ z = Says(p, OpenStatus(p)) /\ Sided(p)
      BY <2>1 DEF InBook
    <3>2. z \in InBook(s) /\ p \in Known(s) /\ z.id = p.id
      BY <3>1 DEF InBook, Known, Says
    <3> QED
      BY <1>9, <3>1, <3>2 DEF Standing
  <2>2. CASE z \in Gone(s)'
    <3>1. PICK p \in left'[s] : z = Says(p, LastStatus(p)) /\ Sided(p)
      BY <2>2 DEF Gone
    <3>2. CASE p \in left[s]
      <4>1. z \in Gone(s) /\ p \in Known(s) /\ z.id = p.id /\ p # o
        BY <1>10, <3>1, <3>2 DEF Gone, Known, Says
      <4> QED
        BY <1>9, <4>1 DEF Standing
    <3> QED
      BY <1>3, <3>1, <3>2 DEF y
  <2>3. CASE z \in W'
    BY <1>7, <1>8, <2>3 DEF Standing, W
  <2> QED
    BY <2>1, <2>2, <2>3 DEF Standing, W
<1>12. y \in Standing(s)'
  BY <1>3 DEF Standing, Gone, y
<1>13. ASSUME NEW z \in Standing(s), z # x PROVE z \in Standing(s)'
  <2>1. CASE z \in InBook(s)
    <3>1. PICK p \in bids[s] \cup asks[s] : z = Says(p, OpenStatus(p)) /\ Sided(p)
      BY <2>1 DEF InBook
    <3>2. p # o
      BY <1>13, <3>1 DEF x
    <3>3. z \in InBook(s)'
      BY <3>1, <3>2 DEF InBook
    <3> QED
      BY <3>3 DEF Standing
  <2>2. CASE z \in Gone(s)
    BY <2>2 DEF Gone, Standing
  <2>3. CASE z \in W
    BY <1>7, <2>3 DEF Standing, W
  <2> QED
    BY <2>1, <2>2, <2>3 DEF Standing, W
<1>14. x \in Standing(s)
  BY DEF x, Standing, InBook
<1>15. \A z : z \in Standing(s)' <=> z \in (Standing(s) \ {x}) \cup {y}
  BY <1>4, <1>11, <1>12, <1>13
<1>16. Standing(s)' = (Standing(s) \ {x}) \cup {y}
  BY <1>15
<1> QED
  BY <1>4, <1>5, <1>6, <1>14, <1>16 DEF x, y

(* A book keeps holding an order once. *)
LEMMA OnceNext ==
  ASSUME TypeOK, SideInv, IdInv, OnceInv, [Next]_vars
  PROVE  OnceInv'
<1> SUFFICES ASSUME NEW t \in Symbols
             PROVE  (/\ \A a, b \in Known(t) : a.id = b.id => a = b
                     /\ left[t] \cap (bids[t] \cup asks[t]) = {})'
  BY DEF OnceInv
<1>0. /\ \A a, b \in Known(t) : a.id = b.id => a = b
      /\ left[t] \cap (bids[t] \cup asks[t]) = {}
  BY DEF OnceInv
<1>1. CASE bids'[t] = bids[t] /\ asks'[t] = asks[t] /\ left'[t] = left[t]
  BY <1>0, <1>1 DEF Known
<1>2. CASE StartNewOrder(t)
  <2>1. PICK x \in Order : Inserts(t, x)
    BY <1>2, InsertEffect
  <2>2. 1 \in 1 .. Len(work[t]) /\ work[t][1].kind = "new" /\ work[t][1] = Head(work[t])
    BY <1>2 DEF StartNewOrder, TypeOK
  <2>3. \A o \in Known(t) : o.id < x.id /\ o.id \in Nat
    BY <2>1, <2>2, IdTypes DEF IdInv, IdsOrdered, Inserts
  <2>4. x.id \in Nat
    BY DEF Order
  <2>5. \A o \in Known(t) : o.id # x.id
    BY <2>3, <2>4
  <2>6. bids'[t] \cup asks'[t] = bids[t] \cup asks[t] \cup {x} /\ left' = left
    BY <1>2, <2>1 DEF Inserts, TypeOK, StartNewOrder
  <2>7. x \notin left[t]
    BY <2>5 DEF Known
  <2> QED
    BY <1>0, <2>5, <2>6, <2>7 DEF Known
<1>3. CASE MatchBestOrders(t)
  <2>1. PICK bid, ask, newBid, newAsk \in Order : Matches(t, bid, ask, newBid, newAsk)
    BY <1>3, MatchEffect
  <2>2. /\ bid \in bids[t] /\ ask \in asks[t] /\ bid # ask
        /\ \A o : o \in bids'[t] \cup asks'[t] <=>
             \/ o \in (bids[t] \cup asks[t]) \ {bid, ask}
             \/ o \in {newBid, newAsk} /\ ~IsFilled(o)
        /\ \A o : o \in left'[t] <=> o \in left[t] \/ (o \in {newBid, newAsk} /\ IsFilled(o))
    BY <2>1, MatchOrders
  <2>3. newBid.id = bid.id /\ newAsk.id = ask.id
    BY <2>1 DEF Matches, Trades
  <2>4. bid \in Known(t) /\ ask \in Known(t) /\ bid.id # ask.id /\ bid \notin left[t] /\ ask \notin left[t]
    BY <1>0, <2>2 DEF Known
  <2>5. \A o \in Known(t) : o \notin {bid, ask} => o.id # bid.id /\ o.id # ask.id
    BY <1>0, <2>4
  <2>6. \A o \in Known(t)' : (o \in Known(t) /\ o \notin {bid, ask}) \/ o \in {newBid, newAsk}
    BY <2>2, <2>4 DEF Known
  <2>7. \A a, b \in Known(t)' : a.id = b.id => a = b
    BY <1>0, <2>3, <2>4, <2>5, <2>6
  <2>8. \A o : ~(o \in left'[t] /\ o \in bids'[t] \cup asks'[t])
    <3> SUFFICES ASSUME NEW o \in left'[t], o \in bids'[t] \cup asks'[t] PROVE FALSE
      OBVIOUS
    <3>1. CASE o \in {newBid, newAsk}
      <4>1. o.id = bid.id \/ o.id = ask.id
        BY <2>3, <3>1
      <4>2. o \in Known(t) => o \in {bid, ask}
        BY <2>5, <4>1
      <4> QED
        BY <2>2, <2>4, <3>1, <4>2 DEF Known
    <3>2. CASE o \notin {newBid, newAsk}
      BY <1>0, <2>2, <3>2
    <3> QED
      BY <3>1, <3>2
  <2> QED
    BY <2>7, <2>8
<1>4. CASE PushCanceled(t)
  <2> DEFINE erased == Erased(t, Head(pending[t]).order)
  <2>1. erased \subseteq bids[t] \cup asks[t]
    BY DEF Erased, Find
  <2>2. /\ bids'[t] = bids[t] \ erased /\ asks'[t] = asks[t] \ erased
        /\ left'[t] = left[t] \cup erased
    BY <1>4 DEF PushCanceled, TypeOK
  <2> HIDE DEF erased
  <2> QED
    BY <1>0, <2>1, <2>2 DEF Known
<1>5. CASE FinishMatching(t) \/ PushReport(t) \/ FinishTask(t) \/ StartCancel(t)
  BY <1>1, <1>5 DEF FinishMatching, PushReport, FinishTask, StartCancel, bookVars
<1> QED
  BY <1>1, <1>2, <1>3, <1>4, <1>5, WorkerSteps DEF Acts

(* No step but the acceptance of an order brings a new id. *)
LEMMA StandingIds ==
  ASSUME TypeOK, QuantityInv, [Next]_vars, ~PushAccepted, NEW t \in Symbols, NEW z \in Standing(t)'
  PROVE  \E y \in Standing(t) : y.id = z.id
<1>1. CASE StartNewOrder(t)
  <2>1. ~MatchBestOrders(t) /\ ~PushCanceled(t)
    BY <1>1 DEF StartNewOrder, MatchBestOrders, PushCanceled
  <2> QED
    BY <2>1, StandingSame
<1>2. CASE ~StartNewOrder(t)
  <2>1. CASE z \in InBook(t)' \cup Gone(t)'
    <3>1. PICK o \in Known(t)' : z.id = o.id /\ Sided(o)
      BY <2>1 DEF InBook, Gone, Known, Says
    <3>2. PICK x \in Known(t) : x.id = o.id /\ Sided(x)
      BY <1>2, <3>1, KnownIds DEF Sided
    <3>3. \E y \in InBook(t) \cup Gone(t) : y.id = x.id
      <4>1. CASE x \in left[t]
        <5>1. Says(x, LastStatus(x)) \in Gone(t) /\ Says(x, LastStatus(x)).id = x.id
          BY <3>2, <4>1 DEF Gone, Says
        <5> QED
          BY <5>1
      <4>2. CASE x \in bids[t] \cup asks[t]
        <5>1. Says(x, OpenStatus(x)) \in InBook(t) /\ Says(x, OpenStatus(x)).id = x.id
          BY <3>2, <4>2 DEF InBook, Says
        <5> QED
          BY <5>1
      <4> QED
        BY <4>1, <4>2 DEF Known
    <3> QED
      BY <3>1, <3>2, <3>3 DEF Standing
  <2>2. CASE z \in Waiting(t)' \cup Submitting(t)'
    BY <1>2, <2>2, HandedOver DEF Standing
  <2> QED
    BY <2>1, <2>2 DEF Standing
<1> QED
  BY <1>1, <1>2

(* Orders of different symbols keep different ids. *)
LEMMA ApartNext ==
  ASSUME TypeOK, QuantityInv, IdInv, SensibleInv, Heard, ApartInv, [Next]_vars
  PROVE  ApartInv'
<1>1. CASE ~PushAccepted
  <2> SUFFICES ASSUME NEW s \in Symbols, NEW t \in Symbols, s # t,
                      NEW x \in Standing(s)', NEW y \in Standing(t)'
               PROVE  x.id # y.id
    BY DEF ApartInv
  <2>1. PICK a \in Standing(s) : a.id = x.id
    BY <1>1, StandingIds
  <2>2. PICK b \in Standing(t) : b.id = y.id
    BY <1>1, StandingIds
  <2> QED
    BY <2>1, <2>2 DEF ApartInv
<1>2. CASE PushAccepted
  <2> DEFINE x == Says(reactor.task.order, "ACCEPTED")
  <2>1. PICK u : u = reactor.symbol
    OBVIOUS
  <2>2. /\ u \in Symbols /\ Standing(u)' \subseteq Standing(u) \cup {x}
        /\ \A t \in Symbols \ {u} : Standing(t)' = Standing(t)
        /\ \A t \in Symbols : \A z \in Standing(t) : z.id # x.id
    BY <1>2, <2>1, StandingAccepted
  <2> HIDE DEF x
  <2> QED
    BY <2>2 DEF ApartInv
<1> QED
  BY <1>1, <1>2

(* Orders that have come to something were accepted. *)
LEMMA StandingHeard ==
  ASSUME TypeOK, IdInv, SensibleInv, NEW t \in Symbols, NEW z \in Standing(t)
  PROVE  z.id <= Accepted
<1>1. /\ orderNumber \in Nat /\ Submitted \in Int
      /\ \A y \in InBook(t) \cup Gone(t) \cup Waiting(t) : y.id \in Nat /\ y.id <= Submitted
      /\ \A y \in Submitting(t) : NewInReactor /\ y.id = orderNumber
  BY EarlierIds
<1>2. CASE reactor # Idle /\ reactor.pc = "accept"
  <2>1. Submitted = orderNumber - 1 /\ Accepted = orderNumber - 1 /\ Submitting(t) = {}
    BY <1>2 DEF SensibleInv, Submitted, Accepted, Submitting
  <2> QED
    BY <1>1, <2>1 DEF Standing
<1>3. CASE ~(reactor # Idle /\ reactor.pc = "accept")
  <2>1. Accepted = orderNumber /\ Submitted <= orderNumber
    BY <1>1, <1>3 DEF Accepted, Submitted
  <2> QED
    BY <1>1, <2>1 DEF Standing
<1> QED
  BY <1>2, <1>3

(* The delivery of a report. *)
LEMMA Outgoing ==
  ASSUME TypeOK, NEW s \in Symbols, ProcessOutgoing(s)
  PROVE  /\ out[s] \in Seq(Report) /\ out[s] # <<>> /\ out'[s] = Tail(out[s])
         /\ \A t \in Symbols : t # s => out'[t] = out[t]
         /\ IF Speaks(Head(out[s])) THEN view' = Delivered(view, Message(Head(out[s])))
                                    ELSE view' = view
<1>1. out[s] \in Seq(Report) /\ out[s] # <<>> /\ out'[s] = Tail(out[s])
      /\ \A t \in Symbols : t # s => out'[t] = out[t]
  BY DEF ProcessOutgoing, TypeOK
<1>2. Head(out[s]) \in Report
  BY <1>1
<1>3. CASE Speaks(Head(out[s]))
  <2>1. Head(out[s]).status # "REJECTED" /\ Head(out[s]).order.side # "NON_SUPPORTED"
    BY <1>3 DEF Speaks, Sided
  <2>2. view' = Delivered(view, Message(Head(out[s])))
    BY <1>2, <2>1, MessageType DEF ProcessOutgoing, Delivered
  <2> QED
    BY <1>1, <1>3, <2>2
<1>4. CASE ~Speaks(Head(out[s]))
  BY <1>1, <1>4 DEF ProcessOutgoing, Speaks, Sided
<1> QED
  BY <1>3, <1>4

(* Only the delivery of a report changes what clients know. *)
LEMMA ViewSteps ==
  ASSUME [Next]_vars
  PROVE  view' = view \/ \E s \in Symbols : ProcessOutgoing(s)
<1>1. CASE Receive \/ Reactor \/ UNCHANGED vars
  BY <1>1 DEF Receive, ReceiveNewOrder, ReceiveCancel, Reactor, LoadTail, TryPushFails,
              PushAccepted, SubmitTask, clientVars, vars
<1>2. ASSUME NEW s \in Symbols, Worker(s) PROVE view' = view
  BY <1>2 DEF Worker, LoadTail, TryPushFails, clientVars, StartNewOrder, MatchBestOrders, FinishMatching, PushReport, FinishTask,
              StartCancel, PushCanceled
<1> QED
  BY <1>1, <1>2 DEF Next, Poll

(* Clients hear of accepted orders only. *)
LEMMA HeardNext ==
  ASSUME TypeOK, IdInv, SensibleInv, Heard, RaceInv, [Next]_vars,
         \A s \in Symbols : ~raced[s] => Coherent(OnTheWay(s), Standing(s), view)
  PROVE  Heard'
<1>0. orderNumber \in Nat /\ Accepted \in Int
  BY DEF TypeOK, Accepted
<1>1. Accepted' \in Int /\ Accepted <= Accepted'
  <2>1. ASSUME NEW s \in Symbols, NEW c \in ClientIds, NEW n \in Sessions,
               NEW side \in NewOrderSides, NEW p \in Prices, NEW q \in Quantities,
               ReceiveNewOrder(s, c, n, side, p, q)
        PROVE  Accepted' = orderNumber /\ Accepted = orderNumber
    BY <1>0, <2>1 DEF ReceiveNewOrder, Accepted, Idle
  <2>2. ASSUME NEW s \in Symbols, NEW c \in ClientIds, NEW n \in Sessions,
               NEW side \in OrderSide, NEW orig \in ClientIds,
               ReceiveCancel(s, c, n, side, orig)
        PROVE  Accepted' = Accepted
    BY <1>0, <2>2 DEF ReceiveCancel, Accepted
  <2>3. CASE PushAccepted
    <3>1. reactor # Idle /\ reactor.pc = "accept" /\ reactor'.pc = "submit" /\ orderNumber' = orderNumber
      BY <2>3, ReactorBusy DEF PushAccepted, Request
    <3> QED
      BY <1>0, <3>1 DEF Accepted
  <2>4. CASE SubmitTask
    <3>1. reactor.pc = "submit" /\ reactor' = Idle /\ orderNumber' = orderNumber
      BY <2>4 DEF SubmitTask
    <3> QED
      BY <1>0, <3>1 DEF Accepted
  <2>5. CASE UNCHANGED <<reactor, orderNumber>>
    BY <1>0, <2>5 DEF Accepted
  <2> QED
    BY <1>0, <2>1, <2>2, <2>3, <2>4, <2>5, ReactorSteps
<1>2. CASE view' = view
  <2>1. \A i \in OrderIds : i \in Int
    BY DEF OrderIds
  <2> QED
    BY <1>0, <1>1, <1>2, <2>1 DEF Heard
<1>3. ASSUME NEW s \in Symbols, ProcessOutgoing(s) PROVE Heard'
  <2> DEFINE h == Head(out[s])
             m == Message(h)
  <2>1. out[s] \in Seq(Report) /\ out[s] # <<>>
        /\ IF Speaks(h) THEN view' = Delivered(view, m) ELSE view' = view
    BY <1>3, Outgoing
  <2>2. CASE Speaks(h)
    <3>1. m \in OnTheWay(s)
      BY <2>1, <2>2, PopMessage DEF OnTheWay
    <3> HIDE DEF m
    <3>2. Fits(m) /\ \E x \in Standing(s) : x.id = m.id
      BY <2>1, <3>1 DEF RaceInv, Coherent, Bounded
    <3>3. m.id <= Accepted /\ m.id \in Int /\ m.executed >= 0 /\ m.id \in OrderIds
      BY <3>2, StandingHeard DEF Fits, Saying
    <3>4. view \in [OrderIds -> ViewEntry]
      BY DEF TypeOK
    <3>5. view'[m.id].executed = m.executed /\ \A i \in OrderIds : i # m.id => view'[i] = view[i]
      BY <2>1, <2>2, <3>2, <3>4, DeliveredView
    <3>6. \A i \in OrderIds : i \in Int
      BY DEF OrderIds
    <3> QED
      BY <1>0, <1>1, <3>3, <3>5, <3>6 DEF Heard
  <2> QED
    BY <1>2, <2>1, <2>2
<1> QED
  BY <1>2, <1>3, ViewSteps
-----------------------------------------------------------------------------
(* Reports and orders stay together *)

(* A worker's report moves to the queue of the processor. *)
LEMMA MoveReport ==
  ASSUME TypeOK, NEW t \in Symbols, ~raced[t], QueuesOrdered(t), PushReport(t)
  PROVE  QueuesOrdered(t)' /\ OnTheWay(t)' = OnTheWay(t)
<1> DEFINE p == pending[t]
           h == Head(p)
<1>1. /\ p \in Seq(Report) /\ p # <<>> /\ out[t] \in Seq(Report)
      /\ out'[t] = Append(out[t], h) /\ pending'[t] = Tail(p)
      /\ workerPc[t] = "reporting" /\ workerPc'[t] = "reporting"
  BY DEF PushReport, Push, TypeOK
<1>2. Fills(t) = p /\ Fills(t)' = Tail(p)
  BY <1>1 DEF Fills
<1> HIDE DEF p, h
<1>3. /\ Ordered(out[t]) /\ Ordered(p)
      /\ \A x \in Messages(out[t]), y \in Messages(p) : Follows(x, y)
  BY <1>2 DEF QueuesOrdered
<1>4. /\ h \in Report
      /\ Speaks(h) => Messages(p) = Messages(Tail(p)) \cup {Message(h)}
      /\ ~Speaks(h) => Messages(p) = Messages(Tail(p))
      /\ Ordered(Tail(p))
      /\ Speaks(h) => \A m \in Messages(Tail(p)) : Follows(Message(h), m)
  BY <1>1, <1>3, PopMessage DEF h
<1>5. /\ Speaks(h) => Messages(out'[t]) = Messages(out[t]) \cup {Message(h)}
      /\ ~Speaks(h) => Messages(out'[t]) = Messages(out[t])
      /\ Ordered(out'[t])
  <2>1. Speaks(h) => \A m \in Messages(out[t]) : Follows(m, Message(h))
    BY <1>3, <1>4
  <2> QED
    BY <1>1, <1>3, <1>4, <2>1, PushMessage
<1>6. \A x \in Messages(out'[t]), y \in Messages(Tail(p)) : Follows(x, y)
  BY <1>3, <1>4, <1>5
<1> QED
  BY <1>2, <1>4, <1>5, <1>6 DEF QueuesOrdered, OnTheWay

(* A match queues two reports. *)
LEMMA MatchReports ==
  ASSUME IInv, ReportInv, NEW t \in Symbols, ~raced[t], MatchBestOrders(t)
  PROVE  QueuesOrdered(t)' /\ Coherent(OnTheWay(t)', Standing(t)', view)
<1>0. TypeOK /\ SideInv /\ IdInv /\ NoOverfill /\ OnceInv
  BY DEF IInv, ReportInv
<1>1. PICK bid, ask, newBid, newAsk \in Order : Matches(t, bid, ask, newBid, newAsk)
  BY <1>0, MatchEffect
<1> DEFINE q == MatchQuantity(bid, ask)
           xb == Says(bid, OpenStatus(bid))
           xa == Says(ask, OpenStatus(ask))
           fb == FillReport(newBid)
           fa == FillReport(newAsk)
           yb == Message(fb)
           ya == Message(fa)
           A == OnTheWay(t)
           T == Standing(t)
           p == pending[t]
<1>2. /\ bid \in bids[t] /\ ask \in asks[t]
      /\ Trades(bid, newBid, ask.price, q) /\ Trades(ask, newAsk, ask.price, q)
  BY <1>1 DEF Matches
<1>3. OrderSane(bid) /\ OrderSane(ask) /\ bid.open > 0 /\ ask.open > 0
  BY <1>0, <1>2 DEF NoOverfill
<1>4. q \in Int /\ q > 0 /\ q <= bid.open /\ q <= ask.open
  <2>1. bid.open \in Int /\ ask.open \in Int
    BY DEF Order
  <2> QED
    BY <1>3, <2>1 DEF MatchQuantity
<1>5. xb \in T /\ Coherent(A, T, view) /\ Fits(xb) /\ (Sided(ask) => xa \in T /\ Fits(xa))
  <2>1. Sided(bid)
    BY <1>0, <1>2 DEF SideInv, Sided
  <2>2. xb \in T /\ (Sided(ask) => xa \in T)
    BY <1>2, <2>1 DEF Standing, InBook
  <2>3. Coherent(A, T, view)
    BY DEF ReportInv
  <2> QED
    BY <2>2, <2>3 DEF Coherent
<1> HIDE DEF q
<1>6. /\ yb.id = xb.id /\ Later(xb, yb) /\ Fits(yb) /\ yb.status # "CANCELED" /\ Speaks(fb)
      /\ yb = TradedTo(newBid)
  <2>1. Sided(newBid)
    BY <1>0, <1>2 DEF SideInv, Sided, Trades
  <2> QED
    BY <1>2, <1>3, <1>4, <1>5, <2>1, TradeSays
<1>7. fb \in Report /\ fa \in Report /\ (Speaks(fa) <=> Sided(ask))
  <2>1. Sided(newAsk) <=> Sided(ask)
    BY <1>2 DEF Sided, Trades
  <2> QED
    BY <2>1, FillReportType DEF Speaks, FillReport
<1>8. Sided(ask) =>
        /\ ya.id = xa.id /\ Later(xa, ya) /\ Fits(ya) /\ ya.status # "CANCELED"
        /\ ya = TradedTo(newAsk)
  BY <1>2, <1>3, <1>4, <1>5, TradeSays
<1>9. /\ p \in Seq(Report) /\ pending'[t] = p \o <<fb, fa>> /\ out' = out
      /\ workerPc[t] = "matching" /\ workerPc'[t] = "matching" /\ work' = work /\ reactor' = reactor
      /\ view \in [OrderIds -> ViewEntry]
  BY <1>0, <1>1 DEF Matches, TypeOK, MatchBestOrders, outVars
<1> HIDE DEF xb, xa, yb, ya, fb, fa
<1>10. /\ xb.id # xa.id
       /\ T' = IF Sided(ask) THEN (((T \ {xb}) \cup {yb}) \ {xa}) \cup {ya}
                             ELSE (T \ {xb}) \cup {yb}
  BY <1>0, <1>1, <1>6, <1>8, <1>9, StandingMatched DEF xb, xa
<1> HIDE DEF A, T, p
<1>11. Coherent(A \cup {yb}, (T \ {xb}) \cup {yb}, view) /\ \A m \in A : Follows(m, yb)
  BY <1>5, <1>6, <1>9, Publish
<1>12. pending'[t] = Append(Append(p, fb), fa) /\ Append(p, fb) \in Seq(Report)
  BY <1>7, <1>9
<1>13. Fills(t) = p /\ Fills(t)' = Append(Append(p, fb), fa)
  BY <1>9, <1>12 DEF Fills, p
<1>14. A = Messages(out[t]) \cup Messages(p) /\ Ordered(p) /\ Ordered(out[t])
       /\ \A x \in Messages(out[t]), y \in Messages(p) : Follows(x, y)
  BY <1>13 DEF A, OnTheWay, ReportInv, QueuesOrdered
<1>15. Messages(Append(p, fb)) = Messages(p) \cup {yb} /\ Ordered(Append(p, fb))
  BY <1>6, <1>7, <1>9, <1>11, <1>14, PushMessage DEF yb
<1>16. CASE Sided(ask)
  <2>1. xa \in (T \ {xb}) \cup {yb}
    BY <1>5, <1>10, <1>16
  <2>2. /\ Coherent(A \cup {yb} \cup {ya}, (((T \ {xb}) \cup {yb}) \ {xa}) \cup {ya}, view)
        /\ \A m \in A \cup {yb} : Follows(m, ya)
    BY <1>8, <1>9, <1>11, <1>16, <2>1, Publish
  <2>3. Messages(Fills(t)') = Messages(p) \cup {yb} \cup {ya} /\ Ordered(Fills(t)')
    BY <1>7, <1>12, <1>13, <1>14, <1>15, <1>16, <2>2, PushMessage DEF ya
  <2>4. OnTheWay(t)' = A \cup {yb} \cup {ya}
    BY <1>9, <1>14, <2>3 DEF OnTheWay
  <2>5. QueuesOrdered(t)'
    BY <1>9, <1>11, <1>14, <2>2, <2>3 DEF QueuesOrdered
  <2> QED
    BY <1>10, <1>16, <2>2, <2>4, <2>5 DEF T
<1>17. CASE ~Sided(ask)
  <2>0. ~Speaks(fa)
    BY <1>7, <1>17
  <2> DEFINE pb == Append(p, fb)
  <2>a. pb \in Seq(Report) /\ Messages(pb) = Messages(p) \cup {yb} /\ Ordered(pb)
        /\ Fills(t)' = Append(pb, fa)
    BY <1>12, <1>13, <1>15
  <2> HIDE DEF pb
  <2>b. Messages(Append(pb, fa)) = Messages(pb) /\ Ordered(Append(pb, fa))
    BY <1>7, <2>0, <2>a, PushMessage
  <2>1. Messages(Fills(t)') = Messages(p) \cup {yb} /\ Ordered(Fills(t)')
    BY <2>a, <2>b
  <2>2. OnTheWay(t)' = A \cup {yb}
    BY <1>9, <1>14, <2>1 DEF OnTheWay
  <2>3. QueuesOrdered(t)'
    BY <1>9, <1>11, <1>14, <2>1 DEF QueuesOrdered
  <2> QED
    BY <1>10, <1>11, <1>17, <2>2, <2>3 DEF T
<1> QED
  BY <1>16, <1>17

(* The push of CANCELED and the erasure are one step. *)
LEMMA CancelReports ==
  ASSUME IInv, ReportInv, NEW t \in Symbols, ~raced[t], PushCanceled(t)
  PROVE  QueuesOrdered(t)' /\ Coherent(OnTheWay(t)', Standing(t)', view)
<1>0. TypeOK /\ IdInv /\ NoOverfill /\ OnceInv /\ CancelShape
  BY DEF IInv, ReportInv
<1>1. PICK o \in bids[t] \cup asks[t] :
        /\ pending[t] = <<[order |-> o, status |-> "CANCELED"]>>
        /\ Sided(o) => /\ bids'[t] \cup asks'[t] = (bids[t] \cup asks[t]) \ {o}
                       /\ left'[t] = left[t] \cup {o}
        /\ ~Sided(o) => bids'[t] = bids[t] /\ asks'[t] = asks[t] /\ left'[t] = left[t]
  BY <1>0, CanceledOrder
<1> DEFINE r == [order |-> o, status |-> "CANCELED"]
           x == Says(o, OpenStatus(o))
           y == Says(o, "CANCELED")
           A == OnTheWay(t)
           T == Standing(t)
<1>2. /\ workerPc[t] = "canceling" /\ workerPc'[t] = "idle" /\ pending'[t] = <<>>
      /\ out[t] \in Seq(Report) /\ work' = work /\ reactor' = reactor
      /\ view \in [OrderIds -> ViewEntry]
  BY <1>0 DEF PushCanceled, TypeOK
<1>3. Head(pending[t]) = r
  BY <1>1
<1>4. out'[t] = Append(out[t], r)
  BY <1>0, <1>3 DEF PushCanceled, Push, TypeOK
<1>5. r \in Report /\ (Speaks(r) <=> Sided(o)) /\ Message(r) = y
  <2>1. o \in Order
    BY <1>0 DEF TypeOK
  <2> QED
    BY <2>1 DEF Report, OrderStatus, Speaks, Message
<1>6. Sided(o) => /\ x \in T /\ y.id = x.id /\ y.executed = x.executed
                  /\ Later(x, y) /\ (Fits(x) => Fits(y))
                  /\ T' = (T \ {x}) \cup {y}
  BY <1>0, <1>1, <1>2, StandingCanceled
<1>7. ~Sided(o) => T' = T
  BY <1>1, <1>2 DEF Standing, InBook, Gone, Waiting, Submitting
<1> HIDE DEF r, x, y, A, T
<1>8. Coherent(A, T, view)
  BY DEF ReportInv, A, T
<1>9. Fills(t) = <<>> /\ Fills(t)' = <<>>
  BY <1>2 DEF Fills
<1>10. A = Messages(out[t]) /\ Ordered(out[t])
  BY <1>9, NoMessage DEF A, OnTheWay, ReportInv, QueuesOrdered
<1>11. CASE Sided(o)
  <2>1. Fits(y)
    BY <1>6, <1>8, <1>11 DEF Coherent
  <2>2. Coherent(A \cup {y}, (T \ {x}) \cup {y}, view) /\ \A m \in A : Follows(m, y)
    BY <1>2, <1>6, <1>8, <1>11, <2>1, Publish
  <2>3. Messages(out'[t]) = A \cup {y} /\ Ordered(out'[t])
    BY <1>2, <1>4, <1>5, <1>10, <1>11, <2>2, PushMessage
  <2>4. OnTheWay(t)' = A \cup {y} /\ QueuesOrdered(t)'
    BY <1>9, <2>3, NoMessage DEF OnTheWay, QueuesOrdered
  <2> QED
    BY <1>6, <1>11, <2>2, <2>4 DEF T
<1>12. CASE ~Sided(o)
  <2>1. Messages(out'[t]) = A /\ Ordered(out'[t])
    BY <1>2, <1>4, <1>5, <1>10, <1>12, PushMessage
  <2>2. OnTheWay(t)' = A /\ QueuesOrdered(t)'
    BY <1>9, <2>1, NoMessage DEF OnTheWay, QueuesOrdered
  <2> QED
    BY <1>7, <1>8, <1>12, <2>2 DEF T
<1> QED
  BY <1>11, <1>12

(* The acceptance of an order is queued before the order is submitted. *)
LEMMA AcceptReports ==
  ASSUME IInv, ReportInv, NEW t \in Symbols, ~raced[t], PushAccepted, reactor.symbol = t
  PROVE  QueuesOrdered(t)' /\ Coherent(OnTheWay(t)', Standing(t)', view)
<1>0. TypeOK /\ QuantityInv /\ IdInv /\ SensibleInv /\ Heard
  BY DEF IInv, ReportInv
<1> DEFINE known == Sided(reactor.task.order)
           r == [order |-> reactor.task.order, status |-> "ACCEPTED"]
           x == Says(reactor.task.order, "ACCEPTED")
           A == OnTheWay(t)
           T == Standing(t)
<1>1. /\ Fits(x) /\ view[x.id].status = "NONE" /\ T' = T \cup {z \in {x} : known}
      /\ \A z \in T : z.id # x.id
  BY <1>0, StandingAccepted
<1>2. r \in Report /\ (Speaks(r) <=> known) /\ Message(r) = x /\ x.status = "ACCEPTED"
  BY <1>0, ReactorBusy DEF PushAccepted, Report, OrderStatus, Speaks, Message, Says
<1>3. /\ out[t] \in Seq(Report) /\ out'[t] = Append(out[t], r)
      /\ workerPc' = workerPc /\ pending' = pending
  BY <1>0 DEF PushAccepted, Push, TypeOK, workerVars
<1> HIDE DEF known, r, x, A, T
<1>4. Coherent(A, T, view)
  BY DEF ReportInv, A, T
<1>5. Fills(t)' = Fills(t)
  BY <1>3 DEF Fills
<1>6. /\ A = Messages(out[t]) \cup Messages(Fills(t)) /\ Ordered(out[t]) /\ Ordered(Fills(t))
      /\ \A a \in Messages(out[t]), b \in Messages(Fills(t)) : Follows(a, b)
  BY DEF A, OnTheWay, ReportInv, QueuesOrdered
<1>7. CASE known
  <2>1. Coherent(A \cup {x}, T \cup {x}, view) /\ \A m \in A : m.id # x.id
    BY <1>1, <1>2, <1>4, Announce
  <2>2. \A m \in A : Follows(m, x) /\ Follows(x, m)
    BY <2>1 DEF Follows
  <2>3. Messages(out'[t]) = Messages(out[t]) \cup {x} /\ Ordered(out'[t])
    BY <1>2, <1>3, <1>6, <1>7, <2>2, PushMessage
  <2>4. OnTheWay(t)' = A \cup {x} /\ QueuesOrdered(t)'
    BY <1>5, <1>6, <2>2, <2>3 DEF OnTheWay, QueuesOrdered
  <2>5. T' = T \cup {x}
    BY <1>1, <1>7
  <2> QED
    BY <2>1, <2>4, <2>5 DEF T
<1>8. CASE ~known
  <2>1. Messages(out'[t]) = Messages(out[t]) /\ Ordered(out'[t])
    BY <1>2, <1>3, <1>6, <1>8, PushMessage
  <2>2. OnTheWay(t)' = A /\ QueuesOrdered(t)'
    BY <1>5, <1>6, <2>1 DEF OnTheWay, QueuesOrdered
  <2>3. T' = T
    BY <1>1, <1>8
  <2> QED
    BY <1>4, <2>2, <2>3 DEF T
<1> QED
  BY <1>7, <1>8

(* The queues of the other steps say what they said. *)
LEMMA QuietQueues ==
  ASSUME TypeOK, CancelShape, [Next]_vars, NEW t \in Symbols, QueuesOrdered(t),
         ~raced[t], ~raced'[t],
         ~(PushAccepted /\ reactor.symbol = t), ~MatchBestOrders(t), ~PushCanceled(t),
         ~ProcessOutgoing(t)
  PROVE  QueuesOrdered(t)' /\ OnTheWay(t)' = OnTheWay(t)
<1>1. CASE out'[t] = out[t] /\ Fills(t)' = Fills(t)
  BY <1>1 DEF QueuesOrdered, OnTheWay
<1>2. CASE PushReport(t)
  BY <1>2, MoveReport
<1>3. out'[t] = out[t] \/ PushReport(t)
  <2>1. CASE PushAccepted
    BY <2>1 DEF PushAccepted, Push, TypeOK
  <2>2. CASE Receive \/ SubmitTask \/ UNCHANGED vars
    BY <2>2 DEF Receive, ReceiveNewOrder, ReceiveCancel, SubmitTask, outVars, vars
  <2>3. ASSUME NEW s \in Symbols, Acts(s) \/ ProcessOutgoing(s)
        PROVE  out'[t] = out[t] \/ PushReport(t)
    BY <2>3 DEF Acts, StartNewOrder, MatchBestOrders, FinishMatching, PushReport, FinishTask,
                StartCancel, PushCanceled, Push, ProcessOutgoing, outVars, TypeOK
  <2>4. ASSUME NEW s \in Symbols, NEW u, LoadTail(u, s) PROVE out'[t] = out[t]
    BY <2>4 DEF LoadTail, TypeOK
  <2>5. ASSUME NEW s \in Symbols, NEW u, TryPushFails(u, s) PROVE out'[t] = out[t]
    BY <2>5 DEF TryPushFails
  <2> QED
    BY <2>1, <2>2, <2>3, <2>4, <2>5 DEF Next, Reactor, Worker, Acts, Poll
<1>4. CASE workerPc'[t] = workerPc[t] /\ pending'[t] = pending[t]
  BY <1>1, <1>2, <1>3, <1>4 DEF Fills
<1>5. CASE StartNewOrder(t) \/ FinishMatching(t) \/ FinishTask(t)
  <2>1. workerPc[t] # "canceling" /\ workerPc'[t] # "canceling" /\ pending'[t] = pending[t]
    BY <1>5 DEF StartNewOrder, FinishMatching, FinishTask, TypeOK
  <2> QED
    BY <1>1, <1>2, <1>3, <2>1 DEF Fills
<1>6. CASE StartCancel(t)
  <2>1. Fills(t) = <<>> /\ out' = out
    BY <1>6 DEF StartCancel, CancelShape, Fills, outVars
  <2>2. CASE workerPc'[t] = "canceling"
    <3>1. Fills(t)' = <<>>
      BY <2>2 DEF Fills
    <3> QED
      BY <1>1, <2>1, <3>1
  <2>3. ASSUME workerPc'[t] # "canceling"
        PROVE  \E o : pending'[t] = <<[order |-> o, status |-> "REJECTED"]>>
    BY <1>6, <2>3 DEF StartCancel, TypeOK
  <2>4. CASE workerPc'[t] # "canceling"
    <3>1. PICK o : pending'[t] = <<[order |-> o, status |-> "REJECTED"]>>
      BY <2>3, <2>4
    <3>2. Fills(t)' = <<[order |-> o, status |-> "REJECTED"]>>
      BY <2>4, <3>1 DEF Fills
    <3>3. /\ Len(Fills(t)') = 1 /\ ~Speaks(Fills(t)'[1])
      BY <3>2 DEF Speaks
    <3>4. Messages(Fills(t)') = {} /\ Ordered(Fills(t)')
      BY <3>3 DEF Messages, Ordered
    <3>5. Messages(Fills(t)) = {}
      BY <2>1, NoMessage
    <3> QED
      BY <2>1, <3>4, <3>5 DEF QueuesOrdered, OnTheWay
  <2> QED
    BY <2>2, <2>4
<1> QED
  BY <1>2, <1>4, <1>5, <1>6, WorkerSteps DEF Acts

(* The processor delivers a report of another symbol. *)
LEMMA DeliverElsewhere ==
  ASSUME IInv, ReportInv, NEW s \in Symbols, NEW t \in Symbols, s # t, ProcessOutgoing(s),
         NEW A, Coherent(A, Standing(t), view)
  PROVE  Coherent(A, Standing(t), view')
<1> DEFINE h == Head(out[s])
           m == Message(h)
<1>1. out[s] \in Seq(Report) /\ out[s] # <<>>
      /\ IF Speaks(h) THEN view' = Delivered(view, m) ELSE view' = view
  BY Outgoing DEF IInv
<1>2. CASE Speaks(h)
  <2>1. m \in OnTheWay(s)
    BY <1>1, <1>2, PopMessage DEF OnTheWay
  <2> HIDE DEF m
  <2>2. PICK x \in Standing(s) : Fits(m) /\ x.id = m.id
    BY <1>1, <2>1 DEF ReportInv, RaceInv, Coherent, Bounded
  <2>3. \A z \in Standing(t) : z.id # m.id /\ z.id \in OrderIds
    BY <2>2 DEF ReportInv, ApartInv, Coherent, Fits
  <2>4. \A z \in Standing(t) : view'[z.id] = view[z.id]
    <3>1. view \in [OrderIds -> ViewEntry] /\ view' = Delivered(view, m)
      BY <1>1, <1>2 DEF IInv, TypeOK
    <3>2. \A i \in OrderIds : i # m.id => view'[i] = view[i]
      BY <2>2, <3>1, DeliveredView
    <3> QED
      BY <2>3, <3>2
  <2> QED
    BY <2>4, Frame
<1> QED
  BY <1>1, <1>2

(* The processor delivers a report. *)
LEMMA DeliverHere ==
  ASSUME IInv, ReportInv, NEW t \in Symbols, ProcessOutgoing(t)
  PROVE  /\ QueuesOrdered(t)' /\ Coherent(OnTheWay(t)', Standing(t), view')
         /\ LifeCycle!Next \/ view' = view
<1> DEFINE h == Head(out[t])
           m == Message(h)
           F == Messages(Fills(t))
           B == Messages(Tail(out[t])) \cup F
<1>0. TypeOK
  BY DEF IInv
<1>1. out[t] \in Seq(Report) /\ out[t] # <<>> /\ out'[t] = Tail(out[t])
      /\ IF Speaks(h) THEN view' = Delivered(view, m) ELSE view' = view
  BY <1>0, Outgoing
<1>2. Fills(t)' = Fills(t)
  BY DEF ProcessOutgoing, workerVars, Fills
<1>3. /\ Ordered(out[t]) /\ Ordered(Fills(t))
      /\ \A x \in Messages(out[t]), y \in F : Follows(x, y)
      /\ Coherent(Messages(out[t]) \cup F, Standing(t), view)
  BY <1>1 DEF ReportInv, RaceInv, QueuesOrdered, OnTheWay
<1>4. /\ Speaks(h) => Messages(out[t]) = Messages(Tail(out[t])) \cup {m}
      /\ ~Speaks(h) => Messages(out[t]) = Messages(Tail(out[t]))
      /\ Ordered(Tail(out[t]))
      /\ Speaks(h) => \A x \in Messages(Tail(out[t])) : Follows(m, x)
  BY <1>1, <1>3, PopMessage
<1> HIDE DEF h, m, F
<1>5. QueuesOrdered(t)' /\ OnTheWay(t)' = B
  BY <1>1, <1>2, <1>3, <1>4 DEF QueuesOrdered, OnTheWay, F
<1>6. CASE Speaks(h)
  <2>1. Coherent(B \cup {m}, Standing(t), view) /\ \A x \in B : Follows(m, x)
    <3>1. B \cup {m} = Messages(out[t]) \cup F
      BY <1>4, <1>6
    <3> QED
      BY <1>3, <1>4, <1>6, <3>1
  <2> HIDE DEF B
  <2>2. view \in [OrderIds -> ViewEntry] /\ \A j \in OrderIds : view[j].executed >= 0
    BY <1>0 DEF TypeOK, ReportInv, Heard
  <2>3. Coherent(B, Standing(t), view')
    BY <1>1, <1>6, <2>1, <2>2, Deliver
  <2>4. LifeCycle!Next
    BY <1>1, <1>6, <2>1, <2>2, DeliverStep
  <2> QED
    BY <1>5, <2>3, <2>4
<1>7. CASE ~Speaks(h)
  BY <1>1, <1>3, <1>4, <1>5, <1>7
<1> QED
  BY <1>6, <1>7

(* Pushes that have overlapped stay so, and their queue is left alone. *)
LEMMA RaceNext ==
  ASSUME TypeOK, RaceInv, [Next]_vars
  PROVE  RaceInv' /\ \A t \in Symbols : raced[t] => raced'[t]
<1> SUFFICES ASSUME NEW t \in Symbols
             PROVE  (raced'[t] => out'[t] = <<>>) /\ (raced[t] => raced'[t])
  BY DEF RaceInv
<1>0. raced[t] => out[t] = <<>>
  BY DEF RaceInv
<1>1. CASE raced'[t] = raced[t] /\ (out'[t] = out[t] \/ out'[t] = <<>>)
  BY <1>0, <1>1
<1>2. CASE Receive \/ SubmitTask \/ UNCHANGED vars
  BY <1>1, <1>2 DEF Receive, ReceiveNewOrder, ReceiveCancel, SubmitTask, outVars, vars
<1>3. ASSUME NEW u, NEW s \in Symbols, LoadTail(u, s)
      PROVE  (raced'[t] => out'[t] = <<>>) /\ (raced[t] => raced'[t])
  BY <1>0, <1>3 DEF LoadTail, TypeOK
<1>4. ASSUME NEW u, NEW s \in Symbols, TryPushFails(u, s)
      PROVE  (raced'[t] => out'[t] = <<>>) /\ (raced[t] => raced'[t])
  BY <1>1, <1>4 DEF TryPushFails
<1>5. ASSUME NEW u, NEW s \in Symbols, NEW r, Push(u, s, r)
      PROVE  (raced'[t] => out'[t] = <<>>) /\ (raced[t] => raced'[t])
  BY <1>0, <1>5 DEF Push, TypeOK
<1>6. CASE PushAccepted
  BY <1>5, <1>6, ReactorBusy DEF PushAccepted
<1>7. ASSUME NEW s \in Symbols, PushReport(s) \/ PushCanceled(s)
      PROVE  (raced'[t] => out'[t] = <<>>) /\ (raced[t] => raced'[t])
  BY <1>5, <1>7 DEF PushReport, PushCanceled
<1>8. ASSUME NEW s \in Symbols, ProcessOutgoing(s)
      PROVE  (raced'[t] => out'[t] = <<>>) /\ (raced[t] => raced'[t])
  BY <1>0, <1>8 DEF ProcessOutgoing, TypeOK
<1>9. ASSUME NEW s \in Symbols,
             \/ StartNewOrder(s) \/ MatchBestOrders(s) \/ FinishMatching(s) \/ FinishTask(s)
             \/ StartCancel(s)
      PROVE  (raced'[t] => out'[t] = <<>>) /\ (raced[t] => raced'[t])
  BY <1>1, <1>9 DEF StartNewOrder, MatchBestOrders, FinishMatching, FinishTask, StartCancel, outVars
<1> QED
  BY <1>2, <1>3, <1>4, <1>6, <1>7, <1>8, <1>9 DEF Next, Reactor, Worker, Poll

(* Every step keeps reports, orders and views together. *)
LEMMA ReportNext ==
  ASSUME IInv, ReportInv, [Next]_vars
  PROVE  ReportInv'
<1>0. TypeOK /\ SideInv /\ QuantityInv /\ IdInv
  BY DEF IInv
<1>1. SensibleInv' /\ CancelShape' /\ OnceInv' /\ ApartInv' /\ Heard' /\ RaceInv'
  <2>1. SensibleInv /\ CancelShape /\ OnceInv /\ ApartInv /\ Heard /\ RaceInv
        /\ \A s \in Symbols : ~raced[s] => Coherent(OnTheWay(s), Standing(s), view)
    BY DEF ReportInv
  <2> QED
    BY <1>0, <2>1, SensibleNext, CancelShapeNext, OnceNext, ApartNext, HeardNext, RaceNext
<1>2. ASSUME NEW t \in Symbols, ~raced'[t]
      PROVE  QueuesOrdered(t)' /\ Coherent(OnTheWay(t)', Standing(t)', view')
  <2>0. ~raced[t]
    BY <1>0, <1>2, RaceNext DEF ReportInv
  <2>1. CASE view' = view
    <3>1. CASE PushAccepted /\ reactor.symbol = t
      BY <2>0, <2>1, <3>1, AcceptReports
    <3>2. CASE MatchBestOrders(t)
      BY <2>0, <2>1, <3>2, MatchReports
    <3>3. CASE PushCanceled(t)
      BY <2>0, <2>1, <3>3, CancelReports
    <3>4. CASE ProcessOutgoing(t)
      <4>1. Standing(t)' = Standing(t)
        BY <3>4 DEF ProcessOutgoing, bookVars, Standing, InBook, Gone, Waiting, Submitting
      <4> QED
        BY <3>4, <4>1, DeliverHere
    <3>5. CASE /\ ~(PushAccepted /\ reactor.symbol = t) /\ ~MatchBestOrders(t) /\ ~PushCanceled(t)
               /\ ~ProcessOutgoing(t)
      <4>1. QueuesOrdered(t)' /\ OnTheWay(t)' = OnTheWay(t)
        BY <1>0, <1>2, <2>0, <3>5, QuietQueues DEF ReportInv
      <4>2. Standing(t)' = Standing(t)
        <5>1. CASE ~PushAccepted
          BY <1>0, <3>5, <5>1, StandingSame
        <5>2. CASE PushAccepted
          <6>1. PICK u : u = reactor.symbol
            OBVIOUS
          <6>2. \A s \in Symbols \ {u} : Standing(s)' = Standing(s)
            BY <1>0, <5>2, <6>1, StandingAccepted DEF ReportInv
          <6> QED
            BY <3>5, <5>2, <6>1, <6>2
        <5> QED
          BY <5>1, <5>2
      <4> QED
        BY <2>0, <2>1, <4>1, <4>2 DEF ReportInv
    <3> QED
      BY <3>1, <3>2, <3>3, <3>4, <3>5
  <2>2. ASSUME NEW s \in Symbols, ProcessOutgoing(s)
        PROVE  QueuesOrdered(t)' /\ Coherent(OnTheWay(t)', Standing(t)', view')
    <3>1. Standing(t)' = Standing(t)
      BY <2>2 DEF ProcessOutgoing, bookVars, Standing, InBook, Gone, Waiting, Submitting, NewInReactor
    <3>2. CASE s = t
      BY <2>2, <3>1, <3>2, DeliverHere
    <3>3. CASE s # t
      <4>1. out'[t] = out[t] /\ Fills(t)' = Fills(t)
        BY <1>0, <2>2, <3>3 DEF ProcessOutgoing, TypeOK, Fills, workerVars
      <4>2. QueuesOrdered(t)' /\ OnTheWay(t)' = OnTheWay(t)
        BY <2>0, <4>1 DEF QueuesOrdered, OnTheWay, ReportInv
      <4>3. Coherent(OnTheWay(t), Standing(t), view)
        BY <2>0 DEF ReportInv
      <4>4. Coherent(OnTheWay(t), Standing(t), view')
        BY <2>2, <3>3, <4>3, DeliverElsewhere
      <4> QED
        BY <3>1, <4>2, <4>4
    <3> QED
      BY <3>2, <3>3
  <2> QED
    BY <2>1, <2>2, ViewSteps
<1> QED
  BY <1>1, <1>2 DEF ReportInv

(* Nothing is on its way initially. *)
LEMMA ReportInit == Init => ReportInv
<1> SUFFICES ASSUME Init PROVE ReportInv
  OBVIOUS
<1>1. \A s \in Symbols : /\ work[s] = <<>> /\ pending[s] = <<>> /\ out[s] = <<>>
                         /\ bids[s] = {} /\ asks[s] = {} /\ left[s] = {} /\ workerPc[s] = "idle"
  BY DEF Init
<1>2. reactor = Idle /\ ~NewInReactor /\ reactor.pc = "idle"
  BY DEF Init, NewInReactor, Idle
<1>3. ASSUME NEW s \in Symbols PROVE Standing(s) = {}
  <2>1. InBook(s) = {} /\ Gone(s) = {} /\ Submitting(s) = {}
    BY <1>1, <1>2 DEF InBook, Gone, Submitting
  <2>2. Waiting(s) = {}
    BY <1>1 DEF Waiting, Requested
  <2> QED
    BY <2>1, <2>2 DEF Standing
<1>4. \A s \in Symbols : OnTheWay(s) = {} /\ QueuesOrdered(s)
  BY <1>1, NoMessage DEF OnTheWay, QueuesOrdered, Fills
<1>5. SensibleInv /\ CancelShape /\ OnceInv
  BY <1>1, <1>2 DEF SensibleInv, NewInWork, CancelShape, OnceInv, Known
<1>6. ApartInv /\ Heard /\ RaceInv
  BY <1>1, <1>3 DEF ApartInv, Heard, RaceInv, Init
<1>7. Coherent({}, {}, view)
  BY DEF Coherent, Unique, Bounded, Told, Ahead, AcceptedFirst, CanceledAsSaid
<1> QED
  BY <1>3, <1>4, <1>5, <1>6, <1>7 DEF ReportInv

(* What the clients were told agrees with the book when everything has     *)
(* been processed.                                                         *)
LEMMA ToldImpliesKnown ==
  ASSUME IInv, ReportInv
  PROVE  ClientsKnowTheBook
<1> SUFFICES ASSUME Quiescent, NEW s \in Symbols, ~raced[s]
             PROVE  /\ \A o \in {x \in bids[s] \cup asks[s] : Sided(x)} :
                         /\ view[o.id].executed = o.executed
                         /\ view[o.id].status = OpenStatus(o)
                    /\ \A o \in {x \in left[s] : Sided(x)} :
                         /\ view[o.id].executed = o.executed
                         /\ view[o.id].status = LastStatus(o)
  BY DEF ClientsKnowTheBook, OpenStatus, LastStatus, Sided
<1>1. out[s] = <<>> /\ pending[s] = <<>>
  BY DEF Quiescent, ReportInv, CancelShape
<1>2. OnTheWay(s) = {}
  BY <1>1, NoMessage DEF OnTheWay, Fills
<1>3. \A x \in Standing(s) : ViewOf(view, x.id) = x
  BY <1>2 DEF ReportInv, Coherent, Told
<1>4. \A x \in Standing(s) : view[x.id].status = x.status /\ view[x.id].executed = x.executed
  BY <1>3 DEF ViewOf
<1>5. ASSUME NEW o \in bids[s] \cup asks[s], Sided(o)
      PROVE  view[o.id].executed = o.executed /\ view[o.id].status = OpenStatus(o)
  <2>1. Says(o, OpenStatus(o)) \in Standing(s)
    BY <1>5 DEF Standing, InBook
  <2> QED
    BY <1>4, <2>1 DEF Says
<1>6. ASSUME NEW o \in left[s], Sided(o)
      PROVE  view[o.id].executed = o.executed /\ view[o.id].status = LastStatus(o)
  <2>1. Says(o, LastStatus(o)) \in Standing(s)
    BY <1>6 DEF Standing, Gone
  <2> QED
    BY <1>4, <2>1 DEF Says
<1> QED
  BY <1>5, <1>6

(* Whenever all threads are idle and all queues are empty, what the        *)
(* clients were told last is what became of their orders, for every symbol *)
(* to whose outgoing queue no two pushes have overlapped and every order   *)
(* whose side is BUY or SELL: nothing else loses a report or leaves a      *)
(* stale one.                                                              *)
THEOREM ReportsAgree == Spec => []ClientsKnowTheBook
<1>1. IInv /\ ReportInv /\ [Next]_vars => (IInv /\ ReportInv)'
  BY InvNext, ReportNext
<1>2. IInv /\ ReportInv => ClientsKnowTheBook
  BY ToldImpliesKnown
<1>3. Init => IInv /\ ReportInv
  BY InvInit, ReportInit
<1> QED
  BY <1>1, <1>2, <1>3, PTL DEF Spec

(* The reports of every order of side BUY or SELL that the processor takes *)
(* from a queue, up to the first pushes to that queue that overlap, are a  *)
(* behaviour of its life cycle: with those two exceptions the matching     *)
(* layer implements OrderLifeCycle.                                        *)
THEOREM ReportsFollowLifeCycle == Spec => ImplementsLifeCycle
<1>1. IInv /\ ReportInv /\ [Next]_vars => (IInv /\ ReportInv)'
  BY InvNext, ReportNext
<1>2. Init => IInv /\ ReportInv /\ LifeCycle!Init
  <2>1. Init => LifeCycle!Init
    BY DEF Init, LifeCycle!Init, OrderIds, LifeCycle!OrderIds
  <2> QED
    BY <2>1, InvInit, ReportInit
<1>3. IInv /\ ReportInv /\ [Next]_vars => [LifeCycle!Next]_view
  <2> SUFFICES ASSUME IInv, ReportInv, [Next]_vars
               PROVE  LifeCycle!Next \/ view' = view
    OBVIOUS
  <2> QED
    BY ViewSteps, DeliverHere
<1> QED
  BY <1>1, <1>2, <1>3, PTL DEF Spec, ImplementsLifeCycle, LifeCycle!Spec
-----------------------------------------------------------------------------
(* Limits as the clients sent them *)

(* The price of an order is its limit, read as an integer. *)
PriceRead(o) == o.price = ParsePrice(o.limit)

PricesRead(q) == \A k \in 1 .. Len(q) : PriceRead(q[k].order)

(* No step changes a limit or a price. *)
PriceInv ==
  /\ reactor # Idle => PriceRead(reactor.task.order)
  /\ \A s \in Symbols : /\ \A o \in bids[s] \cup asks[s] : PriceRead(o)
                        /\ PricesRead(work[s]) /\ PricesRead(pending[s]) /\ PricesRead(out[s])

(* Queues hold what was pushed to them. *)
LEMMA ReadQueue ==
  ASSUME NEW S, NEW q \in Seq(S), PricesRead(q)
  PROVE  /\ q # <<>> => PriceRead(Head(q).order) /\ PricesRead(Tail(q))
         /\ \A r \in S : PriceRead(r.order) => PricesRead(Append(q, r))
<1>1. ASSUME q # <<>> PROVE PriceRead(Head(q).order) /\ PricesRead(Tail(q))
  <2>1. /\ 1 \in 1 .. Len(q) /\ Head(q) = q[1]
        /\ \A k \in 1 .. Len(Tail(q)) : k + 1 \in 1 .. Len(q) /\ Tail(q)[k] = q[k + 1]
    BY <1>1
  <2> QED
    BY <2>1 DEF PricesRead
<1>2. ASSUME NEW r \in S, PriceRead(r.order) PROVE PricesRead(Append(q, r))
  <2>1. \A k \in 1 .. Len(Append(q, r)) :
          (k \in 1 .. Len(q) /\ Append(q, r)[k] = q[k]) \/ Append(q, r)[k] = r
    OBVIOUS
  <2> QED
    BY <1>2, <2>1 DEF PricesRead
<1> QED
  BY <1>1, <1>2

(* The reactor. *)
LEMMA PriceReactor ==
  ASSUME TypeOK, PriceInv, [Next]_vars
  PROVE  reactor' # Idle => PriceRead(reactor'.task.order)
<1>1. ASSUME NEW id, NEW c, NEW n, NEW side, NEW p, NEW q
      PROVE  PriceRead(NewOrder(id, c, n, side, p, q))
  BY DEF NewOrder, PriceRead
<1>2. ASSUME NEW s \in Symbols, NEW c \in ClientIds, NEW n \in Sessions,
             NEW side \in NewOrderSides, NEW p \in Prices, NEW q \in Quantities,
             ReceiveNewOrder(s, c, n, side, p, q)
      PROVE  PriceRead(reactor'.task.order)
  <2>1. reactor'.task.order = NewOrder(orderNumber + 1, c, n, side, p, q)
    BY <1>2 DEF ReceiveNewOrder
  <2> QED
    BY <1>1, <2>1
<1>3. ASSUME NEW s \in Symbols, NEW c \in ClientIds, NEW n \in Sessions,
             NEW side \in OrderSide, NEW orig \in ClientIds,
             ReceiveCancel(s, c, n, side, orig)
      PROVE  PriceRead(reactor'.task.order)
  <2>1. reactor'.task.order = NewOrder(0, c, n, side, 0, 0)
    BY <1>3 DEF ReceiveCancel, CancelRequest
  <2> QED
    BY <1>1, <2>1
<1>4. CASE PushAccepted
  BY <1>4, ReactorBusy DEF PushAccepted, Request, PriceInv
<1>5. CASE SubmitTask
  BY <1>5 DEF SubmitTask
<1>6. CASE UNCHANGED <<reactor, orderNumber>>
  BY <1>6 DEF PriceInv
<1> QED
  BY <1>2, <1>3, <1>4, <1>5, <1>6, ReactorSteps

(* The book and the work queues. *)
LEMMA PriceBook ==
  ASSUME TypeOK, PriceInv, [Next]_vars, NEW t \in Symbols
  PROVE  /\ \A o \in bids'[t] \cup asks'[t] : PriceRead(o)
         /\ PricesRead(work'[t])
<1>1. \A s \in Symbols : \A o \in bids[s] \cup asks[s] : PriceRead(o)
  BY DEF PriceInv
<1>2. \A s \in Symbols : work[s] \in Seq(Task) /\ PricesRead(work[s])
  BY DEF PriceInv, TypeOK
<1>3. \A o \in bids'[t] \cup asks'[t] : PriceRead(o)
  <2>1. CASE UNCHANGED bookVars
    BY <1>1, <2>1 DEF bookVars
  <2>2. ASSUME NEW s \in Symbols, StartNewOrder(s) PROVE \A o \in bids'[t] \cup asks'[t] : PriceRead(o)
    <3>1. PICK x \in Order : Inserts(s, x)
      BY <2>2, InsertEffect
    <3>2. PriceRead(Head(work[s]).order)
      BY <1>2, <2>2, ReadQueue DEF StartNewOrder
    <3>3. PriceRead(x)
      BY <3>1, <3>2 DEF Inserts, PriceRead
    <3> QED
      BY <1>1, <3>1, <3>3, InsertedSides
  <2>3. ASSUME NEW s \in Symbols, MatchBestOrders(s) PROVE \A o \in bids'[t] \cup asks'[t] : PriceRead(o)
    <3>1. PICK bid, ask, newBid, newAsk \in Order : Matches(s, bid, ask, newBid, newAsk)
      BY <2>3, MatchEffect
    <3>2. PriceRead(newBid) /\ PriceRead(newAsk)
      BY <1>1, <3>1 DEF Matches, Trades, PriceRead
    <3> QED
      BY <1>1, <3>1, <3>2, MatchedSides
  <2>4. ASSUME NEW s \in Symbols, PushCanceled(s) PROVE \A o \in bids'[t] \cup asks'[t] : PriceRead(o)
    BY <1>1, <2>4, EraseEffect DEF Shrinks
  <2> QED
    BY <2>1, <2>2, <2>3, <2>4, BookSteps
<1>4. PricesRead(work'[t])
  <2>1. CASE work'[t] = work[t]
    BY <1>2, <2>1
  <2>2. CASE StartNewOrder(t) \/ StartCancel(t)
    <3>1. work[t] # <<>> /\ work'[t] = Tail(work[t])
      BY <2>2 DEF StartNewOrder, StartCancel, TypeOK
    <3> QED
      BY <1>2, <3>1, ReadQueue
  <2>3. CASE SubmitTask /\ reactor.symbol = t
    <3>1. reactor.task \in Task /\ reactor # Idle
      BY <2>3, ReactorBusy DEF SubmitTask
    <3>2. work'[t] = Append(work[t], reactor.task)
      BY <2>3 DEF SubmitTask, TypeOK
    <3> QED
      BY <1>2, <3>1, <3>2, ReadQueue DEF PriceInv
  <2> QED
    BY <2>1, <2>2, <2>3, WorkSteps
<1> QED
  BY <1>3, <1>4

(* The reports. *)
LEMMA PriceReports ==
  ASSUME TypeOK, CancelInv, PriceInv, [Next]_vars, NEW t \in Symbols
  PROVE  PricesRead(pending'[t]) /\ PricesRead(out'[t])
<1>1. /\ pending[t] \in Seq(Report) /\ PricesRead(pending[t])
      /\ out[t] \in Seq(Report) /\ PricesRead(out[t])
      /\ work[t] \in Seq(Task) /\ PricesRead(work[t])
      /\ \A o \in bids[t] \cup asks[t] : PriceRead(o)
  BY DEF PriceInv, TypeOK
<1>2. PricesRead(pending'[t])
  <2>1. CASE pending'[t] = pending[t]
    BY <1>1, <2>1
  <2>2. CASE MatchBestOrders(t)
    <3>1. PICK bid, ask, newBid, newAsk \in Order : Matches(t, bid, ask, newBid, newAsk)
      BY <2>2, MatchEffect
    <3>2. PriceRead(newBid) /\ PriceRead(newAsk)
      BY <1>1, <3>1 DEF Matches, Trades, PriceRead
    <3> DEFINE fb == FillReport(newBid)
               fa == FillReport(newAsk)
    <3>3. /\ fb \in Report /\ PriceRead(fb.order) /\ fa \in Report /\ PriceRead(fa.order)
      BY <3>2, FillReportType
    <3>4. pending'[t] = pending[t] \o <<fb, fa>>
      BY <3>1 DEF Matches, TypeOK
    <3> HIDE DEF fb, fa
    <3>5. pending'[t] = Append(Append(pending[t], fb), fa) /\ Append(pending[t], fb) \in Seq(Report)
      BY <1>1, <3>3, <3>4
    <3>6. PricesRead(Append(pending[t], fb))
      BY <1>1, <3>3, ReadQueue
    <3> QED
      BY <3>3, <3>5, <3>6, ReadQueue
  <2>3. CASE PushReport(t)
    <3>1. pending[t] # <<>> /\ pending'[t] = Tail(pending[t])
      BY <2>3 DEF PushReport, TypeOK
    <3> QED
      BY <1>1, <3>1, ReadQueue
  <2>4. CASE PushCanceled(t)
    <3>1. pending'[t] = <<>>
      BY <2>4 DEF PushCanceled, TypeOK
    <3> QED
      BY <3>1 DEF PricesRead
  <2>5. CASE StartCancel(t)
    <3> DEFINE request == Head(work[t]).order
               found == Find(t, request.side, Head(work[t]).orig, request.session)
    <3>1. PriceRead(request)
      BY <1>1, <2>5, ReadQueue DEF StartCancel
    <3>2. \A o \in found : PriceRead(o)
      BY <1>1 DEF Find
    <3>3. \/ \E o \in found : pending' = [pending EXCEPT ![t] = <<[order |-> o, status |-> "CANCELED"]>>]
          \/ pending' = [pending EXCEPT ![t] = <<[order |-> request, status |-> "REJECTED"]>>]
      BY <2>5 DEF StartCancel
    <3> HIDE DEF request, found
    <3>4. PICK r : PriceRead(r.order) /\ pending' = [pending EXCEPT ![t] = <<r>>]
      BY <3>1, <3>2, <3>3
    <3>5. pending'[t] = <<r>>
      BY <3>4 DEF TypeOK
    <3> QED
      BY <3>4, <3>5 DEF PricesRead
  <2>6. CASE StartNewOrder(t) \/ FinishMatching(t) \/ FinishTask(t)
    BY <2>1, <2>6 DEF StartNewOrder, FinishMatching, FinishTask
  <2> QED
    BY <2>1, <2>2, <2>3, <2>4, <2>5, <2>6, WorkerSteps DEF Acts
<1>3. PricesRead(out'[t])
  <2>1. CASE out'[t] = out[t]
    BY <1>1, <2>1
  <2>0. PricesRead(<<>>)
    BY DEF PricesRead
  <2>2. CASE PushAccepted
    <3>1. CASE reactor.symbol = t
      <4> DEFINE r == [order |-> reactor.task.order, status |-> "ACCEPTED"]
      <4>1. r \in Report /\ PriceRead(r.order)
        BY <2>2, ReactorBusy DEF PushAccepted, Report, OrderStatus, PriceInv
      <4>2. out'[t] \in {<<>>, Append(out[t], r)}
        BY <2>2, <3>1 DEF PushAccepted, Push, TypeOK
      <4> HIDE DEF r
      <4> QED
        BY <1>1, <2>0, <4>1, <4>2, ReadQueue
    <3>2. CASE reactor.symbol # t
      BY <2>1, <2>2, <3>2 DEF PushAccepted, Push, TypeOK
    <3> QED
      BY <3>1, <3>2
  <2>3. CASE PushReport(t) \/ PushCanceled(t)
    <3>1. pending[t] # <<>> /\ Push("worker", t, Head(pending[t]))
      BY <2>3 DEF PushReport, PushCanceled, CancelInv
    <3>2. Head(pending[t]) \in Report
      BY <1>1, <3>1
    <3>3. out'[t] \in {<<>>, Append(out[t], Head(pending[t]))}
      BY <3>1 DEF Push, TypeOK
    <3> QED
      BY <1>1, <2>0, <3>1, <3>2, <3>3, ReadQueue
  <2>4. CASE ProcessOutgoing(t)
    <3>1. out[t] # <<>> /\ out'[t] = Tail(out[t])
      BY <2>4, Outgoing
    <3> QED
      BY <1>1, <3>1, ReadQueue
  <2>5. CASE Receive \/ SubmitTask \/ UNCHANGED vars
    BY <2>1, <2>5 DEF Receive, ReceiveNewOrder, ReceiveCancel, SubmitTask, outVars, vars
  <2>6. ASSUME NEW s \in Symbols, Acts(s) \/ ProcessOutgoing(s)
        PROVE  out'[t] = out[t] \/ PushReport(t) \/ PushCanceled(t) \/ ProcessOutgoing(t)
    BY <2>6 DEF Acts, StartNewOrder, MatchBestOrders, FinishMatching, PushReport, FinishTask,
                StartCancel, PushCanceled, Push, ProcessOutgoing, outVars, TypeOK
  <2>7. ASSUME NEW s \in Symbols, NEW u, LoadTail(u, s) \/ TryPushFails(u, s)
        PROVE  PricesRead(out'[t])
    BY <2>0, <2>1, <2>7, TryEffect
  <2> QED
    BY <2>1, <2>2, <2>3, <2>4, <2>5, <2>6, <2>7 DEF Next, Reactor, Worker, Acts, Poll
<1> QED
  BY <1>2, <1>3

(* Dropping decimals loses less than one unit. *)
LEMMA ParsePriceBounds ==
  ASSUME NEW p \in Nat
  PROVE  /\ ParsePrice(p) \in Int
         /\ ParsePrice(p) * TicksPerUnit <= p
         /\ ParsePrice(p) * TicksPerUnit > p - TicksPerUnit
  BY ConstantsAssumption DEF ParsePrice

(* Multiplication keeps the order. *)
LEMMA ScaledPrices ==
  ASSUME NEW a \in Int, NEW b \in Int, a <= b
  PROVE  a * TicksPerUnit \in Int /\ b * TicksPerUnit \in Int /\ a * TicksPerUnit <= b * TicksPerUnit
  BY ConstantsAssumption

(* No buyer is told of a fill above the limit it sent, no seller of one a  *)
(* whole unit below it: reading the price as an integer costs no more.     *)
THEOREM FillsStayNearLimit == Spec => []FillsNearClientLimit
<1>1. Init => PriceInv
  <2> SUFFICES ASSUME Init PROVE PriceInv
    OBVIOUS
  <2>1. \A s \in Symbols : /\ work[s] = <<>> /\ pending[s] = <<>> /\ out[s] = <<>>
                           /\ bids[s] = {} /\ asks[s] = {}
    BY DEF Init
  <2>2. reactor = Idle
    BY DEF Init
  <2> QED
    BY <2>1, <2>2 DEF PriceInv, PricesRead
<1>2. IInv /\ PriceInv /\ [Next]_vars => PriceInv'
  <2> SUFFICES ASSUME IInv, PriceInv, [Next]_vars PROVE PriceInv'
    OBVIOUS
  <2>1. TypeOK /\ CancelInv
    BY DEF IInv
  <2>2. reactor' # Idle => PriceRead(reactor'.task.order)
    BY <2>1, PriceReactor
  <2>3. ASSUME NEW t \in Symbols
        PROVE  /\ \A o \in bids'[t] \cup asks'[t] : PriceRead(o)
               /\ PricesRead(work'[t]) /\ PricesRead(pending'[t]) /\ PricesRead(out'[t])
    BY <2>1, PriceBook, PriceReports
  <2> QED
    BY <2>2, <2>3 DEF PriceInv, PriceRead, PricesRead
<1>3. IInv /\ PriceInv => FillsNearClientLimit
  <2> SUFFICES ASSUME IInv, PriceInv, NEW s \in Symbols, NEW i \in 1 .. Len(out[s]),
                      out[s][i].order.executed > 0
               PROVE  LET o == out[s][i].order
                      IN  IF o.side = "BUY" THEN o.lastPrice * TicksPerUnit <= o.limit
                          ELSE o.lastPrice * TicksPerUnit > o.limit - TicksPerUnit
    BY DEF FillsNearClientLimit
  <2> DEFINE o == out[s][i].order
  <2>1. o \in Order
    <3>1. out[s] \in Seq(Report)
      BY DEF IInv, TypeOK
    <3>2. out[s][i] \in Report
      BY <3>1
    <3> QED
      BY <3>2 DEF Report
  <2>2. OrderSane(o) /\ PriceRead(o)
    BY DEF IInv, NoOverfill, PriceInv, PricesRead
  <2> HIDE DEF o
  <2>3. o.limit \in Nat /\ o.price \in Int /\ o.lastPrice \in Int /\ o.executed > 0
    BY <2>1 DEF Order, o
  <2>4. IF o.side = "BUY" THEN o.lastPrice <= o.price ELSE o.price <= o.lastPrice
    BY <2>2, <2>3 DEF OrderSane
  <2>5. o.price * TicksPerUnit <= o.limit /\ o.price * TicksPerUnit > o.limit - TicksPerUnit
    BY <2>2, <2>3, ParsePriceBounds DEF PriceRead
  <2>6. o.price * TicksPerUnit \in Int /\ o.lastPrice * TicksPerUnit \in Int /\ TicksPerUnit \in Int
    BY <2>3, ConstantsAssumption
  <2> DEFINE last == o.lastPrice * TicksPerUnit
             price == o.price * TicksPerUnit
             limit == o.limit
  <2>7. CASE o.side = "BUY"
    <3>1. last <= price
      BY <2>3, <2>4, <2>7, ScaledPrices
    <3>2. /\ last \in Int /\ price \in Int /\ limit \in Int /\ price <= limit
      BY <2>3, <2>5, <2>6
    <3> HIDE DEF last, price, limit
    <3>3. last <= limit
      BY <3>1, <3>2
    <3> QED
      BY <2>7, <3>3 DEF o, last, limit
  <2>8. CASE o.side # "BUY"
    <3>1. price <= last
      BY <2>3, <2>4, <2>8, ScaledPrices
    <3>2. /\ last \in Int /\ price \in Int /\ limit - TicksPerUnit \in Int
          /\ price > limit - TicksPerUnit
      BY <2>3, <2>5, <2>6
    <3> HIDE DEF last, price, limit
    <3>3. last > limit - TicksPerUnit
      BY <3>1, <3>2
    <3> QED
      BY <2>8, <3>3 DEF o, last, limit
  <2> QED
    BY <2>7, <2>8
<1> QED
  BY <1>1, <1>2, <1>3, InvInit, InvNext, PTL DEF Spec
-----------------------------------------------------------------------------
(* Conservation. Shares(S) is a fold over a set. What it computes is       *)
(* proved by a least counterexample: the smallest number of elements for   *)
(* which a claim fails.                                                    *)

(* The element the fold takes first *)
Some(S) == CHOOSE x \in S : TRUE

(* The equation of the fold *)
Adds(g, S) ==
  g = [T \in SUBSET S |-> IF T = {} THEN 0 ELSE Some(T).executed + g[T \ {Some(T)}]]

LEMMA SharesAdds ==
  ASSUME NEW S, \E g : Adds(g, S)
  PROVE  \E g : Adds(g, S) /\ Shares(S) = g[S]
  BY DEF Adds, Some, Shares, MapThenSumSet, MapThenFoldSet

Below == {p \in Nat \X Nat : p[1] < p[2]}

LEMMA LeastExists ==
  ASSUME NEW S, S \subseteq Nat, S # {}
  PROVE  \E x \in S : \A y \in S : x <= y
<1>1. Below = OpToRel(<, Nat)
  BY Zenon DEF Below, OpToRel
<1>2. IsWellFoundedOn(Below, Nat)
  BY <1>1, NatLessThanWellFounded, Zenon
<1>3. PICK x \in S : \A y \in S : ~(<<y, x>> \in Below)
  BY <1>2, WFMin
<1>4. ASSUME NEW y \in S PROVE x <= y
  <2>1. x \in Nat /\ y \in Nat /\ <<y, x>> \in Nat \X Nat
    BY <1>3, <1>4
  <2>2. ~(y < x)
    BY <1>3, <1>4, <2>1 DEF Below
  <2> QED
    BY <2>1, <2>2
<1> QED
  BY <1>3, <1>4

(* One element less *)
LEMMA OneLess ==
  ASSUME NEW S, IsFiniteSet(S), NEW x \in S
  PROVE  /\ IsFiniteSet(S \ {x}) /\ Cardinality(S) \in Nat /\ Cardinality(S \ {x}) \in Nat
         /\ Cardinality(S) = Cardinality(S \ {x}) + 1
<1>1. Cardinality(S) \in Nat
  BY FS_CardinalityType
<1>2. IsFiniteSet(S \ {x}) /\ Cardinality(S \ {x}) = Cardinality(S) - 1
  BY FS_RemoveElement
<1>3. Cardinality(S \ {x}) \in Nat
  BY <1>2, FS_CardinalityType
<1> QED
  BY <1>1, <1>2, <1>3

LEMMA SomeFacts ==
  ASSUME NEW S, S # {}
  PROVE  Some(S) \in S
  BY DEF Some

(* The equation of the sum for the sets of at most n elements *)
AddsUpTo(g, S, n) ==
  \A T \in SUBSET S : Cardinality(T) <= n =>
    g[T] = IF T = {} THEN 0 ELSE Some(T).executed + g[T \ {Some(T)}]

LEMMA AddsExists ==
  ASSUME NEW S, IsFiniteSet(S)
  PROVE  \E g : Adds(g, S)
<1> DEFINE D == {n \in Nat : ~ \E g : AddsUpTo(g, S, n)}
<1>1. ASSUME NEW n \in Nat PROVE \E g : AddsUpTo(g, S, n)
  <2> SUFFICES ASSUME n \in D PROVE FALSE
    OBVIOUS
  <2>1. PICK m \in D : \A k \in D : m <= k
    <3>1. D \subseteq Nat /\ D # {}
      OBVIOUS
    <3> HIDE DEF D
    <3> QED
      BY <3>1, LeastExists
  <2>2. m \in Nat /\ ~ \E g : AddsUpTo(g, S, m)
    OBVIOUS
  <2>3. CASE m = 0
    <3> DEFINE g == [T \in SUBSET S |-> 0]
    <3>1. ASSUME NEW T \in SUBSET S, Cardinality(T) <= 0 PROVE T = {}
      <4>1. IsFiniteSet(T)
        BY FS_Subset
      <4>2. Cardinality(T) \in Nat
        BY <4>1, FS_CardinalityType
      <4>3. Cardinality(T) = 0
        BY <3>1, <4>2
      <4> QED
        BY <4>1, <4>3, FS_EmptySet
    <3>2. \A T \in SUBSET S : g[T] = 0
      OBVIOUS
    <3> HIDE DEF g
    <3>3. AddsUpTo(g, S, 0)
      BY <3>1, <3>2 DEF AddsUpTo
    <3> QED
      BY <2>2, <2>3, <3>3
  <2>4. CASE m # 0
    <3>1. m - 1 \in Nat /\ ~(m <= m - 1)
      BY <2>2, <2>4
    <3>2. PICK f : AddsUpTo(f, S, m - 1)
      BY <2>1, <3>1
    <3> DEFINE g == [T \in SUBSET S |-> IF Cardinality(T) <= m - 1 THEN f[T]
                                        ELSE Some(T).executed + f[T \ {Some(T)}]]
    <3>3. ASSUME NEW T \in SUBSET S, Cardinality(T) <= m
          PROVE  g[T] = IF T = {} THEN 0 ELSE Some(T).executed + g[T \ {Some(T)}]
      <4> DEFINE R == T \ {Some(T)}
      <4>1. IsFiniteSet(T)
        BY FS_Subset
      <4>2. CASE T = {}
        <5>1. Cardinality(T) <= m - 1
          BY <3>1, <4>2, FS_EmptySet
        <5>2. f[T] = 0
          BY <3>2, <4>2, <5>1 DEF AddsUpTo
        <5> QED
          BY <4>2, <5>1, <5>2
      <4>3. CASE T # {}
        <5>1. Cardinality(T) = Cardinality(R) + 1 /\ Cardinality(R) \in Nat
          BY <4>1, <4>3, OneLess, SomeFacts
        <5>2. Cardinality(R) <= m - 1 /\ R \in SUBSET S
          BY <2>2, <3>3, <5>1
        <5>3. g[R] = f[R]
          BY <5>2
        <5>4. CASE Cardinality(T) <= m - 1
          <6>1. f[T] = Some(T).executed + f[R]
            BY <3>2, <4>3, <5>4 DEF AddsUpTo
          <6>2. g[T] = f[T]
            BY <5>4
          <6> HIDE DEF g, R
          <6> QED
            BY <4>3, <5>3, <6>1, <6>2 DEF R
        <5>5. CASE ~(Cardinality(T) <= m - 1)
          <6>1. g[T] = Some(T).executed + f[R]
            BY <5>5
          <6> HIDE DEF g, R
          <6> QED
            BY <4>3, <5>3, <6>1 DEF R
        <5> QED
          BY <5>4, <5>5
      <4> QED
        BY <4>2, <4>3
    <3> HIDE DEF g
    <3>4. AddsUpTo(g, S, m)
      BY <3>3 DEF AddsUpTo
    <3> QED
      BY <2>2, <3>4
  <2> QED
    BY <2>3, <2>4
<1>2. Cardinality(S) \in Nat
  BY FS_CardinalityType
<1>3. PICK g : AddsUpTo(g, S, Cardinality(S))
  BY <1>1, <1>2
<1> DEFINE h == [T \in SUBSET S |-> g[T]]
<1>4. ASSUME NEW T \in SUBSET S
      PROVE  h[T] = IF T = {} THEN 0 ELSE Some(T).executed + h[T \ {Some(T)}]
  <2>1. Cardinality(T) <= Cardinality(S)
    BY FS_Subset
  <2>2. g[T] = IF T = {} THEN 0 ELSE Some(T).executed + g[T \ {Some(T)}]
    BY <1>3, <2>1 DEF AddsUpTo
  <2>3. T \ {Some(T)} \in SUBSET S
    OBVIOUS
  <2>4. h[T] = g[T] /\ h[T \ {Some(T)}] = g[T \ {Some(T)}]
    BY <2>3
  <2> HIDE DEF h
  <2> QED
    BY <2>2, <2>4
<1>5. h = [T \in SUBSET S |-> h[T]]
  OBVIOUS
<1> HIDE DEF h
<1>6. Adds(h, S)
  BY <1>4, <1>5 DEF Adds
<1> QED
  BY <1>6

(* The sums of two sets agree on their common subsets. *)
LEMMA AddsAgree ==
  ASSUME NEW S, IsFiniteSet(S), NEW T \in SUBSET S, NEW g, Adds(g, S), NEW h, Adds(h, T)
  PROVE  g[T] = h[T]
<1> DEFINE D == {n \in Nat : \E R \in SUBSET T : Cardinality(R) = n /\ g[R] # h[R]}
<1>1. /\ \A R \in SUBSET S : g[R] = IF R = {} THEN 0 ELSE Some(R).executed + g[R \ {Some(R)}]
      /\ \A R \in SUBSET T : h[R] = IF R = {} THEN 0 ELSE Some(R).executed + h[R \ {Some(R)}]
  BY DEF Adds
<1>2. \A R \in SUBSET T : R \in SUBSET S /\ IsFiniteSet(R) /\ Cardinality(R) \in Nat
  BY FS_Subset, FS_CardinalityType
<1>3. D = {}
  <2> SUFFICES ASSUME D # {} PROVE FALSE
    OBVIOUS
  <2>1. PICK n \in D : \A k \in D : n <= k
    <3>1. D \subseteq Nat
      OBVIOUS
    <3> HIDE DEF D
    <3> QED
      BY <3>1, LeastExists
  <2>2. PICK R \in SUBSET T : Cardinality(R) = n /\ g[R] # h[R]
    OBVIOUS
  <2>3. R \in SUBSET S /\ IsFiniteSet(R)
    BY <1>2
  <2>4. R # {}
    BY <1>1, <2>2, <2>3
  <2> DEFINE Q == R \ {Some(R)}
  <2>5. Cardinality(R) = Cardinality(Q) + 1 /\ Cardinality(Q) \in Nat
    BY <2>3, <2>4, OneLess, SomeFacts
  <2>6. Q \in SUBSET T /\ ~(n <= Cardinality(Q))
    BY <2>2, <2>5
  <2>7. g[Q] = h[Q]
    BY <2>1, <2>5, <2>6
  <2>8. g[R] = Some(R).executed + g[Q] /\ h[R] = Some(R).executed + h[Q]
    BY <1>1, <2>3, <2>4
  <2> HIDE DEF Q
  <2> QED
    BY <2>2, <2>7, <2>8
<1>4. T \in SUBSET T /\ Cardinality(T) \in Nat
  BY <1>2
<1> QED
  BY <1>3, <1>4

(* The shares of a set are those of some element and those of the others. *)
LEMMA SharesStep ==
  ASSUME NEW S, IsFiniteSet(S)
  PROVE  /\ S = {} => Shares(S) = 0
         /\ S # {} => Shares(S) = Some(S).executed + Shares(S \ {Some(S)})
<1>1. PICK g : Adds(g, S) /\ Shares(S) = g[S]
  BY AddsExists, SharesAdds
<1>2. S = {} => Shares(S) = 0
  BY <1>1 DEF Adds
<1>3. ASSUME S # {} PROVE Shares(S) = Some(S).executed + Shares(S \ {Some(S)})
  <2> DEFINE T == S \ {Some(S)}
  <2>1. T \in SUBSET S /\ IsFiniteSet(T)
    BY FS_Subset
  <2> HIDE DEF T
  <2>2. PICK h : Adds(h, T) /\ Shares(T) = h[T]
    BY <2>1, AddsExists, SharesAdds
  <2>3. g[T] = h[T]
    BY <1>1, <2>1, <2>2, AddsAgree
  <2>4. g[S] = Some(S).executed + g[T]
    BY <1>1, <1>3 DEF Adds, T
  <2> QED
    BY <1>1, <2>2, <2>3, <2>4 DEF T
<1> QED
  BY <1>2, <1>3

(* Shares are whole, and it does not matter which order is counted first. *)
LEMMA SharesRemove ==
  ASSUME NEW S \in SUBSET Order, IsFiniteSet(S)
  PROVE  Shares(S) \in Int /\ \A x \in S : Shares(S) = x.executed + Shares(S \ {x})
<1> DEFINE Good(T) == Shares(T) \in Int /\ \A x \in T : Shares(T) = x.executed + Shares(T \ {x})
           D == {n \in Nat : \E T \in SUBSET S : Cardinality(T) = n /\ ~Good(T)}
<1>0. \A x \in S : x.executed \in Int
  BY DEF Order
<1>1. \A T \in SUBSET S : IsFiniteSet(T) /\ Cardinality(T) \in Nat
  BY FS_Subset, FS_CardinalityType
<1>2. D = {}
  <2> SUFFICES ASSUME D # {} PROVE FALSE
    OBVIOUS
  <2>1. PICK n \in D : \A k \in D : n <= k
    <3>1. D \subseteq Nat
      OBVIOUS
    <3> HIDE DEF D
    <3> QED
      BY <3>1, LeastExists
  <2>2. PICK T \in SUBSET S : Cardinality(T) = n /\ ~Good(T)
    OBVIOUS
  <2>3. ASSUME NEW x \in T
        PROVE  T \ {x} \in SUBSET S /\ Good(T \ {x})
    <3> DEFINE R == T \ {x}
    <3>1. Cardinality(T) = Cardinality(R) + 1 /\ Cardinality(R) \in Nat
      BY <1>1, <2>3, OneLess
    <3>2. R \in SUBSET S /\ ~(n <= Cardinality(R))
      BY <2>2, <3>1
    <3>3. Cardinality(R) \notin D
      BY <2>1, <3>2
    <3> HIDE DEF R, Good
    <3>4. Good(R)
      BY <3>1, <3>2, <3>3
    <3> QED
      BY <3>2, <3>4 DEF R
  <2>4. CASE T = {}
    <3>1. Shares(T) = 0
      BY <1>1, <2>4, SharesStep
    <3> QED
      BY <2>2, <2>4, <3>1
  <2>5. CASE T # {}
    <3> DEFINE y == Some(T)
               R == T \ {y}
    <3>1. y \in T /\ Shares(T) = y.executed + Shares(R)
      BY <1>1, <2>5, SharesStep, SomeFacts
    <3> HIDE DEF y
    <3>2. Good(R)
      BY <2>3, <3>1
    <3>3. y.executed \in Int /\ Shares(R) \in Int
      BY <1>0, <3>1, <3>2
    <3>4. Shares(T) \in Int
      BY <3>1, <3>3
    <3>5. ASSUME NEW x \in T PROVE Shares(T) = x.executed + Shares(T \ {x})
      <4>1. CASE x = y
        BY <3>1, <4>1
      <4>2. CASE x # y
        <5> DEFINE Q == T \ {x}
                   P == R \ {x}
        <5>1. x \in R /\ y \in Q /\ Q \ {y} = P
          BY <3>1, <3>5, <4>2
        <5>2. Shares(R) = x.executed + Shares(P)
          BY <3>2, <5>1
        <5>3. Good(Q)
          BY <2>3, <3>5
        <5>4. Shares(Q) = y.executed + Shares(P)
          BY <5>1, <5>3
        <5>5. Shares(P) \in Int
          <6>1. P \in SUBSET S /\ P = R \ {x}
            OBVIOUS
          <6>2. Cardinality(T) = Cardinality(R) + 1 /\ Cardinality(R) \in Nat
            BY <1>1, <3>1, OneLess
          <6>3. R \in SUBSET S /\ IsFiniteSet(R)
            BY <1>1
          <6>4. Cardinality(R) = Cardinality(P) + 1 /\ Cardinality(P) \in Nat
            BY <5>1, <6>3, OneLess
          <6>5. ~(n <= Cardinality(P))
            BY <2>2, <6>2, <6>4
          <6>6. Cardinality(P) \notin D
            BY <2>1, <6>5
          <6> HIDE DEF P
          <6> QED
            BY <6>1, <6>4, <6>6
        <5>6. x.executed \in Int
          BY <1>0, <3>5
        <5> HIDE DEF P, Q, R
        <5>7. Shares(T) = x.executed + Shares(Q)
          BY <3>1, <3>3, <5>2, <5>4, <5>5, <5>6
        <5> QED
          BY <5>7 DEF Q
      <4> QED
        BY <4>1, <4>2
    <3> QED
      BY <2>2, <3>4, <3>5
  <2> QED
    BY <2>4, <2>5
<1>3. S \in SUBSET S /\ Cardinality(S) \in Nat
  BY <1>1
<1>4. Cardinality(S) \notin D
  BY <1>2
<1> QED
  BY <1>3, <1>4

(* A trade replaces an order by the same order with more executed. *)
LEMMA SharesReplaced ==
  ASSUME NEW S \in SUBSET Order, IsFiniteSet(S), NEW x \in S, NEW y \in Order, y \notin S \ {x}
  PROVE  /\ IsFiniteSet((S \ {x}) \cup {y})
         /\ Shares((S \ {x}) \cup {y}) = Shares(S) - x.executed + y.executed
<1> DEFINE R == S \ {x}
           T == R \cup {y}
<1>1. IsFiniteSet(R) /\ R \in SUBSET Order
  BY OneLess
<1>2. IsFiniteSet(T) /\ T \in SUBSET Order /\ T \ {y} = R /\ y \in T
  BY <1>1, FS_AddElement
<1>3. x.executed \in Int /\ y.executed \in Int
  BY DEF Order
<1> HIDE DEF T
<1>4. Shares(T) = y.executed + Shares(R)
  BY <1>2, SharesRemove
<1>5. Shares(S) = x.executed + Shares(R)
  BY SharesRemove
<1> HIDE DEF R
<1>6. Shares(R) \in Int
  BY <1>1, SharesRemove
<1>7. Shares(T) = Shares(S) - x.executed + y.executed
  BY <1>3, <1>4, <1>5, <1>6
<1> QED
  BY <1>2, <1>7 DEF T, R

(* An order that has not traded adds nothing. *)
LEMMA SharesInserted ==
  ASSUME NEW S \in SUBSET Order, IsFiniteSet(S), NEW y \in Order, y.executed = 0
  PROVE  IsFiniteSet(S \cup {y}) /\ Shares(S \cup {y}) = Shares(S)
<1>1. IsFiniteSet(S \cup {y}) /\ S \cup {y} \in SUBSET Order
  BY FS_AddElement
<1>2. CASE y \in S
  <2>1. S \cup {y} = S
    BY <1>2
  <2> QED
    BY <1>1, <2>1
<1>3. CASE y \notin S
  <2>1. (S \cup {y}) \ {y} = S /\ y \in S \cup {y}
    BY <1>3
  <2>2. Shares(S \cup {y}) = y.executed + Shares((S \cup {y}) \ {y})
    BY <1>1, <2>1, SharesRemove
  <2>3. Shares(S) \in Int
    BY SharesRemove
  <2> QED
    BY <1>1, <2>1, <2>2, <2>3
<1> QED
  BY <1>2, <1>3

(* The orders on the two sides of the trades in s *)
Buyers(s) == {o \in Known(s) : o.side = "BUY"}

Sellers(s) == {o \in Known(s) : o.side # "BUY"}

(* Only orders that were accepted get to a book. *)
FiniteInv == \A s \in Symbols : IsFiniteSet(Known(s))

(* What a step does to the orders a book holds or held: nothing, an        *)
(* insertion of one that has not traded, or a trade of one with another.   *)
LEMMA KnownNext ==
  ASSUME TypeOK, SideInv, QuantityInv, OnceInv, [Next]_vars, NEW t \in Symbols
  PROVE  \/ Known(t)' = Known(t)
         \/ \E x \in Order : x.executed = 0 /\ Known(t)' = Known(t) \cup {x}
         \/ \E bid, ask, newBid, newAsk \in Order, q \in Int :
              /\ bid \in Buyers(t) /\ ask \in Sellers(t)
              /\ newBid.side = "BUY" /\ newAsk.side # "BUY"
              /\ newBid.executed = bid.executed + q /\ newAsk.executed = ask.executed + q
              /\ newBid \notin Known(t) \ {bid} /\ newAsk \notin Known(t) \ {ask}
              /\ Known(t)' = (Known(t) \ {bid, ask}) \cup {newBid, newAsk}
<1>0. /\ \A a, b \in Known(t) : a.id = b.id => a = b
      /\ left[t] \cap (bids[t] \cup asks[t]) = {}
  BY DEF OnceInv
<1>1. CASE bids'[t] = bids[t] /\ asks'[t] = asks[t] /\ left'[t] = left[t]
  BY <1>1 DEF Known
<1>2. CASE StartNewOrder(t)
  <2>1. PICK x \in Order : Inserts(t, x)
    BY <1>2, InsertEffect
  <2>2. 1 \in 1 .. Len(work[t]) /\ work[t][1] = Head(work[t])
    BY <1>2 DEF StartNewOrder, TypeOK
  <2>3. x.executed = 0
    BY <2>1, <2>2 DEF Inserts, QuantityInv, TasksSane, TaskSane, Untraded
  <2>4. bids'[t] \cup asks'[t] = bids[t] \cup asks[t] \cup {x} /\ left' = left
    BY <1>2, <2>1 DEF Inserts, TypeOK, StartNewOrder
  <2>5. Known(t)' = Known(t) \cup {x}
    BY <2>4 DEF Known
  <2> QED
    BY <2>3, <2>5
<1>3. CASE MatchBestOrders(t)
  <2>1. PICK bid, ask, newBid, newAsk \in Order : Matches(t, bid, ask, newBid, newAsk)
    BY <1>3, MatchEffect
  <2> DEFINE q == MatchQuantity(bid, ask)
  <2>2. /\ bid \in bids[t] /\ ask \in asks[t] /\ bid # ask
        /\ \A o : o \in bids'[t] \cup asks'[t] <=>
             \/ o \in (bids[t] \cup asks[t]) \ {bid, ask}
             \/ o \in {newBid, newAsk} /\ ~IsFilled(o)
        /\ \A o : o \in left'[t] <=> o \in left[t] \/ (o \in {newBid, newAsk} /\ IsFilled(o))
    BY <2>1, MatchOrders
  <2>3. /\ newBid.id = bid.id /\ newAsk.id = ask.id
        /\ newBid.side = bid.side /\ newAsk.side = ask.side
        /\ newBid.executed = bid.executed + q /\ newAsk.executed = ask.executed + q
    BY <2>1 DEF Matches, Trades
  <2>4. q \in Int
    BY DEF Order, MatchQuantity
  <2>5. bid.side = "BUY" /\ ask.side # "BUY" /\ bid \in Known(t) /\ ask \in Known(t)
    BY <2>2 DEF SideInv, Known
  <2>6. bid \notin left[t] /\ ask \notin left[t]
    BY <1>0, <2>2
  <2>7. newBid \notin Known(t) \ {bid} /\ newAsk \notin Known(t) \ {ask}
    BY <1>0, <2>3, <2>5
  <2>8. Known(t)' = (Known(t) \ {bid, ask}) \cup {newBid, newAsk}
    BY <2>2, <2>6 DEF Known
  <2>9. bid \in Buyers(t) /\ ask \in Sellers(t)
    BY <2>5 DEF Buyers, Sellers
  <2> HIDE DEF q
  <2> QED
    BY <2>3, <2>4, <2>5, <2>7, <2>8, <2>9
<1>4. CASE PushCanceled(t)
  <2> DEFINE erased == Erased(t, Head(pending[t]).order)
  <2>1. erased \subseteq bids[t] \cup asks[t]
    BY DEF Erased, Find
  <2>2. /\ bids'[t] = bids[t] \ erased /\ asks'[t] = asks[t] \ erased
        /\ left'[t] = left[t] \cup erased
    BY <1>4 DEF PushCanceled, TypeOK
  <2> HIDE DEF erased
  <2>3. Known(t)' = Known(t)
    BY <2>1, <2>2 DEF Known
  <2> QED
    BY <2>3
<1>5. CASE FinishMatching(t) \/ PushReport(t) \/ FinishTask(t) \/ StartCancel(t)
  BY <1>1, <1>5 DEF FinishMatching, PushReport, FinishTask, StartCancel, bookVars
<1> QED
  BY <1>1, <1>2, <1>3, <1>4, <1>5, WorkerSteps DEF Acts

LEMMA SharesNext ==
  ASSUME TypeOK, SideInv, QuantityInv, OnceInv, FiniteInv, [Next]_vars, NEW t \in Symbols,
         Shares(Buyers(t)) = Shares(Sellers(t))
  PROVE  IsFiniteSet(Known(t)') /\ Shares(Buyers(t)') = Shares(Sellers(t)')
<1> DEFINE K == Known(t)
           B == Buyers(t)
           S == Sellers(t)
<1>1. IsFiniteSet(K) /\ K \in SUBSET Order
  BY DEF FiniteInv, Known, TypeOK
<1>2. B \in SUBSET K /\ S \in SUBSET K
  BY DEF Buyers, Sellers
<1>3. IsFiniteSet(B) /\ IsFiniteSet(S) /\ B \in SUBSET Order /\ S \in SUBSET Order
  <2> HIDE DEF K, B, S
  <2> QED
    BY <1>1, <1>2, FS_Subset
<1>4. CASE Known(t)' = Known(t)
  <2>1. Buyers(t)' = Buyers(t) /\ Sellers(t)' = Sellers(t)
    BY <1>4 DEF Buyers, Sellers
  <2> QED
    BY <1>1, <1>4, <2>1
<1>5. ASSUME NEW x \in Order, x.executed = 0, Known(t)' = Known(t) \cup {x}
      PROVE  IsFiniteSet(Known(t)') /\ Shares(Buyers(t)') = Shares(Sellers(t)')
  <2>1. IsFiniteSet(Known(t)')
    BY <1>1, <1>5, FS_AddElement
  <2>2. CASE x.side = "BUY"
    <3>1. Buyers(t)' = B \cup {x} /\ Sellers(t)' = S
      BY <1>5, <2>2 DEF Buyers, Sellers
    <3>2. Shares(B \cup {x}) = Shares(B)
      BY <1>3, <1>5, SharesInserted
    <3> QED
      BY <2>1, <3>1, <3>2
  <2>3. CASE x.side # "BUY"
    <3>1. Buyers(t)' = B /\ Sellers(t)' = S \cup {x}
      BY <1>5, <2>3 DEF Buyers, Sellers
    <3>2. Shares(S \cup {x}) = Shares(S)
      BY <1>3, <1>5, SharesInserted
    <3> QED
      BY <2>1, <3>1, <3>2
  <2> QED
    BY <2>2, <2>3
<1>6. ASSUME NEW bid \in Order, NEW ask \in Order, NEW newBid \in Order, NEW newAsk \in Order,
             NEW q \in Int, bid \in Buyers(t), ask \in Sellers(t),
             newBid.side = "BUY", newAsk.side # "BUY",
             newBid.executed = bid.executed + q, newAsk.executed = ask.executed + q,
             newBid \notin Known(t) \ {bid}, newAsk \notin Known(t) \ {ask},
             Known(t)' = (Known(t) \ {bid, ask}) \cup {newBid, newAsk}
      PROVE  IsFiniteSet(Known(t)') /\ Shares(Buyers(t)') = Shares(Sellers(t)')
  <2>1. bid \in Known(t) /\ bid.side = "BUY" /\ ask \in Known(t) /\ ask.side # "BUY"
    BY <1>6 DEF Buyers, Sellers
  <2>2. Buyers(t)' = (B \ {bid}) \cup {newBid}
    BY <1>6, <2>1 DEF Buyers
  <2>3. Sellers(t)' = (S \ {ask}) \cup {newAsk}
    BY <1>6, <2>1 DEF Sellers
  <2>4. newBid \notin B \ {bid} /\ newAsk \notin S \ {ask}
    BY <1>6 DEF Buyers, Sellers
  <2> HIDE DEF B, S
  <2>5. bid \in B /\ ask \in S
    BY <1>6 DEF B, S
  <2>6. Shares((B \ {bid}) \cup {newBid}) = Shares(B) - bid.executed + newBid.executed
    BY <1>3, <1>6, <2>4, <2>5, SharesReplaced
  <2>7. Shares((S \ {ask}) \cup {newAsk}) = Shares(S) - ask.executed + newAsk.executed
    BY <1>3, <1>6, <2>4, <2>5, SharesReplaced
  <2>8. Shares(B) \in Int /\ Shares(S) \in Int /\ Shares(B) = Shares(S)
    BY <1>3, SharesRemove DEF B, S
  <2>9. bid.executed \in Int /\ ask.executed \in Int
    BY <1>6 DEF Order
  <2>10. Shares(Buyers(t)') = Shares(Sellers(t)')
    BY <1>6, <2>2, <2>3, <2>6, <2>7, <2>8, <2>9
  <2>11. IsFiniteSet(Known(t)')
    <3>1. Known(t)' = ((Known(t) \ {bid, ask}) \cup {newBid}) \cup {newAsk}
      BY <1>6
    <3>2. IsFiniteSet(Known(t) \ {bid, ask})
      BY <1>1, FS_Subset
    <3>3. IsFiniteSet((Known(t) \ {bid, ask}) \cup {newBid})
      BY <3>2, FS_AddElement
    <3>4. IsFiniteSet(((Known(t) \ {bid, ask}) \cup {newBid}) \cup {newAsk})
      BY <3>3, FS_AddElement
    <3> QED
      BY <3>1, <3>4
  <2> QED
    BY <2>10, <2>11
<1> QED
  BY <1>4, <1>5, <1>6, KnownNext

(* Matching neither makes nor loses shares: in every book, over all orders *)
(* it has ever held, as many shares were bought as were sold.              *)
THEOREM SharesNeverLost == Spec => []SharesConserved
<1> DEFINE Inv == IInv /\ OnceInv /\ FiniteInv /\ SharesConserved
<1>1. SharesConserved = \A s \in Symbols : Shares(Buyers(s)) = Shares(Sellers(s))
  BY DEF SharesConserved, Buyers, Sellers, Known
<1>2. Init => Inv
  <2> SUFFICES ASSUME Init PROVE Inv
    OBVIOUS
  <2>1. \A s \in Symbols : Known(s) = {} /\ left[s] = {}
    BY DEF Init, Known
  <2>2. OnceInv
    BY <2>1 DEF OnceInv
  <2>3. FiniteInv
    BY <2>1, FS_EmptySet DEF FiniteInv
  <2>4. \A s \in Symbols : Buyers(s) = {} /\ Sellers(s) = {}
    BY <2>1 DEF Buyers, Sellers
  <2>5. SharesConserved
    BY <1>1, <2>4
  <2> QED
    BY <2>2, <2>3, <2>5, InvInit
<1>3. Inv /\ [Next]_vars => Inv'
  <2> SUFFICES ASSUME Inv, [Next]_vars PROVE Inv'
    OBVIOUS
  <2>1. TypeOK /\ SideInv /\ QuantityInv /\ IdInv
    BY DEF IInv
  <2>2. IInv'
    BY InvNext
  <2>3. OnceInv'
    BY <2>1, OnceNext
  <2>4. ASSUME NEW t \in Symbols
        PROVE  IsFiniteSet(Known(t)') /\ Shares(Buyers(t)') = Shares(Sellers(t)')
    BY <1>1, <2>1, SharesNext
  <2>5. FiniteInv'
    BY <2>4 DEF FiniteInv
  <2>6. SharesConserved'
    BY <2>4 DEF SharesConserved, Buyers, Sellers, Known
  <2> QED
    BY <2>2, <2>3, <2>5, <2>6
<1>4. Inv => SharesConserved
  OBVIOUS
<1> QED
  BY <1>2, <1>3, <1>4, PTL DEF Spec
=============================================================================
