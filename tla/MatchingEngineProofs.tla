------------------------ MODULE MatchingEngineProofs ------------------------
(***************************************************************************)
(* Safety of the matching layer for every number of symbols, sessions,     *)
(* orders and cancels, all prices and quantities and all queue capacities. *)
(***************************************************************************)
EXTENDS MatchingEngine, TLAPS

(* The new orders on their way: in the work queue, in the reactor. *)
NewInWork(s, k) == k \in 1 .. Len(work[s]) /\ work[s][k].kind = "new"

NewInReactor == reactor # Idle /\ reactor.task.kind = "new"

(* The worker has a CANCELED report to push while it is canceling. *)
CancelInv == \A s \in Symbols : workerPc[s] = "canceling" => pending[s] # <<>>

(* The sides of a book hold the orders of that side. *)
SideInv ==
  \A s \in Symbols : /\ \A o \in bids[s] : o.side = "BUY"
                     /\ \A o \in asks[s] : o.side # "BUY"

(* Orders that cannot have traded yet. *)
Untraded(o) == OrderSane(o) /\ o.executed = 0

TaskSane(x) == Untraded(x.order) /\ (x.kind = "new" => x.order.open > 0)

TasksSane(q) == \A k \in 1 .. Len(q) : TaskSane(q[k])

ReportsSane(q) == \A k \in 1 .. Len(q) : OrderSane(q[k].order)

(* Every order, wherever it is, adds up; orders still to be inserted have  *)
(* not traded and have something to trade.                                 *)
QuantityInv ==
  /\ reactor # Idle => TaskSane(reactor.task)
  /\ \A s \in Symbols : TasksSane(work[s]) /\ ReportsSane(pending[s])

(* The orders a book holds or held. *)
Known(s) == bids[s] \cup asks[s] \cup left[s]

(* The number of orders that the reactor has submitted. *)
Submitted == IF NewInReactor THEN orderNumber - 1 ELSE orderNumber

(* The ids that have reached the worker of s are at most n. *)
IdsBelow(n, s) ==
  /\ \A o \in Known(s) : o.id <= n
  /\ \A k \in 1 .. Len(work[s]) : work[s][k].kind = "new" => work[s][k].order.id <= n

(* The work queue of s is in the order of the ids, after those of the book. *)
IdsOrdered(s) ==
  \A k \in 1 .. Len(work[s]) : work[s][k].kind = "new" =>
    /\ \A o \in Known(s) : o.id < work[s][k].order.id
    /\ \A j \in 1 .. k - 1 : work[s][j].kind = "new" =>
         work[s][j].order.id < work[s][k].order.id

(* Orders move through the reactor, the work queue and the book in the     *)
(* order of their ids.                                                     *)
IdInv ==
  /\ NewInReactor => reactor.task.order.id = orderNumber
  /\ \A s \in Symbols : IdsBelow(Submitted, s) /\ IdsOrdered(s)

(* Insertion order is the order of the ids. *)
ArrivalInv ==
  \A s \in Symbols :
    /\ \A o \in bids[s] \cup asks[s] : o.arrival <= inserted[s]
    /\ \A a, b \in bids[s] : a.id < b.id => a.arrival < b.arrival
    /\ \A a, b \in asks[s] : a.id < b.id => a.arrival < b.arrival

(* The inductive invariant. *)
IInv ==
  /\ TypeOK /\ CancelInv /\ SideInv /\ QuantityInv /\ NoOverfill
  /\ IdInv /\ ArrivalInv /\ BookUncrossed /\ PriceTimePriority
-----------------------------------------------------------------------------
(* Type correctness *)

(* The orders the code builds, numbers and trades are orders. *)
LEMMA NewOrderType ==
  ASSUME NEW id \in Nat, NEW c \in ClientIds, NEW n \in Sessions, NEW side \in OrderSide,
         NEW p \in Nat, NEW q \in Nat
  PROVE  NewOrder(id, c, n, side, p, q) \in Order
<1>1. ParsePrice(p) \in Int
  BY ConstantsAssumption DEF ParsePrice
<1>2. QED
  BY <1>1 DEF Order, NewOrder

(* Order::execute changes the quantities and the last price only. *)
LEMMA ExecuteType ==
  ASSUME NEW o \in Order, NEW p \in Int, NEW q \in Int
  PROVE  /\ Execute(o, p, q) \in Order
         /\ \A f \in {"id", "client", "session", "side", "limit", "price", "quantity", "arrival"} :
              Execute(o, p, q)[f] = o[f]
         /\ Execute(o, p, q).open = o.open - q
         /\ Execute(o, p, q).executed = o.executed + q
         /\ Execute(o, p, q).lastPrice = p
<1>1. o.open - q \in Int /\ o.executed + q \in Int
  BY DEF Order
<1>2. QED
  BY <1>1 DEF Order, Execute

(* Insertion numbers an order. *)
LEMMA ArrivalType ==
  ASSUME NEW o \in Order, NEW k \in Nat
  PROVE  [o EXCEPT !.arrival = k] \in Order
  BY DEF Order

(* A fill report carries the order it is about. *)
LEMMA FillReportType ==
  ASSUME NEW o \in Order
  PROVE  FillReport(o) \in Report /\ FillReport(o).order = o
  BY DEF FillReport, Report, OrderStatus

(* Initially books and queues are empty. *)
LEMMA TypeInit == Init => TypeOK /\ CancelInv
  BY ConstantsAssumption DEF Init, TypeOK, CancelInv, Idle, ViewEntry, OrderIds

(* The types of the outgoing queues and of the pushes to them. *)
OutTypeOK ==
  /\ out \in [Symbols -> Seq(Report)]
  /\ pushing \in [Symbols -> SUBSET Threads]
  /\ raced \in [Symbols -> BOOLEAN]
  /\ \A s \in Symbols : Len(out[s]) <= OutCapacity

(* A push that has found room keeps the queue within its capacity. *)
LEMMA PushType ==
  ASSUME TypeOK, NEW t, NEW s \in Symbols, NEW r \in Report, Push(t, s, r)
  PROVE  OutTypeOK'
<1>1. out[s] \in Seq(Report) /\ Len(out[s]) \in Nat
  BY DEF TypeOK
<1>2. PICK q \in Seq(Report) : out' = [out EXCEPT ![s] = q] /\ Len(q) <= OutCapacity
  <2>1. CASE raced[s]
    <3>1. <<>> \in Seq(Report) /\ Len(<<>>) <= OutCapacity /\ out' = [out EXCEPT ![s] = <<>>]
      BY <2>1, ConstantsAssumption DEF Push
    <3>2. QED
      BY <3>1
  <2>2. CASE ~raced[s]
    <3>1. /\ Append(out[s], r) \in Seq(Report) /\ Len(Append(out[s], r)) <= OutCapacity
          /\ out' = [out EXCEPT ![s] = Append(out[s], r)]
      BY <1>1, <2>2, ConstantsAssumption DEF Push
    <3>2. QED
      BY <3>1
  <2>3. QED
    BY <2>1, <2>2
<1>3. out' \in [Symbols -> Seq(Report)] /\ \A x \in Symbols : Len(out'[x]) <= OutCapacity
  BY <1>2 DEF TypeOK
<1>4. pushing' \in [Symbols -> SUBSET Threads]
  BY DEF Push, TypeOK
<1>5. raced' = raced
  BY DEF Push
<1>6. QED
  BY <1>3, <1>4, <1>5 DEF OutTypeOK, TypeOK

(* The other steps of tryPush add nothing to a queue. *)
LEMMA TryEffect ==
  ASSUME TypeOK, NEW s \in Symbols, NEW t, LoadTail(t, s) \/ TryPushFails(t, s)
  PROVE  \A x \in Symbols : out'[x] \in {out[x], <<>>}
<1>1. CASE LoadTail(t, s)
  BY <1>1 DEF LoadTail, TypeOK
<1>2. CASE TryPushFails(t, s)
  BY <1>2 DEF TryPushFails
<1>3. QED
  BY <1>1, <1>2

LEMMA TryType ==
  ASSUME TypeOK, NEW s \in Symbols, NEW t \in Threads, LoadTail(t, s) \/ TryPushFails(t, s)
  PROVE  OutTypeOK'
<1>1. \A x \in Symbols : out'[x] \in Seq(Report) /\ Len(out'[x]) <= OutCapacity
  <2>1. <<>> \in Seq(Report) /\ Len(<<>>) <= OutCapacity
    BY ConstantsAssumption
  <2>2. QED
    BY <2>1, TryEffect DEF TypeOK
<1>2. out' \in [Symbols -> Seq(Report)]
  <2>1. out' = out \/ \E q : out' = [out EXCEPT ![s] = q]
    BY DEF LoadTail, TryPushFails
  <2>2. out' = [x \in Symbols |-> out'[x]]
    BY <2>1 DEF TypeOK
  <2>3. QED
    BY <1>1, <2>2
<1>3. pushing' \in [Symbols -> SUBSET Threads]
  <2>1. \/ pushing' = [pushing EXCEPT ![s] = pushing[s] \cup {t}]
        \/ pushing' = [pushing EXCEPT ![s] = pushing[s] \ {t}]
    BY DEF LoadTail, TryPushFails
  <2>2. pushing \in [Symbols -> SUBSET Threads]
    BY DEF TypeOK
  <2>3. pushing[s] \cup {t} \in SUBSET Threads /\ pushing[s] \ {t} \in SUBSET Threads
    BY <2>2
  <2>4. QED
    BY <2>1, <2>2, <2>3
<1>4. raced' \in [Symbols -> BOOLEAN]
  <2>1. \/ raced' = raced
        \/ raced' = [raced EXCEPT ![s] = raced[s] \/ pushing[s] # {}]
    BY DEF LoadTail, TryPushFails
  <2>2. (raced[s] \/ pushing[s] # {}) \in BOOLEAN
    OBVIOUS
  <2>3. QED
    BY <2>1, <2>2 DEF TypeOK
<1>5. QED
  BY <1>1, <1>2, <1>3, <1>4 DEF OutTypeOK

(* Every action keeps the types and the capacities of the queues. *)
LEMMA TypeNext ==
  ASSUME TypeOK, CancelInv, [Next]_vars
  PROVE  TypeOK' /\ CancelInv'
<1> USE ConstantsAssumption DEF bookVars, workerVars, outVars, clientVars
<1>1. ASSUME NEW s \in Symbols, NEW c \in ClientIds, NEW n \in Sessions,
             NEW side \in NewOrderSides, NEW p \in Prices, NEW q \in Quantities,
             ReceiveNewOrder(s, c, n, side, p, q)
      PROVE  TypeOK' /\ CancelInv'
  <2>1. orderNumber' \in 0 .. MaxOrders
    BY <1>1 DEF ReceiveNewOrder, TypeOK
  <2>2. NewOrder(orderNumber + 1, c, n, side, p, q) \in Order
    <3>1. orderNumber + 1 \in Nat /\ side \in OrderSide /\ p \in Nat /\ q \in Nat
      BY DEF TypeOK
    <3>2. QED
      BY <3>1, NewOrderType
  <2>3. reactor' \in Request
    BY <1>1, <2>2 DEF ReceiveNewOrder, Request, Task
  <2>4. QED
    BY <1>1, <2>1, <2>3 DEF ReceiveNewOrder, TypeOK, CancelInv
<1>2. CASE PushAccepted
  <2>1. reactor \in Request
    BY <1>2 DEF PushAccepted, TypeOK, Idle
  <2>2. reactor' \in Request /\ [order |-> reactor.task.order, status |-> "ACCEPTED"] \in Report
    BY <1>2, <2>1 DEF PushAccepted, Request, Report, Task, OrderStatus
  <2>3. OutTypeOK'
    <3>1. reactor.symbol \in Symbols
      BY <2>1 DEF Request
    <3>2. QED
      BY <1>2, <2>2, <3>1, PushType DEF PushAccepted
  <2>4. QED
    BY <1>2, <2>2, <2>3 DEF PushAccepted, OutTypeOK, TypeOK, CancelInv
<1>3. ASSUME NEW s \in Symbols, NEW c \in ClientIds, NEW n \in Sessions,
             NEW side \in OrderSide, NEW orig \in ClientIds,
             ReceiveCancel(s, c, n, side, orig)
      PROVE  TypeOK' /\ CancelInv'
  <2>1. cancels' \in 0 .. MaxCancels
    BY <1>3 DEF ReceiveCancel, TypeOK
  <2>2. CancelRequest(c, n, side) \in Order
    BY NewOrderType DEF CancelRequest
  <2>3. reactor' \in Request
    BY <1>3, <2>2 DEF ReceiveCancel, Request, Task
  <2>4. QED
    BY <1>3, <2>1, <2>3 DEF ReceiveCancel, TypeOK, CancelInv
<1>4. CASE SubmitTask
  <2>1. reactor \in Request
    BY <1>4 DEF SubmitTask, TypeOK, Idle
  <2>2. work' \in [Symbols -> Seq(Task)]
        /\ \A s \in Symbols : Len(work'[s]) <= WorkCapacity
    BY <1>4, <2>1 DEF SubmitTask, TypeOK, Request
  <2>3. QED
    BY <1>4, <2>2 DEF SubmitTask, TypeOK, CancelInv
<1>5. ASSUME NEW s \in Symbols, StartNewOrder(s)
      PROVE  TypeOK' /\ CancelInv'
  <2>1. Head(work[s]) \in Task
    BY <1>5 DEF StartNewOrder, TypeOK
  <2> DEFINE o == [Head(work[s]).order EXCEPT !.arrival = inserted[s] + 1]
  <2>2. o \in Order
    <3>1. Head(work[s]).order \in Order /\ inserted[s] + 1 \in Nat
      BY <2>1 DEF TypeOK, Task
    <3>2. QED
      BY <3>1, ArrivalType
  <2>3. bids' \in [Symbols -> SUBSET Order] /\ asks' \in [Symbols -> SUBSET Order]
    <3>1. \/ bids' = [bids EXCEPT ![s] = @ \cup {o}] /\ asks' = asks
          \/ asks' = [asks EXCEPT ![s] = @ \cup {o}] /\ bids' = bids
      BY <1>5 DEF StartNewOrder
    <3> HIDE DEF o
    <3>2. bids \in [Symbols -> SUBSET Order] /\ asks \in [Symbols -> SUBSET Order]
      BY DEF TypeOK
    <3>3. bids[s] \cup {o} \in SUBSET Order /\ asks[s] \cup {o} \in SUBSET Order
      BY <2>2, <3>2
    <3>4. QED
      BY <3>1, <3>2, <3>3
  <2>4. work' \in [Symbols -> Seq(Task)]
        /\ \A t \in Symbols : Len(work'[t]) <= WorkCapacity
    BY <1>5 DEF StartNewOrder, TypeOK
  <2>5. inserted' \in [Symbols -> Nat]
    BY <1>5 DEF StartNewOrder, TypeOK
  <2>6. QED
    BY <1>5, <2>3, <2>4, <2>5 DEF StartNewOrder, TypeOK, CancelInv
<1>6. ASSUME NEW s \in Symbols, MatchBestOrders(s)
      PROVE  TypeOK' /\ CancelInv'
  <2>1. PICK bid \in bids[s], ask \in asks[s] :
          LET q == MatchQuantity(bid, ask)
              newBid == Execute(bid, ask.price, q)
              newAsk == Execute(ask, ask.price, q)
          IN  /\ bids' = [bids EXCEPT ![s] = AfterMatch(@, bid, newBid)]
              /\ asks' = [asks EXCEPT ![s] = AfterMatch(@, ask, newAsk)]
              /\ pending' = [pending EXCEPT ![s] =
                               @ \o <<FillReport(newBid), FillReport(newAsk)>>]
              /\ left' = [left EXCEPT ![s] =
                            @ \cup {o \in {newBid, newAsk} : IsFilled(o)}]
    BY <1>6 DEF MatchBestOrders
  <2> DEFINE q == MatchQuantity(bid, ask)
             newBid == Execute(bid, ask.price, q)
             newAsk == Execute(ask, ask.price, q)
  <2>2. bid \in Order /\ ask \in Order
    BY DEF TypeOK
  <2>3. ask.price \in Int /\ q \in Int
    BY <2>2 DEF Order, MatchQuantity
  <2>4. newBid \in Order /\ newAsk \in Order
    BY <2>2, <2>3, ExecuteType
  <2>5. FillReport(newBid) \in Report /\ FillReport(newAsk) \in Report
    BY <2>4, FillReportType
  <2> HIDE DEF newBid, newAsk, q
  <2>6. bids' \in [Symbols -> SUBSET Order] /\ asks' \in [Symbols -> SUBSET Order]
    BY <2>1, <2>4 DEF AfterMatch, TypeOK, newBid, newAsk, q
  <2>7. left' \in [Symbols -> SUBSET Order]
    BY <2>1, <2>4 DEF TypeOK, newBid, newAsk, q
  <2>8. pending' \in [Symbols -> Seq(Report)]
    BY <2>1, <2>5 DEF TypeOK, newBid, newAsk, q
  <2>9. QED
    BY <1>6, <2>6, <2>7, <2>8 DEF MatchBestOrders, TypeOK, CancelInv
<1>7. ASSUME NEW s \in Symbols, FinishMatching(s) \/ FinishTask(s)
      PROVE  TypeOK' /\ CancelInv'
  BY <1>7 DEF FinishMatching, FinishTask, TypeOK, CancelInv
<1>8. ASSUME NEW s \in Symbols, PushReport(s)
      PROVE  TypeOK' /\ CancelInv'
  <2>1. pending' \in [Symbols -> Seq(Report)] /\ Head(pending[s]) \in Report
    BY <1>8 DEF PushReport, TypeOK
  <2>2. OutTypeOK'
    BY <1>8, <2>1, PushType DEF PushReport
  <2>3. QED
    BY <1>8, <2>1, <2>2 DEF PushReport, OutTypeOK, TypeOK, CancelInv
<1>9. ASSUME NEW s \in Symbols, StartCancel(s)
      PROVE  TypeOK' /\ CancelInv'
  <2>1. Head(work[s]) \in Task
    BY <1>9 DEF StartCancel, TypeOK
  <2>2. \A side, c, n : Find(s, side, c, n) \subseteq Order
    BY DEF Find, TypeOK
  <2>3. PICK r \in Report, pc \in {"reporting", "canceling"} :
          /\ pending' = [pending EXCEPT ![s] = <<r>>]
          /\ workerPc' = [workerPc EXCEPT ![s] = pc]
    <3> DEFINE request == Head(work[s]).order
               found == Find(s, request.side, Head(work[s]).orig, request.session)
    <3>1. \A o \in Order : [order |-> o, status |-> "CANCELED"] \in Report
                           /\ [order |-> o, status |-> "REJECTED"] \in Report
      BY DEF Report, OrderStatus
    <3>2. request \in Order
      BY <2>1 DEF Task
    <3>3. CASE \E o \in found :
                 /\ workerPc' = [workerPc EXCEPT ![s] = "canceling"]
                 /\ pending' = [pending EXCEPT ![s] = <<[order |-> o, status |-> "CANCELED"]>>]
      BY <2>2, <3>1, <3>3
    <3>4. CASE /\ workerPc' = [workerPc EXCEPT ![s] = "reporting"]
               /\ pending' = [pending EXCEPT ![s] = <<[order |-> request, status |-> "REJECTED"]>>]
      BY <3>1, <3>2, <3>4
    <3>5. QED
      BY <1>9, <3>3, <3>4 DEF StartCancel
  <2>4. work' \in [Symbols -> Seq(Task)]
        /\ \A t \in Symbols : Len(work'[t]) <= WorkCapacity
    BY <1>9 DEF StartCancel, TypeOK
  <2>5. QED
    BY <1>9, <2>3, <2>4 DEF StartCancel, TypeOK, CancelInv
<1>10. ASSUME NEW s \in Symbols, PushCanceled(s)
       PROVE  TypeOK' /\ CancelInv'
  <2>1. Head(pending[s]) \in Report
    BY <1>10 DEF PushCanceled, TypeOK, CancelInv
  <2>2. OutTypeOK'
    BY <1>10, <2>1, PushType DEF PushCanceled
  <2>3. \A o : Erased(s, o) \subseteq Order
    BY DEF Erased, Find, TypeOK
  <2>4. /\ bids' \in [Symbols -> SUBSET Order] /\ asks' \in [Symbols -> SUBSET Order]
        /\ left' \in [Symbols -> SUBSET Order]
    BY <1>10, <2>3 DEF PushCanceled, TypeOK
  <2>5. QED
    BY <1>10, <2>2, <2>4 DEF PushCanceled, OutTypeOK, TypeOK, CancelInv
<1>11. ASSUME NEW s \in Symbols, ProcessOutgoing(s)
       PROVE  TypeOK' /\ CancelInv'
  <2>1. Head(out[s]) \in Report
    BY <1>11 DEF ProcessOutgoing, TypeOK
  <2>2. view' \in [OrderIds -> ViewEntry]
    BY <1>11, <2>1 DEF ProcessOutgoing, TypeOK, Report, Order, OrderStatus, ViewEntry
  <2>3. out' \in [Symbols -> Seq(Report)]
        /\ \A t \in Symbols : Len(out'[t]) <= OutCapacity
    BY <1>11 DEF ProcessOutgoing, TypeOK
  <2>4. answered' \subseteq Nat
    BY <1>11, <2>1 DEF ProcessOutgoing, TypeOK, Report, Order
  <2>5. QED
    BY <1>11, <2>2, <2>3, <2>4 DEF ProcessOutgoing, TypeOK, CancelInv
<1>12. CASE UNCHANGED vars
  BY <1>12 DEF vars, TypeOK, CancelInv
<1>13. ASSUME NEW s \in Symbols, NEW t \in Threads, LoadTail(t, s) \/ TryPushFails(t, s)
       PROVE  TypeOK' /\ CancelInv'
  <2>1. OutTypeOK'
    BY <1>13, TryType
  <2>2. QED
    BY <1>13, <2>1 DEF LoadTail, TryPushFails, OutTypeOK, TypeOK, CancelInv
<1>14. QED
  BY <1>1, <1>2, <1>3, <1>4, <1>5, <1>6, <1>7, <1>8, <1>9, <1>10, <1>11, <1>12, <1>13
     DEF Next, Receive, Reactor, Worker, Poll, Threads

(* The state of the matching layer stays within its types, and no queue    *)
(* ever holds more than its capacity.                                      *)
THEOREM TypeCorrect == Spec => []TypeOK
<1>1. TypeOK /\ CancelInv /\ [Next]_vars => (TypeOK /\ CancelInv)'
  BY TypeNext
<1>2. QED
  BY <1>1, TypeInit, PTL DEF Spec
-----------------------------------------------------------------------------
(* What the steps do to the books *)

(* Only an insertion, a match and an erasure touch a book. *)
LEMMA BookSteps ==
  ASSUME [Next]_vars
  PROVE  \/ UNCHANGED bookVars
         \/ \E s \in Symbols : StartNewOrder(s) \/ MatchBestOrders(s) \/ PushCanceled(s)
<1>1. CASE UNCHANGED vars
  BY <1>1 DEF vars, bookVars
<1>2. CASE Receive \/ Reactor
  BY <1>2 DEF Receive, ReceiveNewOrder, ReceiveCancel, Reactor, PushAccepted, SubmitTask,
              LoadTail, TryPushFails, bookVars
<1>3. ASSUME NEW s \in Symbols,
             \/ LoadTail("worker", s) \/ TryPushFails("worker", s)
             \/ FinishMatching(s) \/ PushReport(s) \/ FinishTask(s) \/ StartCancel(s) \/ ProcessOutgoing(s)
      PROVE  UNCHANGED bookVars
  BY <1>3 DEF LoadTail, TryPushFails, FinishMatching, PushReport, FinishTask, StartCancel, ProcessOutgoing, bookVars
<1>4. QED
  BY <1>1, <1>2, <1>3 DEF Next, Worker, Poll

(* An insertion adds the order at the head of the work queue to the side   *)
(* it belongs to, with the next arrival number.                            *)
Inserts(s, o) ==
  /\ o.id = Head(work[s]).order.id /\ o.side = Head(work[s]).order.side
  /\ o.limit = Head(work[s]).order.limit
  /\ o.price = Head(work[s]).order.price /\ o.quantity = Head(work[s]).order.quantity
  /\ o.open = Head(work[s]).order.open /\ o.executed = Head(work[s]).order.executed
  /\ o.arrival = inserted[s] + 1
  /\ \/ o.side = "BUY" /\ bids' = [bids EXCEPT ![s] = @ \cup {o}] /\ asks' = asks
     \/ o.side # "BUY" /\ asks' = [asks EXCEPT ![s] = @ \cup {o}] /\ bids' = bids

(* taskNewOrder inserts one order. *)
LEMMA InsertEffect ==
  ASSUME TypeOK, NEW s \in Symbols, StartNewOrder(s)
  PROVE  \E o \in Order : Inserts(s, o)
<1> DEFINE o == [Head(work[s]).order EXCEPT !.arrival = inserted[s] + 1]
<1>1. Head(work[s]) \in Task
  BY DEF StartNewOrder, TypeOK
<1>2. Head(work[s]).order \in Order /\ inserted[s] + 1 \in Nat
  BY <1>1 DEF Task, TypeOK
<1>3. o \in Order
  BY <1>2, ArrivalType
<1>4. /\ o.id = Head(work[s]).order.id /\ o.side = Head(work[s]).order.side
      /\ o.limit = Head(work[s]).order.limit
      /\ o.price = Head(work[s]).order.price /\ o.quantity = Head(work[s]).order.quantity
      /\ o.open = Head(work[s]).order.open /\ o.executed = Head(work[s]).order.executed
      /\ o.arrival = inserted[s] + 1
  BY <1>2 DEF Order
<1>5. \/ o.side = "BUY" /\ bids' = [bids EXCEPT ![s] = @ \cup {o}] /\ asks' = asks
      \/ o.side # "BUY" /\ asks' = [asks EXCEPT ![s] = @ \cup {o}] /\ bids' = bids
  BY DEF StartNewOrder
<1> HIDE DEF o
<1>6. Inserts(s, o)
  BY <1>4, <1>5 DEF Inserts
<1>7. QED
  BY <1>3, <1>6

(* A match replaces the first order of each side by the same order with    *)
(* more executed, or removes it when that fills it.                        *)
Trades(old, new, price, q) ==
  /\ new.id = old.id /\ new.side = old.side /\ new.limit = old.limit /\ new.price = old.price
  /\ new.quantity = old.quantity /\ new.arrival = old.arrival
  /\ new.open = old.open - q /\ new.executed = old.executed + q
  /\ new.lastPrice = price

Matches(s, bid, ask, newBid, newAsk) ==
  /\ bid \in bids[s] /\ IsFirst("BUY", bid, bids[s])
  /\ ask \in asks[s] /\ IsFirst("SELL", ask, asks[s])
  /\ bid.price >= ask.price
  /\ Trades(bid, newBid, ask.price, MatchQuantity(bid, ask))
  /\ Trades(ask, newAsk, ask.price, MatchQuantity(bid, ask))
  /\ bids' = [bids EXCEPT ![s] = AfterMatch(@, bid, newBid)]
  /\ asks' = [asks EXCEPT ![s] = AfterMatch(@, ask, newAsk)]
  /\ pending' = [pending EXCEPT ![s] = @ \o <<FillReport(newBid), FillReport(newAsk)>>]
  /\ left' = [left EXCEPT ![s] = @ \cup {o \in {newBid, newAsk} : IsFilled(o)}]

(* A trading round of processMatching is a match of the first orders. *)
LEMMA MatchEffect ==
  ASSUME TypeOK, NEW s \in Symbols, MatchBestOrders(s)
  PROVE  \E bid, ask, newBid, newAsk \in Order : Matches(s, bid, ask, newBid, newAsk)
<1>1. PICK bid \in bids[s], ask \in asks[s] :
        /\ IsFirst("BUY", bid, bids[s]) /\ IsFirst("SELL", ask, asks[s])
        /\ bid.price >= ask.price
        /\ LET q == MatchQuantity(bid, ask)
               newBid == Execute(bid, ask.price, q)
               newAsk == Execute(ask, ask.price, q)
           IN  /\ bids' = [bids EXCEPT ![s] = AfterMatch(@, bid, newBid)]
               /\ asks' = [asks EXCEPT ![s] = AfterMatch(@, ask, newAsk)]
               /\ pending' = [pending EXCEPT ![s] =
                                @ \o <<FillReport(newBid), FillReport(newAsk)>>]
               /\ left' = [left EXCEPT ![s] =
                             @ \cup {o \in {newBid, newAsk} : IsFilled(o)}]
  BY DEF MatchBestOrders
<1> DEFINE q == MatchQuantity(bid, ask)
           newBid == Execute(bid, ask.price, q)
           newAsk == Execute(ask, ask.price, q)
<1>2. bid \in Order /\ ask \in Order
  BY DEF TypeOK
<1>3. ask.price \in Int /\ q \in Int
  BY <1>2 DEF Order, MatchQuantity
<1>4. newBid \in Order /\ Trades(bid, newBid, ask.price, q)
  BY <1>2, <1>3, ExecuteType DEF Trades
<1>5. newAsk \in Order /\ Trades(ask, newAsk, ask.price, q)
  BY <1>2, <1>3, ExecuteType DEF Trades
<1>6. Matches(s, bid, ask, newBid, newAsk)
  BY <1>1, <1>4, <1>5 DEF Matches
<1>7. QED
  BY <1>2, <1>4, <1>5, <1>6

(* A cancel only moves orders from the book to those that left it. *)
Shrinks ==
  \A t \in Symbols : /\ bids'[t] \subseteq bids[t] /\ asks'[t] \subseteq asks[t]
                     /\ left'[t] \subseteq left[t] \cup bids[t] \cup asks[t]

(* OrderBook::erase inserts nothing. *)
LEMMA EraseEffect ==
  ASSUME TypeOK, NEW s \in Symbols, PushCanceled(s)
  PROVE  Shrinks
<1> DEFINE erased == Erased(s, Head(pending[s]).order)
<1>1. erased \subseteq bids[s] \cup asks[s]
  BY DEF Erased, Find
<1>2. /\ bids' = [bids EXCEPT ![s] = @ \ erased] /\ asks' = [asks EXCEPT ![s] = @ \ erased]
      /\ left' = [left EXCEPT ![s] = @ \cup erased]
  BY DEF PushCanceled
<1> HIDE DEF erased
<1>3. QED
  BY <1>1, <1>2 DEF Shrinks, TypeOK
-----------------------------------------------------------------------------
(* Sides, quantities and limits *)

(* OrderBook::insert chose the side for good: orders never change sides. *)
LEMMA SideNext ==
  ASSUME TypeOK, SideInv, [Next]_vars
  PROVE  SideInv'
<1>1. CASE UNCHANGED bookVars
  BY <1>1 DEF SideInv, bookVars
<1>2. ASSUME NEW s \in Symbols, StartNewOrder(s)
      PROVE  SideInv'
  <2>1. PICK o \in Order : Inserts(s, o)
    BY <1>2, InsertEffect
  <2>2. CASE o.side = "BUY" /\ bids' = [bids EXCEPT ![s] = @ \cup {o}] /\ asks' = asks
    <3>1. bids'[s] = bids[s] \cup {o} /\ \A t \in Symbols \ {s} : bids'[t] = bids[t]
      BY <2>2 DEF TypeOK
    <3>2. QED
      BY <2>2, <3>1 DEF SideInv
  <2>3. CASE o.side # "BUY" /\ asks' = [asks EXCEPT ![s] = @ \cup {o}] /\ bids' = bids
    <3>1. asks'[s] = asks[s] \cup {o} /\ \A t \in Symbols \ {s} : asks'[t] = asks[t]
      BY <2>3 DEF TypeOK
    <3>2. QED
      BY <2>3, <3>1 DEF SideInv
  <2>4. QED
    BY <2>1, <2>2, <2>3 DEF Inserts
<1>3. ASSUME NEW s \in Symbols, MatchBestOrders(s)
      PROVE  SideInv'
  <2>1. PICK bid, ask, newBid, newAsk \in Order : Matches(s, bid, ask, newBid, newAsk)
    BY <1>3, MatchEffect
  <2>2. QED
    BY <2>1 DEF Matches, Trades, AfterMatch, SideInv, TypeOK
<1>4. ASSUME NEW s \in Symbols, PushCanceled(s)
      PROVE  SideInv'
  BY <1>4, EraseEffect DEF Shrinks, SideInv
<1>5. QED
  BY <1>1, <1>2, <1>3, <1>4, BookSteps
-----------------------------------------------------------------------------
(* The book is uncrossed outside processMatching *)

(* A step that leaves the books alone and takes a worker out of the        *)
(* matching loop is the round of the loop that returns.                    *)
LEMMA LeaveMatching ==
  ASSUME TypeOK, [Next]_vars, UNCHANGED bookVars,
         NEW t \in Symbols, workerPc[t] = "matching", workerPc'[t] # "matching"
  PROVE  FinishMatching(t)
<1>1. CASE Receive \/ Reactor \/ UNCHANGED vars
  BY <1>1 DEF Receive, ReceiveNewOrder, ReceiveCancel, Reactor, LoadTail, TryPushFails,
              PushAccepted, SubmitTask, vars, workerVars
<1>2. ASSUME NEW s \in Symbols, Worker(s) \/ ProcessOutgoing(s)
      PROVE  FinishMatching(t)
  <2>1. s = t \/ workerPc'[t] = workerPc[t]
    BY <1>2 DEF Worker, LoadTail, TryPushFails, StartNewOrder, MatchBestOrders,
              FinishMatching, PushReport, FinishTask,
                StartCancel, PushCanceled, ProcessOutgoing, workerVars, TypeOK
  <2>2. ~StartNewOrder(t) /\ ~PushReport(t) /\ ~FinishTask(t) /\ ~StartCancel(t) /\ ~PushCanceled(t)
    BY DEF StartNewOrder, PushReport, FinishTask, StartCancel, PushCanceled
  <2>3. /\ ~MatchBestOrders(t) /\ ~ProcessOutgoing(t)
        /\ ~LoadTail("worker", t) /\ ~TryPushFails("worker", t)
    BY DEF MatchBestOrders, ProcessOutgoing, LoadTail, TryPushFails, workerVars
  <2>4. QED
    BY <1>2, <2>1, <2>2, <2>3 DEF Worker
<1>3. QED
  BY <1>1, <1>2 DEF Next, Poll

(* The round of the loop that returns has seen that no bid reaches an ask: *)
(* the first orders of the two sides have the best prices.                 *)
LEMMA FirstPrices ==
  ASSUME TypeOK, NEW s \in Symbols, FinishMatching(s)
  PROVE  \A bid \in bids[s], ask \in asks[s] : bid.price < ask.price
<1> SUFFICES ASSUME NEW bid \in bids[s], NEW ask \in asks[s]
             PROVE  bid.price < ask.price
  OBVIOUS
<1>1. PICK first \in bids[s], best \in asks[s] :
        /\ IsFirst("BUY", first, bids[s])
        /\ IsFirst("SELL", best, asks[s])
        /\ first.price < best.price
  BY DEF FinishMatching
<1>2. bid.price \in Int /\ ask.price \in Int /\ first.price \in Int /\ best.price \in Int
  <2>1. bid \in Order /\ ask \in Order /\ first \in Order /\ best \in Order
    BY DEF TypeOK
  <2>2. QED
    BY <2>1 DEF Order
<1>3. bid.price <= first.price
  BY <1>1, <1>2 DEF IsFirst, Precedes, BetterPrice
<1>4. best.price <= ask.price
  BY <1>1, <1>2 DEF IsFirst, Precedes, BetterPrice
<1>5. QED
  BY <1>1, <1>2, <1>3, <1>4

(* Steps preserve that the book is uncrossed outside the matching loop. *)
LEMMA UncrossedNext ==
  ASSUME TypeOK, BookUncrossed, [Next]_vars
  PROVE  BookUncrossed'
<1> SUFFICES ASSUME NEW t \in Symbols, workerPc'[t] # "matching",
                    NEW bid \in bids'[t], NEW ask \in asks'[t]
             PROVE  bid.price < ask.price
  BY DEF BookUncrossed
<1>1. CASE UNCHANGED bookVars
  <2>1. bid \in bids[t] /\ ask \in asks[t]
    BY <1>1 DEF bookVars
  <2>2. CASE workerPc[t] = "matching"
    BY <1>1, <2>1, <2>2, LeaveMatching, FirstPrices
  <2>3. CASE workerPc[t] # "matching"
    BY <2>1, <2>3 DEF BookUncrossed
  <2>4. QED
    BY <2>2, <2>3
<1>2. ASSUME NEW s \in Symbols, StartNewOrder(s)
      PROVE  bid.price < ask.price
  <2>1. s # t
    BY <1>2 DEF StartNewOrder, TypeOK
  <2>2. workerPc'[t] = workerPc[t] /\ bids'[t] = bids[t] /\ asks'[t] = asks[t]
    BY <1>2, <2>1 DEF StartNewOrder, TypeOK
  <2>3. QED
    BY <2>2 DEF BookUncrossed
<1>3. ASSUME NEW s \in Symbols, MatchBestOrders(s)
      PROVE  bid.price < ask.price
  <2>1. s # t
    BY <1>3 DEF MatchBestOrders
  <2>2. workerPc'[t] = workerPc[t] /\ bids'[t] = bids[t] /\ asks'[t] = asks[t]
    BY <1>3, <2>1 DEF MatchBestOrders, TypeOK
  <2>3. QED
    BY <2>2 DEF BookUncrossed
<1>4. ASSUME NEW s \in Symbols, PushCanceled(s)
      PROVE  bid.price < ask.price
  <2>1. bid \in bids[t] /\ ask \in asks[t]
    BY <1>4, EraseEffect DEF Shrinks
  <2>2. workerPc[t] # "matching"
    BY <1>4 DEF PushCanceled, TypeOK
  <2>3. QED
    BY <2>1, <2>2 DEF BookUncrossed
<1>5. QED
  BY <1>1, <1>2, <1>3, <1>4, BookSteps
-----------------------------------------------------------------------------
(* Ids and arrivals *)

(* Apart from an insertion, no step brings a new id to a book. *)
LEMMA KnownIds ==
  ASSUME TypeOK, [Next]_vars, NEW t \in Symbols, NEW o \in Known(t)', ~StartNewOrder(t)
  PROVE  \E x \in Known(t) : x.id = o.id /\ x.side = o.side
<1>1. CASE UNCHANGED bookVars
  BY <1>1 DEF bookVars, Known
<1>2. ASSUME NEW s \in Symbols, StartNewOrder(s)
      PROVE  o \in Known(t)
  BY <1>2 DEF StartNewOrder, TypeOK, Known
<1>3. ASSUME NEW s \in Symbols, MatchBestOrders(s)
      PROVE  \E x \in Known(t) : x.id = o.id /\ x.side = o.side
  <2>1. PICK bid, ask, newBid, newAsk \in Order : Matches(s, bid, ask, newBid, newAsk)
    BY <1>3, MatchEffect
  <2>2. CASE s # t
    <3>1. bids'[t] = bids[t] /\ asks'[t] = asks[t] /\ left'[t] = left[t]
      BY <2>1, <2>2 DEF Matches, TypeOK
    <3>2. QED
      BY <3>1 DEF Known
  <2>3. CASE s = t
    <3>1. o \in Known(t) \cup {newBid, newAsk}
      BY <2>1, <2>3 DEF Matches, TypeOK, Known, AfterMatch
    <3>2. /\ newBid.id = bid.id /\ newAsk.id = ask.id /\ bid \in Known(t) /\ ask \in Known(t)
          /\ newBid.side = bid.side /\ newAsk.side = ask.side
      BY <2>1, <2>3 DEF Matches, Trades, Known
    <3>3. QED
      BY <3>1, <3>2
  <2>4. QED
    BY <2>2, <2>3
<1>4. ASSUME NEW s \in Symbols, PushCanceled(s)
      PROVE  o \in Known(t)
  BY <1>4, EraseEffect DEF Shrinks, Known
<1>5. QED
  BY <1>1, <1>2, <1>3, <1>4, BookSteps


(* Ids are natural numbers wherever they are. *)
LEMMA IdTypes ==
  ASSUME TypeOK, NEW s \in Symbols
  PROVE  /\ \A o \in Known(s) : o.id \in Nat
         /\ \A k \in 1 .. Len(work[s]) : work[s][k].order.id \in Nat
<1>1. \A o \in Known(s) : o \in Order
  BY DEF TypeOK, Known
<1>2. \A k \in 1 .. Len(work[s]) : work[s][k] \in Task
  BY DEF TypeOK
<1>3. QED
  BY <1>1, <1>2 DEF Order, Task

(* The ids of a symbol whose work queue a step leaves alone. *)
LEMMA IdStable ==
  ASSUME TypeOK, [Next]_vars, NEW t \in Symbols, NEW n, IdsOrdered(t), IdsBelow(n, t),
         work'[t] = work[t], ~StartNewOrder(t)
  PROVE  IdsOrdered(t)' /\ IdsBelow(n, t)'
<1>1. \A o \in Known(t)' : \E x \in Known(t) : x.id = o.id
  BY KnownIds
<1>2. IdsOrdered(t)'
  BY <1>1 DEF IdsOrdered
<1>3. IdsBelow(n, t)'
  BY <1>1 DEF IdsBelow
<1>4. QED
  BY <1>2, <1>3

(* The ids of a symbol whose worker takes a task from its work queue: a    *)
(* new order goes to the book, before everything left in the queue.        *)
LEMMA IdPop ==
  ASSUME TypeOK, [Next]_vars, NEW t \in Symbols, NEW n, IdsOrdered(t), IdsBelow(n, t),
         StartNewOrder(t) \/ StartCancel(t)
  PROVE  IdsOrdered(t)' /\ IdsBelow(n, t)'
<1>1. work[t] \in Seq(Task) /\ work[t] # <<>> /\ work'[t] = Tail(work[t])
  BY DEF StartNewOrder, StartCancel, TypeOK
<1>2. /\ 1 \in 1 .. Len(work[t]) /\ Head(work[t]) = work[t][1]
      /\ \A k \in 1 .. Len(work'[t]) : k + 1 \in 1 .. Len(work[t]) /\ work'[t][k] = work[t][k + 1]
  BY <1>1
<1>3. ASSUME NEW o \in Known(t)'
      PROVE  \/ \E x \in Known(t) : x.id = o.id
             \/ work[t][1].kind = "new" /\ o.id = work[t][1].order.id
  <2>1. CASE StartNewOrder(t)
    <3>1. PICK x \in Order : Inserts(t, x)
      BY <2>1, InsertEffect
    <3>2. o \in Known(t) \cup {x}
      BY <2>1, <3>1 DEF Inserts, Known, StartNewOrder, TypeOK
    <3>3. x.id = work[t][1].order.id /\ work[t][1].kind = "new"
      BY <1>2, <2>1, <3>1 DEF Inserts, StartNewOrder
    <3>4. QED
      BY <3>2, <3>3
  <2>2. CASE StartCancel(t)
    BY <2>2 DEF StartCancel, Known, bookVars
  <2>3. QED
    BY <2>1, <2>2
<1>4. IdsBelow(n, t)'
  BY <1>2, <1>3 DEF IdsBelow
<1>5. IdsOrdered(t)'
  <2> SUFFICES ASSUME NEW k \in 1 .. Len(work'[t]), work'[t][k].kind = "new"
               PROVE  /\ \A o \in Known(t)' : o.id < work'[t][k].order.id
                      /\ \A j \in 1 .. k - 1 : work'[t][j].kind = "new" =>
                           work'[t][j].order.id < work'[t][k].order.id
    BY DEF IdsOrdered
  <2>1. k + 1 \in 1 .. Len(work[t]) /\ work'[t][k] = work[t][k + 1] /\ k \in Nat /\ 1 \in 1 .. (k + 1) - 1
    BY <1>2
  <2>2. /\ \A o \in Known(t) : o.id < work[t][k + 1].order.id
        /\ \A j \in 1 .. (k + 1) - 1 : work[t][j].kind = "new" =>
             work[t][j].order.id < work[t][k + 1].order.id
    BY <2>1 DEF IdsOrdered
  <2>3. \A o \in Known(t)' : o.id < work[t][k + 1].order.id
    BY <1>3, <2>1, <2>2
  <2>4. ASSUME NEW j \in 1 .. k - 1
        PROVE  j + 1 \in 1 .. (k + 1) - 1 /\ work'[t][j] = work[t][j + 1]
    <3>1. Len(work'[t]) \in Nat
      BY <1>1
    <3>2. j \in 1 .. Len(work'[t])
      BY <2>1, <3>1
    <3>3. work'[t][j] = work[t][j + 1]
      BY <1>2, <3>2
    <3>4. j + 1 \in 1 .. (k + 1) - 1
      BY <2>1
    <3>5. QED
      BY <3>3, <3>4
  <2>5. QED
    BY <2>1, <2>2, <2>3, <2>4
<1>6. QED
  BY <1>4, <1>5

(* The ids of a symbol to whose work queue the reactor submits a task. *)
LEMMA IdSubmit ==
  ASSUME TypeOK, [Next]_vars, NEW t \in Symbols, IdInv, SubmitTask, reactor.symbol = t
  PROVE  IdsOrdered(t)' /\ IdsBelow(Submitted, t)'
<1>1. reactor \in Request /\ reactor # Idle
  BY DEF SubmitTask, TypeOK, Idle
<1> DEFINE task == reactor.task
<1>2. task \in Task /\ work[t] \in Seq(Task) /\ work'[t] = Append(work[t], task)
  BY <1>1 DEF SubmitTask, TypeOK, Request
<1> HIDE DEF task
<1>3. /\ Len(work[t]) \in Nat /\ Len(work'[t]) = Len(work[t]) + 1
      /\ work'[t][Len(work[t]) + 1] = task
      /\ \A k \in 1 .. Len(work[t]) : work'[t][k] = work[t][k]
  BY <1>2
<1>4. Known(t)' = Known(t) /\ Submitted' = orderNumber /\ orderNumber \in Nat
  BY DEF SubmitTask, bookVars, Known, Submitted, NewInReactor, TypeOK
<1>5. IdsOrdered(t) /\ IdsBelow(Submitted, t)
  BY DEF IdInv
<1>6. Submitted \in Int /\ Submitted <= orderNumber
  BY <1>4 DEF Submitted
<1>7. task.kind = "new" => task.order.id = orderNumber /\ Submitted < orderNumber
  BY <1>1, <1>4 DEF IdInv, NewInReactor, Submitted, task
<1>8. /\ \A o \in Known(t) : o.id \in Nat
      /\ \A k \in 1 .. Len(work[t]) : work[t][k].order.id \in Nat
  BY IdTypes
<1>9. ASSUME NEW k \in 1 .. Len(work'[t])
      PROVE  k \in 1 .. Len(work[t]) \/ k = Len(work[t]) + 1
  BY <1>3
<1>10. IdsBelow(Submitted, t)'
  <2>1. \A o \in Known(t) : o.id <= orderNumber
    BY <1>4, <1>5, <1>6, <1>8 DEF IdsBelow
  <2>2. ASSUME NEW k \in 1 .. Len(work'[t]), work'[t][k].kind = "new"
        PROVE  work'[t][k].order.id <= orderNumber
    <3>1. CASE k \in 1 .. Len(work[t])
      <4>1. work'[t][k] = work[t][k] /\ work[t][k].order.id <= Submitted
        BY <1>3, <1>5, <2>2, <3>1 DEF IdsBelow
      <4>2. QED
        BY <1>4, <1>6, <1>8, <3>1, <4>1
    <3>2. CASE k = Len(work[t]) + 1
      BY <1>3, <1>4, <1>7, <2>2, <3>2
    <3>3. QED
      BY <1>9, <3>1, <3>2
  <2>3. QED
    BY <1>4, <2>1, <2>2 DEF IdsBelow
<1>11. IdsOrdered(t)'
  <2> SUFFICES ASSUME NEW k \in 1 .. Len(work'[t]), work'[t][k].kind = "new"
               PROVE  /\ \A o \in Known(t) : o.id < work'[t][k].order.id
                      /\ \A j \in 1 .. k - 1 : work'[t][j].kind = "new" =>
                           work'[t][j].order.id < work'[t][k].order.id
    BY <1>4 DEF IdsOrdered
  <2>1. CASE k \in 1 .. Len(work[t])
    <3>1. \A j \in 1 .. k - 1 : work'[t][j] = work[t][j]
      BY <1>3, <2>1
    <3>2. QED
      BY <1>3, <1>5, <2>1, <3>1 DEF IdsOrdered
  <2>2. CASE k = Len(work[t]) + 1
    <3>1. work'[t][k].order.id = orderNumber /\ Submitted < orderNumber
      BY <1>3, <1>7, <2>2
    <3>2. ASSUME NEW o \in Known(t)
          PROVE  o.id < orderNumber
      <4>1. o.id <= Submitted /\ o.id \in Nat
        BY <1>5, <1>8 DEF IdsBelow
      <4>2. QED
        BY <1>4, <1>6, <3>1, <4>1
    <3>3. ASSUME NEW j \in 1 .. k - 1, work'[t][j].kind = "new"
          PROVE  work'[t][j].order.id < orderNumber
      <4>1. j \in 1 .. Len(work[t])
        BY <1>3, <2>2
      <4>2. work'[t][j] = work[t][j]
        BY <1>3, <4>1
      <4>3. work[t][j].order.id <= Submitted /\ work[t][j].order.id \in Nat
        BY <1>5, <1>8, <3>3, <4>1, <4>2 DEF IdsBelow
      <4>4. QED
        BY <1>4, <1>6, <3>1, <4>2, <4>3
    <3>4. QED
      BY <3>1, <3>2, <3>3
  <2>3. QED
    BY <1>9, <2>1, <2>2
<1>12. QED
  BY <1>10, <1>11

(* The reactor numbers an order once and hands it on: the number of        *)
(* submitted orders changes in SubmitTask only.                            *)
LEMMA SubmittedNext ==
  ASSUME TypeOK, IdInv, [Next]_vars
  PROVE  /\ (NewInReactor => reactor.task.order.id = orderNumber)'
         /\ SubmitTask \/ Submitted' = Submitted
<1>1. orderNumber \in Nat
  BY DEF TypeOK
<1>2. CASE Receive
  <2>1. ~NewInReactor
    BY <1>2 DEF Receive, ReceiveNewOrder, ReceiveCancel, NewInReactor
  <2>2. \/ orderNumber' = orderNumber /\ reactor'.task.kind = "cancel"
        \/ /\ orderNumber' = orderNumber + 1
           /\ reactor'.task.kind = "new" /\ reactor' # Idle
           /\ reactor'.task.order.id = orderNumber + 1
    BY <1>2 DEF Receive, ReceiveNewOrder, ReceiveCancel, NewOrder, Idle
  <2>3. QED
    BY <1>1, <2>1, <2>2 DEF NewInReactor, Submitted
<1>3. CASE PushAccepted
  <2>1. reactor \in Request
    BY <1>3 DEF PushAccepted, TypeOK, Idle
  <2>2. reactor'.task = reactor.task /\ reactor' # Idle /\ reactor # Idle
    BY <1>3, <2>1 DEF PushAccepted, Request, Idle
  <2>3. orderNumber' = orderNumber
    BY <1>3 DEF PushAccepted
  <2>4. QED
    BY <2>2, <2>3 DEF NewInReactor, Submitted, IdInv
<1>4. CASE SubmitTask
  BY <1>4 DEF SubmitTask, NewInReactor
<1>5. CASE UNCHANGED <<reactor, orderNumber>>
  BY <1>5 DEF NewInReactor, Submitted, IdInv
<1>6. ASSUME NEW s \in Symbols, Worker(s) \/ ProcessOutgoing(s)
      PROVE  UNCHANGED <<reactor, orderNumber>>
  BY <1>6 DEF Worker, LoadTail, TryPushFails, StartNewOrder, MatchBestOrders,
              FinishMatching, PushReport, FinishTask,
              StartCancel, PushCanceled, ProcessOutgoing
<1>7. CASE UNCHANGED vars \/ \E s \in Symbols : LoadTail("reactor", s) \/ TryPushFails("reactor", s)
  BY <1>5, <1>7 DEF vars, LoadTail, TryPushFails
<1>8. QED
  BY <1>2, <1>3, <1>4, <1>5, <1>6, <1>7 DEF Next, Reactor, Poll

(* A work queue changes when its worker takes a task or the reactor        *)
(* submits one.                                                            *)
LEMMA WorkSteps ==
  ASSUME TypeOK, [Next]_vars, NEW t \in Symbols
  PROVE  \/ work'[t] = work[t] /\ ~StartNewOrder(t)
         \/ StartNewOrder(t) \/ StartCancel(t)
         \/ SubmitTask /\ reactor.symbol = t
<1>1. CASE \/ Receive \/ PushAccepted \/ UNCHANGED vars
           \/ \E s \in Symbols : LoadTail("reactor", s) \/ TryPushFails("reactor", s)
  <2>1. work' = work
    BY <1>1 DEF Receive, ReceiveNewOrder, ReceiveCancel, PushAccepted, LoadTail, TryPushFails, vars
  <2>2. QED
    BY <2>1
<1>2. CASE SubmitTask
  BY <1>2 DEF SubmitTask, TypeOK
<1>3. ASSUME NEW s \in Symbols, Worker(s) \/ ProcessOutgoing(s)
      PROVE  work'[t] = work[t] \/ StartNewOrder(t) \/ StartCancel(t)
  BY <1>3 DEF Worker, LoadTail, TryPushFails, StartNewOrder, MatchBestOrders,
              FinishMatching, PushReport, FinishTask,
              StartCancel, PushCanceled, ProcessOutgoing, TypeOK
<1>4. QED
  BY <1>1, <1>2, <1>3 DEF Next, Reactor, Poll

(* Orders keep moving in the order of their ids. *)
LEMMA IdNext ==
  ASSUME TypeOK, IdInv, [Next]_vars
  PROVE  IdInv'
<1>1. ASSUME NEW t \in Symbols
      PROVE  IdsBelow(Submitted, t)' /\ IdsOrdered(t)'
  <2>1. IdsBelow(Submitted, t) /\ IdsOrdered(t)
    BY DEF IdInv
  <2>2. CASE SubmitTask /\ reactor.symbol = t
    BY <2>2, IdSubmit
  <2>3. CASE ~SubmitTask
    <3>1. PICK n : n = Submitted
      OBVIOUS
    <3>2. Submitted' = n
      BY <2>3, <3>1, SubmittedNext
    <3>3. IdsBelow(n, t)
      BY <2>1, <3>1 DEF IdsBelow
    <3>4. CASE work'[t] = work[t] /\ ~StartNewOrder(t)
      <4>1. IdsBelow(n, t)' /\ IdsOrdered(t)'
        BY <2>1, <3>3, <3>4, IdStable
      <4>2. QED
        BY <3>2, <4>1 DEF IdsBelow
    <3>5. CASE StartNewOrder(t) \/ StartCancel(t)
      <4>1. IdsBelow(n, t)' /\ IdsOrdered(t)'
        BY <2>1, <3>3, <3>5, IdPop
      <4>2. QED
        BY <3>2, <4>1 DEF IdsBelow
    <3>6. QED
      BY <2>3, <3>4, <3>5, WorkSteps
  <2>4. CASE SubmitTask /\ reactor.symbol # t
    <3>1. work'[t] = work[t] /\ Known(t)' = Known(t)
      BY <2>4 DEF SubmitTask, TypeOK, Known, bookVars
    <3>2. Submitted <= Submitted' /\ Submitted \in Int /\ Submitted' \in Int
      BY <2>4 DEF SubmitTask, Submitted, NewInReactor, TypeOK
    <3>3. QED
      BY <2>1, <3>1, <3>2, IdTypes DEF IdsBelow, IdsOrdered
  <2>5. QED
    BY <2>2, <2>3, <2>4
<1>2. QED
  BY <1>1, SubmittedNext DEF IdInv

(* A match leaves in each side the orders that were there, one of them     *)
(* with more executed.                                                     *)
LEMMA MatchedSides ==
  ASSUME TypeOK, NEW s \in Symbols, NEW t \in Symbols,
         NEW bid \in Order, NEW ask \in Order, NEW newBid \in Order, NEW newAsk \in Order,
         Matches(s, bid, ask, newBid, newAsk)
  PROVE  /\ \A o \in bids'[t] : o \in bids[t] \/ (s = t /\ o = newBid)
         /\ \A o \in asks'[t] : o \in asks[t] \/ (s = t /\ o = newAsk)
         /\ \A o \in left'[t] : o \in left[t] \/ (s = t /\ o \in {newBid, newAsk})
<1>1. bids'[s] = AfterMatch(bids[s], bid, newBid) /\ asks'[s] = AfterMatch(asks[s], ask, newAsk)
  BY DEF Matches, TypeOK
<1>2. left'[s] \subseteq left[s] \cup {newBid, newAsk}
  BY DEF Matches, TypeOK
<1>3. s # t => bids'[t] = bids[t] /\ asks'[t] = asks[t] /\ left'[t] = left[t]
  BY DEF Matches, TypeOK
<1>4. /\ bids'[s] \subseteq bids[s] \cup {newBid}
      /\ asks'[s] \subseteq asks[s] \cup {newAsk}
  BY <1>1 DEF AfterMatch
<1>5. CASE s = t
  BY <1>2, <1>4, <1>5
<1>6. CASE s # t
  BY <1>3, <1>6
<1>7. QED
  BY <1>5, <1>6

(* An insertion puts one order into one side. *)
LEMMA InsertedSides ==
  ASSUME TypeOK, NEW s \in Symbols, NEW t \in Symbols, NEW x \in Order, Inserts(s, x)
  PROVE  /\ \A o \in bids'[t] : o \in bids[t] \/ (s = t /\ o = x)
         /\ \A o \in asks'[t] : o \in asks[t] \/ (s = t /\ o = x)
<1>1. CASE bids' = [bids EXCEPT ![s] = @ \cup {x}] /\ asks' = asks
  <2>1. bids'[s] = bids[s] \cup {x} /\ \A u \in Symbols \ {s} : bids'[u] = bids[u]
    BY <1>1 DEF TypeOK
  <2>2. QED
    BY <1>1, <2>1
<1>2. CASE asks' = [asks EXCEPT ![s] = @ \cup {x}] /\ bids' = bids
  <2>1. asks'[s] = asks[s] \cup {x} /\ \A u \in Symbols \ {s} : asks'[u] = asks[u]
    BY <1>2 DEF TypeOK
  <2>2. QED
    BY <1>2, <2>1
<1>3. QED
  BY <1>1, <1>2 DEF Inserts

(* Insertions keep arrivals in the order of the ids. *)
LEMMA ArrivalNext ==
  ASSUME TypeOK, IdInv, ArrivalInv, [Next]_vars
  PROVE  ArrivalInv'
<1> SUFFICES ASSUME NEW t \in Symbols
             PROVE  /\ \A o \in bids'[t] \cup asks'[t] : o.arrival <= inserted'[t]
                    /\ \A a, b \in bids'[t] : a.id < b.id => a.arrival < b.arrival
                    /\ \A a, b \in asks'[t] : a.id < b.id => a.arrival < b.arrival
  BY DEF ArrivalInv
<1>1. CASE UNCHANGED bookVars
  BY <1>1 DEF ArrivalInv, bookVars
<1>2. ASSUME NEW s \in Symbols, StartNewOrder(s)
      PROVE  /\ \A o \in bids'[t] \cup asks'[t] : o.arrival <= inserted'[t]
             /\ \A a, b \in bids'[t] : a.id < b.id => a.arrival < b.arrival
             /\ \A a, b \in asks'[t] : a.id < b.id => a.arrival < b.arrival
  <2>1. PICK x \in Order : Inserts(s, x)
    BY <1>2, InsertEffect
  <2>2. /\ \A o \in bids'[t] : o \in bids[t] \/ (s = t /\ o = x)
        /\ \A o \in asks'[t] : o \in asks[t] \/ (s = t /\ o = x)
    BY <2>1, InsertedSides
  <2>3. inserted[t] \in Nat /\ inserted'[t] = IF s = t THEN inserted[t] + 1 ELSE inserted[t]
    BY <1>2 DEF StartNewOrder, TypeOK
  <2>4. \A o \in bids[t] \cup asks[t] : o.arrival \in Nat /\ o.id \in Nat
    <3>1. \A o \in bids[t] \cup asks[t] : o \in Order
      BY DEF TypeOK
    <3>2. QED
      BY <3>1 DEF Order
  <2>5. s = t => x.arrival = inserted[t] + 1 /\ x.id \in Nat
    BY <2>1 DEF Inserts, Order
  <2>6. s = t => \A o \in bids[t] \cup asks[t] : o.id < x.id
    <3>1. 1 \in 1 .. Len(work[s]) /\ work[s][1].kind = "new" /\ x.id = work[s][1].order.id
      BY <1>2, <2>1 DEF StartNewOrder, TypeOK, Inserts
    <3>2. QED
      BY <3>1 DEF IdInv, IdsOrdered, Known
  <2>7. \A o \in bids[t] \cup asks[t] : o.arrival <= inserted[t]
    BY DEF ArrivalInv
  <2>8. \A o \in bids'[t] \cup asks'[t] : o.arrival <= inserted'[t]
    BY <2>2, <2>3, <2>4, <2>5, <2>7
  <2>9. \A a, b \in bids'[t] : a.id < b.id => a.arrival < b.arrival
    BY <2>2, <2>3, <2>4, <2>5, <2>6, <2>7 DEF ArrivalInv
  <2>10. \A a, b \in asks'[t] : a.id < b.id => a.arrival < b.arrival
    BY <2>2, <2>3, <2>4, <2>5, <2>6, <2>7 DEF ArrivalInv
  <2>11. QED
    BY <2>8, <2>9, <2>10
<1>3. ASSUME NEW s \in Symbols, MatchBestOrders(s)
      PROVE  /\ \A o \in bids'[t] \cup asks'[t] : o.arrival <= inserted'[t]
             /\ \A a, b \in bids'[t] : a.id < b.id => a.arrival < b.arrival
             /\ \A a, b \in asks'[t] : a.id < b.id => a.arrival < b.arrival
  <2>1. PICK bid, ask, newBid, newAsk \in Order : Matches(s, bid, ask, newBid, newAsk)
    BY <1>3, MatchEffect
  <2>2. /\ \A o \in bids'[t] : o \in bids[t] \/ (s = t /\ o = newBid)
        /\ \A o \in asks'[t] : o \in asks[t] \/ (s = t /\ o = newAsk)
    BY <2>1, MatchedSides
  <2>3. /\ bid \in bids[s] /\ newBid.id = bid.id /\ newBid.arrival = bid.arrival
        /\ ask \in asks[s] /\ newAsk.id = ask.id /\ newAsk.arrival = ask.arrival
    BY <2>1 DEF Matches, Trades
  <2>4. inserted' = inserted
    BY <1>3 DEF MatchBestOrders
  <2>5. \A o \in bids'[t] : \E x \in bids[t] : x.id = o.id /\ x.arrival = o.arrival
    BY <2>2, <2>3
  <2>6. \A o \in asks'[t] : \E x \in asks[t] : x.id = o.id /\ x.arrival = o.arrival
    BY <2>2, <2>3
  <2>7. QED
    BY <2>4, <2>5, <2>6 DEF ArrivalInv
<1>4. ASSUME NEW s \in Symbols, PushCanceled(s)
      PROVE  /\ \A o \in bids'[t] \cup asks'[t] : o.arrival <= inserted'[t]
             /\ \A a, b \in bids'[t] : a.id < b.id => a.arrival < b.arrival
             /\ \A a, b \in asks'[t] : a.id < b.id => a.arrival < b.arrival
  <2>1. bids'[t] \subseteq bids[t] /\ asks'[t] \subseteq asks[t] /\ inserted' = inserted
    BY <1>4, EraseEffect DEF Shrinks, PushCanceled
  <2>2. QED
    BY <2>1 DEF ArrivalInv
<1>5. QED
  BY <1>1, <1>2, <1>3, <1>4, BookSteps
-----------------------------------------------------------------------------
(* Quantities and limits *)

(* A match of two sane orders that have something open trades a positive   *)
(* quantity, leaves both sane, and leaves open what is not filled.         *)
LEMMA MatchSane ==
  ASSUME NEW bid \in Order, NEW ask \in Order, NEW newBid \in Order, NEW newAsk \in Order,
         OrderSane(bid), OrderSane(ask), bid.open > 0, ask.open > 0,
         bid.side = "BUY", ask.side # "BUY", bid.price >= ask.price,
         Trades(bid, newBid, ask.price, MatchQuantity(bid, ask)),
         Trades(ask, newAsk, ask.price, MatchQuantity(bid, ask))
  PROVE  /\ OrderSane(newBid) /\ (IsFilled(newBid) \/ newBid.open > 0)
         /\ OrderSane(newAsk) /\ (IsFilled(newAsk) \/ newAsk.open > 0)
<1> DEFINE q == MatchQuantity(bid, ask)
<1>1. /\ bid.open \in Int /\ bid.executed \in Int /\ bid.quantity \in Int /\ bid.price \in Int
      /\ ask.open \in Int /\ ask.executed \in Int /\ ask.quantity \in Int /\ ask.price \in Int
  BY DEF Order
<1>2. q \in Int /\ q > 0 /\ q <= bid.open /\ q <= ask.open
  BY <1>1 DEF MatchQuantity
<1>3. /\ Trades(bid, newBid, ask.price, q) /\ Trades(ask, newAsk, ask.price, q)
  OBVIOUS
<1> HIDE DEF q
<1>4. OrderSane(newBid) /\ (IsFilled(newBid) \/ newBid.open > 0)
  BY <1>1, <1>2, <1>3 DEF OrderSane, IsFilled, Trades
<1>5. OrderSane(newAsk) /\ (IsFilled(newAsk) \/ newAsk.open > 0)
  BY <1>1, <1>2, <1>3 DEF OrderSane, IsFilled, Trades
<1>6. QED
  BY <1>4, <1>5

(* What NoOverfill says of the books. *)
BookSane(s) ==
  /\ \A o \in bids[s] \cup asks[s] : OrderSane(o) /\ o.open > 0
  /\ \A o \in left[s] : OrderSane(o)

(* Every step keeps the orders of the books sane. *)
LEMMA BookSaneNext ==
  ASSUME TypeOK, SideInv, QuantityInv, NoOverfill, [Next]_vars, NEW t \in Symbols
  PROVE  BookSane(t)'
<1>1. BookSane(t)
  BY DEF NoOverfill, BookSane
<1>2. CASE UNCHANGED bookVars
  BY <1>1, <1>2 DEF BookSane, bookVars
<1>3. ASSUME NEW s \in Symbols, StartNewOrder(s)
      PROVE  BookSane(t)'
  <2>1. PICK x \in Order : Inserts(s, x)
    BY <1>3, InsertEffect
  <2>2. /\ \A o \in bids'[t] : o \in bids[t] \/ (s = t /\ o = x)
        /\ \A o \in asks'[t] : o \in asks[t] \/ (s = t /\ o = x)
    BY <2>1, InsertedSides
  <2>3. OrderSane(x) /\ x.open > 0
    <3>1. /\ 1 \in 1 .. Len(work[s]) /\ work[s][1].kind = "new" /\ work[s][1] = Head(work[s])
      BY <1>3 DEF StartNewOrder, TypeOK
    <3>2. Untraded(Head(work[s]).order) /\ Head(work[s]).order.open > 0
      BY <3>1 DEF QuantityInv, TasksSane, TaskSane
    <3>3. QED
      BY <2>1, <3>2 DEF Untraded, OrderSane, Inserts
  <2>4. left' = left
    BY <1>3 DEF StartNewOrder
  <2>5. QED
    BY <1>1, <2>2, <2>3, <2>4 DEF BookSane
<1>4. ASSUME NEW s \in Symbols, MatchBestOrders(s)
      PROVE  BookSane(t)'
  <2>1. PICK bid, ask, newBid, newAsk \in Order : Matches(s, bid, ask, newBid, newAsk)
    BY <1>4, MatchEffect
  <2>2. /\ \A o \in bids'[t] : o \in bids[t] \/ (s = t /\ o = newBid)
        /\ \A o \in asks'[t] : o \in asks[t] \/ (s = t /\ o = newAsk)
        /\ \A o \in left'[t] : o \in left[t] \/ (s = t /\ o \in {newBid, newAsk})
    BY <2>1, MatchedSides
  <2>3. /\ bid \in bids[s] /\ ask \in asks[s] /\ bid.price >= ask.price
        /\ Trades(bid, newBid, ask.price, MatchQuantity(bid, ask))
        /\ Trades(ask, newAsk, ask.price, MatchQuantity(bid, ask))
    BY <2>1 DEF Matches
  <2>4. /\ OrderSane(bid) /\ OrderSane(ask) /\ bid.open > 0 /\ ask.open > 0
        /\ bid.side = "BUY" /\ ask.side # "BUY"
    BY <2>3 DEF NoOverfill, SideInv
  <2>5. /\ OrderSane(newBid) /\ (IsFilled(newBid) \/ newBid.open > 0)
        /\ OrderSane(newAsk) /\ (IsFilled(newAsk) \/ newAsk.open > 0)
    BY <2>3, <2>4, MatchSane
  <2>6. ASSUME NEW o \in bids'[t] \cup asks'[t]
        PROVE  OrderSane(o) /\ o.open > 0
    <3>1. CASE s # t
      BY <1>1, <2>2, <3>1 DEF BookSane
    <3>2. CASE s = t
      <4>1. /\ bids'[s] = AfterMatch(bids[s], bid, newBid)
            /\ asks'[s] = AfterMatch(asks[s], ask, newAsk)
        BY <2>1 DEF Matches, TypeOK
      <4>2. \/ o \in bids[t] \cup asks[t]
            \/ o = newBid /\ ~IsFilled(newBid)
            \/ o = newAsk /\ ~IsFilled(newAsk)
        BY <3>2, <4>1 DEF AfterMatch
      <4>3. QED
        BY <1>1, <2>5, <4>2 DEF BookSane
    <3>3. QED
      BY <3>1, <3>2
  <2>7. \A o \in left'[t] : OrderSane(o)
    BY <1>1, <2>2, <2>5 DEF BookSane
  <2>8. QED
    BY <2>6, <2>7 DEF BookSane
<1>5. ASSUME NEW s \in Symbols, PushCanceled(s)
      PROVE  BookSane(t)'
  <2>1. /\ bids'[t] \subseteq bids[t] /\ asks'[t] \subseteq asks[t]
        /\ left'[t] \subseteq left[t] \cup bids[t] \cup asks[t]
    BY <1>5, EraseEffect DEF Shrinks
  <2>2. QED
    BY <1>1, <2>1 DEF BookSane
<1>6. QED
  BY <1>2, <1>3, <1>4, <1>5, BookSteps

(* Queues of sane reports stay so when a report is added or taken. *)
LEMMA SaneReports ==
  ASSUME NEW q \in Seq(Report), ReportsSane(q)
  PROVE  /\ q # <<>> => Head(q) \in Report /\ OrderSane(Head(q).order) /\ ReportsSane(Tail(q))
         /\ \A r \in Report : OrderSane(r.order) => ReportsSane(Append(q, r))
<1>1. ASSUME q # <<>>
      PROVE  Head(q) \in Report /\ OrderSane(Head(q).order) /\ ReportsSane(Tail(q))
  <2>1. /\ 1 \in 1 .. Len(q) /\ Head(q) = q[1] /\ Head(q) \in Report
        /\ \A k \in 1 .. Len(Tail(q)) : k + 1 \in 1 .. Len(q) /\ Tail(q)[k] = q[k + 1]
    BY <1>1
  <2>2. QED
    BY <2>1 DEF ReportsSane
<1>2. ASSUME NEW r \in Report, OrderSane(r.order)
      PROVE  ReportsSane(Append(q, r))
  <2>1. \A k \in 1 .. Len(Append(q, r)) :
          \/ k \in 1 .. Len(q) /\ Append(q, r)[k] = q[k]
          \/ Append(q, r)[k] = r
    OBVIOUS
  <2>2. QED
    BY <1>2, <2>1 DEF ReportsSane
<1>3. QED
  BY <1>1, <1>2

(* Queues of sane tasks stay so when a task is added or taken. *)
LEMMA SaneTasks ==
  ASSUME NEW q \in Seq(Task), TasksSane(q)
  PROVE  /\ q # <<>> => Head(q) \in Task /\ TaskSane(Head(q)) /\ TasksSane(Tail(q))
         /\ \A x \in Task : TaskSane(x) => TasksSane(Append(q, x))
<1>1. ASSUME q # <<>>
      PROVE  Head(q) \in Task /\ TaskSane(Head(q)) /\ TasksSane(Tail(q))
  <2>1. /\ 1 \in 1 .. Len(q) /\ Head(q) = q[1] /\ Head(q) \in Task
        /\ \A k \in 1 .. Len(Tail(q)) : k + 1 \in 1 .. Len(q) /\ Tail(q)[k] = q[k + 1]
    BY <1>1
  <2>2. QED
    BY <2>1 DEF TasksSane
<1>2. ASSUME NEW x \in Task, TaskSane(x)
      PROVE  TasksSane(Append(q, x))
  <2>1. \A k \in 1 .. Len(Append(q, x)) :
          \/ k \in 1 .. Len(q) /\ Append(q, x)[k] = q[k]
          \/ Append(q, x)[k] = x
    OBVIOUS
  <2>2. QED
    BY <1>2, <2>1 DEF TasksSane
<1>3. QED
  BY <1>1, <1>2

(* What the reactor builds from a FIX message is sane. *)
LEMMA NewOrderSane ==
  ASSUME NEW id, NEW c, NEW n, NEW side, NEW p, NEW q \in Nat
  PROVE  LET o == NewOrder(id, c, n, side, p, q) IN Untraded(o) /\ o.open = q
  BY DEF NewOrder, Untraded, OrderSane

(* The reactor's steps keep the orders on their way sane. *)
LEMMA ReactorSane ==
  ASSUME TypeOK, QuantityInv, [Next]_vars
  PROVE  (reactor # Idle => TaskSane(reactor.task))'
<1> USE ConstantsAssumption
<1>1. ASSUME NEW s \in Symbols, NEW c \in ClientIds, NEW n \in Sessions,
             NEW side \in NewOrderSides, NEW p \in Prices, NEW q \in Quantities,
             ReceiveNewOrder(s, c, n, side, p, q)
      PROVE  TaskSane(reactor'.task)
  <2> DEFINE o == NewOrder(orderNumber + 1, c, n, side, p, q)
  <2>1. reactor'.task.order = o /\ reactor'.task.kind = "new"
    BY <1>1 DEF ReceiveNewOrder
  <2>2. q \in Nat /\ q > 0
    OBVIOUS
  <2>3. Untraded(o) /\ o.open = q
    BY <2>2, NewOrderSane
  <2> HIDE DEF o
  <2>4. QED
    BY <2>1, <2>2, <2>3 DEF TaskSane
<1>2. ASSUME NEW s \in Symbols, NEW c \in ClientIds, NEW n \in Sessions,
             NEW side \in OrderSide, NEW orig \in ClientIds,
             ReceiveCancel(s, c, n, side, orig)
      PROVE  TaskSane(reactor'.task)
  <2>1. reactor'.task.order = CancelRequest(c, n, side) /\ reactor'.task.kind = "cancel"
    BY <1>2 DEF ReceiveCancel
  <2>2. Untraded(CancelRequest(c, n, side))
    BY NewOrderSane DEF CancelRequest
  <2>3. QED
    BY <2>1, <2>2 DEF TaskSane
<1>3. CASE PushAccepted
  <2>1. reactor \in Request /\ reactor # Idle
    BY <1>3 DEF PushAccepted, TypeOK, Idle
  <2>2. reactor'.task = reactor.task
    BY <1>3, <2>1 DEF PushAccepted, Request
  <2>3. QED
    BY <2>1, <2>2 DEF QuantityInv
<1>4. CASE SubmitTask
  BY <1>4 DEF SubmitTask
<1>5. CASE reactor' = reactor
  BY <1>5 DEF QuantityInv
<1>6. ASSUME NEW s \in Symbols, Worker(s) \/ ProcessOutgoing(s)
      PROVE  reactor' = reactor
  BY <1>6 DEF Worker, LoadTail, TryPushFails, StartNewOrder, MatchBestOrders,
              FinishMatching, PushReport, FinishTask,
              StartCancel, PushCanceled, ProcessOutgoing
<1>7. CASE UNCHANGED vars \/ \E s \in Symbols : LoadTail("reactor", s) \/ TryPushFails("reactor", s)
  BY <1>5, <1>7 DEF vars, LoadTail, TryPushFails
<1>8. QED
  BY <1>1, <1>2, <1>3, <1>4, <1>5, <1>6, <1>7 DEF Next, Receive, Reactor, Poll

(* The work queues stay sane. *)
LEMMA WorkSane ==
  ASSUME TypeOK, QuantityInv, [Next]_vars, NEW t \in Symbols
  PROVE  TasksSane(work[t])'
<1>1. work[t] \in Seq(Task) /\ TasksSane(work[t])
  BY DEF TypeOK, QuantityInv
<1>2. CASE work'[t] = work[t]
  BY <1>1, <1>2
<1>3. CASE StartNewOrder(t) \/ StartCancel(t)
  <2>1. work[t] # <<>> /\ work'[t] = Tail(work[t])
    BY <1>3 DEF StartNewOrder, StartCancel, TypeOK
  <2>2. QED
    BY <1>1, <2>1, SaneTasks
<1>4. CASE SubmitTask /\ reactor.symbol = t
  <2>1. reactor \in Request /\ reactor # Idle
    BY <1>4 DEF SubmitTask, TypeOK, Idle
  <2>2. reactor.task \in Task /\ TaskSane(reactor.task)
    BY <2>1 DEF Request, QuantityInv
  <2>3. work'[t] = Append(work[t], reactor.task)
    BY <1>4 DEF SubmitTask, TypeOK
  <2>4. QED
    BY <1>1, <2>2, <2>3, SaneTasks
<1>5. QED
  BY <1>2, <1>3, <1>4, WorkSteps

(* The reports a worker has still to push stay sane. *)
LEMMA PendingSane ==
  ASSUME TypeOK, SideInv, QuantityInv, NoOverfill, [Next]_vars, NEW t \in Symbols
  PROVE  ReportsSane(pending[t])'
<1>1. pending[t] \in Seq(Report) /\ ReportsSane(pending[t])
  BY DEF TypeOK, QuantityInv
<1>2. ASSUME NEW r, OrderSane(r.order)
      PROVE  ReportsSane(<<r>>)
  BY <1>2 DEF ReportsSane
<1>3. CASE pending'[t] = pending[t]
  BY <1>1, <1>3
<1>4. CASE MatchBestOrders(t)
  <2>1. PICK bid, ask, newBid, newAsk \in Order : Matches(t, bid, ask, newBid, newAsk)
    BY <1>4, MatchEffect
  <2>2. /\ bid \in bids[t] /\ ask \in asks[t] /\ bid.price >= ask.price
        /\ Trades(bid, newBid, ask.price, MatchQuantity(bid, ask))
        /\ Trades(ask, newAsk, ask.price, MatchQuantity(bid, ask))
    BY <2>1 DEF Matches
  <2>3. /\ OrderSane(bid) /\ OrderSane(ask) /\ bid.open > 0 /\ ask.open > 0
        /\ bid.side = "BUY" /\ ask.side # "BUY"
    BY <2>2 DEF NoOverfill, SideInv
  <2>4. OrderSane(newBid) /\ OrderSane(newAsk)
    BY <2>2, <2>3, MatchSane
  <2> DEFINE r1 == FillReport(newBid)
             r2 == FillReport(newAsk)
  <2>5. /\ r1 \in Report /\ OrderSane(r1.order)
        /\ r2 \in Report /\ OrderSane(r2.order)
    BY <2>4, FillReportType
  <2>6. pending'[t] = pending[t] \o <<r1, r2>>
    BY <2>1 DEF Matches, TypeOK
  <2> HIDE DEF r1, r2
  <2>7. \A k \in 1 .. Len(pending'[t]) :
          \/ k \in 1 .. Len(pending[t]) /\ pending'[t][k] = pending[t][k]
          \/ pending'[t][k] \in {r1, r2}
    BY <1>1, <2>5, <2>6
  <2>8. QED
    BY <1>1, <2>5, <2>7 DEF ReportsSane
<1>5. CASE PushReport(t)
  <2>1. pending[t] # <<>> /\ pending'[t] = Tail(pending[t])
    BY <1>5 DEF PushReport, TypeOK
  <2>2. QED
    BY <1>1, <2>1, SaneReports
<1>6. CASE StartCancel(t)
  <2> DEFINE request == Head(work[t]).order
             found == Find(t, request.side, Head(work[t]).orig, request.session)
  <2>1. OrderSane(request)
    <3>1. work[t] \in Seq(Task) /\ work[t] # <<>> /\ TasksSane(work[t])
      BY <1>6 DEF StartCancel, TypeOK, QuantityInv
    <3>2. QED
      BY <3>1, SaneTasks DEF TaskSane, Untraded
  <2>2. \A o \in found : OrderSane(o)
    <3>1. found \subseteq bids[t] \cup asks[t]
      BY DEF Find
    <3>2. QED
      BY <3>1 DEF NoOverfill
  <2>3. \/ \E o \in found : pending' = [pending EXCEPT ![t] = <<[order |-> o, status |-> "CANCELED"]>>]
        \/ pending' = [pending EXCEPT ![t] = <<[order |-> request, status |-> "REJECTED"]>>]
    BY <1>6 DEF StartCancel
  <2> HIDE DEF request, found
  <2>4. PICK r : OrderSane(r.order) /\ pending' = [pending EXCEPT ![t] = <<r>>]
    BY <2>1, <2>2, <2>3
  <2>5. pending'[t] = <<r>>
    BY <2>4 DEF TypeOK
  <2>6. QED
    BY <1>2, <2>4, <2>5
<1>7. CASE PushCanceled(t)
  <2>1. pending'[t] = <<>>
    BY <1>7 DEF PushCanceled, TypeOK
  <2>2. QED
    BY <2>1 DEF ReportsSane
<1>8. CASE Receive \/ Reactor \/ UNCHANGED vars
  BY <1>3, <1>8 DEF Receive, ReceiveNewOrder, ReceiveCancel, Reactor, LoadTail, TryPushFails,
                    PushAccepted, SubmitTask, vars, workerVars
<1>9. ASSUME NEW s \in Symbols, Worker(s) \/ ProcessOutgoing(s)
      PROVE  \/ pending'[t] = pending[t]
             \/ MatchBestOrders(t) \/ PushReport(t) \/ StartCancel(t) \/ PushCanceled(t)
  BY <1>9 DEF Worker, LoadTail, TryPushFails, StartNewOrder, MatchBestOrders,
              FinishMatching, PushReport, FinishTask,
              StartCancel, PushCanceled, ProcessOutgoing, workerVars, TypeOK
<1>10. QED
  BY <1>3, <1>4, <1>5, <1>6, <1>7, <1>8, <1>9 DEF Next, Poll

(* The reports on their way to the clients stay sane. *)
LEMMA OutSane ==
  ASSUME TypeOK, CancelInv, QuantityInv, NoOverfill, [Next]_vars, NEW t \in Symbols
  PROVE  ReportsSane(out[t])'
<1>1. out[t] \in Seq(Report) /\ ReportsSane(out[t])
  BY DEF TypeOK, NoOverfill, ReportsSane
<1>2. pending[t] \in Seq(Report) /\ ReportsSane(pending[t])
  BY DEF TypeOK, QuantityInv
<1>3. CASE out'[t] = out[t]
  BY <1>1, <1>3
<1>4. ReportsSane(<<>>)
  BY DEF ReportsSane
<1>5. CASE PushAccepted /\ reactor.symbol = t
  <2>1. reactor \in Request /\ reactor # Idle
    BY <1>5 DEF PushAccepted, TypeOK, Idle
  <2> DEFINE r == [order |-> reactor.task.order, status |-> "ACCEPTED"]
  <2>2. r \in Report
    BY <2>1 DEF Request, Task, Report, OrderStatus
  <2>3. OrderSane(r.order)
    BY <2>1 DEF QuantityInv, TaskSane, Untraded
  <2>4. out'[t] \in {<<>>, Append(out[t], r)}
    BY <1>5 DEF PushAccepted, Push, TypeOK
  <2> HIDE DEF r
  <2>5. QED
    BY <1>1, <1>4, <2>2, <2>3, <2>4, SaneReports
<1>6. CASE PushReport(t) \/ PushCanceled(t)
  <2>1. pending[t] # <<>> /\ Push("worker", t, Head(pending[t]))
    BY <1>6 DEF PushReport, PushCanceled, CancelInv
  <2>2. out'[t] \in {<<>>, Append(out[t], Head(pending[t]))}
    BY <2>1 DEF Push, TypeOK
  <2>3. QED
    BY <1>1, <1>2, <1>4, <2>1, <2>2, SaneReports
<1>7. CASE ProcessOutgoing(t)
  <2>1. out[t] # <<>> /\ out'[t] = Tail(out[t])
    BY <1>7 DEF ProcessOutgoing, TypeOK
  <2>2. QED
    BY <1>1, <2>1, SaneReports
<1>8. CASE PushAccepted /\ reactor.symbol # t
  BY <1>3, <1>8 DEF PushAccepted, Push, TypeOK
<1>9. CASE Receive \/ SubmitTask \/ UNCHANGED vars
  BY <1>3, <1>9 DEF Receive, ReceiveNewOrder, ReceiveCancel, SubmitTask, outVars, vars
<1>10. ASSUME NEW s \in Symbols,
             \/ StartNewOrder(s) \/ MatchBestOrders(s) \/ FinishMatching(s) \/ FinishTask(s)
             \/ StartCancel(s) \/ PushReport(s) \/ PushCanceled(s) \/ ProcessOutgoing(s)
      PROVE  out'[t] = out[t] \/ PushReport(t) \/ PushCanceled(t) \/ ProcessOutgoing(t)
  BY <1>10 DEF StartNewOrder, MatchBestOrders, FinishMatching, PushReport, FinishTask,
              StartCancel, PushCanceled, Push, ProcessOutgoing, outVars, TypeOK
<1>11. ASSUME NEW s \in Symbols, NEW u, LoadTail(u, s) \/ TryPushFails(u, s)
       PROVE  ReportsSane(out[t])'
  BY <1>1, <1>11, <1>4, TryEffect
<1>12. QED
  BY <1>3, <1>5, <1>6, <1>7, <1>8, <1>9, <1>10, <1>11 DEF Next, Reactor, Worker, Poll

(* Every step keeps every order sane, wherever it is. *)
LEMMA QuantityNext ==
  ASSUME TypeOK, CancelInv, SideInv, QuantityInv, NoOverfill, [Next]_vars
  PROVE  QuantityInv' /\ NoOverfill'
<1>1. QuantityInv'
  BY ReactorSane, WorkSane, PendingSane DEF QuantityInv
<1>2. NoOverfill'
  BY BookSaneNext, OutSane DEF NoOverfill, BookSane, ReportsSane
<1>3. QED
  BY <1>1, <1>2
-----------------------------------------------------------------------------
(* Price-time priority *)

(* The two conjuncts of PriceTimePriority for one book. *)
BidPriority(s) ==
  \A a \in bids[s], b \in bids[s] \cup left[s] :
    b.side = "BUY" /\ a.id < b.id /\ b.price <= a.price => b.executed = 0

AskPriority(s) ==
  \A a \in asks[s], b \in asks[s] \cup left[s] :
    b.side # "BUY" /\ a.id < b.id /\ b.price >= a.price => b.executed = 0

(* The order that trades was accepted before every order of its side that  *)
(* offers a price as good: this is where insertion order has to be the     *)
(* order of the ids.                                                       *)
LEMMA FirstIsOldest ==
  ASSUME TypeOK, ArrivalInv, NEW s \in Symbols
  PROVE  /\ \A bid, a \in bids[s] :
              IsFirst("BUY", bid, bids[s]) /\ bid.price <= a.price => ~(a.id < bid.id)
         /\ \A ask, a \in asks[s] :
              IsFirst("SELL", ask, asks[s]) /\ ask.price >= a.price => ~(a.id < ask.id)
<1>1. \A o \in bids[s] \cup asks[s] : o.id \in Nat /\ o.arrival \in Nat /\ o.price \in Int
  <2>1. \A o \in bids[s] \cup asks[s] : o \in Order
    BY DEF TypeOK
  <2>2. QED
    BY <2>1 DEF Order
<1>2. ASSUME NEW bid \in bids[s], NEW a \in bids[s],
             IsFirst("BUY", bid, bids[s]), bid.price <= a.price, a.id < bid.id
      PROVE  FALSE
  <2>1. a.arrival < bid.arrival
    BY <1>2 DEF ArrivalInv
  <2>2. a # bid
    BY <1>1, <2>1
  <2>3. Precedes("BUY", bid, a)
    BY <1>2, <2>2 DEF IsFirst
  <2>4. QED
    BY <1>1, <1>2, <2>1, <2>3 DEF Precedes, BetterPrice
<1>3. ASSUME NEW ask \in asks[s], NEW a \in asks[s],
             IsFirst("SELL", ask, asks[s]), ask.price >= a.price, a.id < ask.id
      PROVE  FALSE
  <2>1. a.arrival < ask.arrival
    BY <1>3 DEF ArrivalInv
  <2>2. a # ask
    BY <1>1, <2>1
  <2>3. Precedes("SELL", ask, a)
    BY <1>3, <2>2 DEF IsFirst
  <2>4. QED
    BY <1>1, <1>3, <2>1, <2>3 DEF Precedes, BetterPrice
<1>4. QED
  BY <1>2, <1>3

(* A match keeps the priority of the book it is in. *)
LEMMA MatchPriority ==
  ASSUME TypeOK, SideInv, ArrivalInv, NEW s \in Symbols, MatchBestOrders(s),
         BidPriority(s), AskPriority(s)
  PROVE  BidPriority(s)' /\ AskPriority(s)'
<1>1. PICK bid, ask, newBid, newAsk \in Order : Matches(s, bid, ask, newBid, newAsk)
  BY MatchEffect
<1>2. /\ \A o \in bids'[s] : o \in bids[s] \/ o = newBid
      /\ \A o \in asks'[s] : o \in asks[s] \/ o = newAsk
      /\ \A o \in left'[s] : o \in left[s] \/ o \in {newBid, newAsk}
  BY <1>1, MatchedSides
<1>3. /\ bid \in bids[s] /\ IsFirst("BUY", bid, bids[s])
      /\ ask \in asks[s] /\ IsFirst("SELL", ask, asks[s])
      /\ newBid.id = bid.id /\ newBid.price = bid.price /\ newBid.side = bid.side
      /\ newAsk.id = ask.id /\ newAsk.price = ask.price /\ newAsk.side = ask.side
  BY <1>1 DEF Matches, Trades
<1>4. bid.side = "BUY" /\ ask.side # "BUY" /\ bid.id \in Nat /\ ask.id \in Nat
  BY <1>3 DEF SideInv, Order
<1>5. BidPriority(s)'
  <2> SUFFICES ASSUME NEW a \in bids'[s], NEW b \in bids'[s] \cup left'[s],
                      b.side = "BUY", a.id < b.id, b.price <= a.price
               PROVE  b.executed = 0
    BY DEF BidPriority
  <2>1. PICK x \in bids[s] : x.id = a.id /\ x.price = a.price
    BY <1>2, <1>3
  <2>2. b \in bids[s] \cup left[s] \/ b = newBid
    BY <1>2, <1>3, <1>4
  <2>3. b # newBid
    BY <1>3, <2>1, FirstIsOldest
  <2>4. QED
    BY <2>1, <2>2, <2>3 DEF BidPriority
<1>6. AskPriority(s)'
  <2> SUFFICES ASSUME NEW a \in asks'[s], NEW b \in asks'[s] \cup left'[s],
                      b.side # "BUY", a.id < b.id, b.price >= a.price
               PROVE  b.executed = 0
    BY DEF AskPriority
  <2>1. PICK x \in asks[s] : x.id = a.id /\ x.price = a.price
    BY <1>2, <1>3
  <2>2. b \in asks[s] \cup left[s] \/ b = newAsk
    BY <1>2, <1>3, <1>4
  <2>3. b # newAsk
    BY <1>3, <2>1, FirstIsOldest
  <2>4. QED
    BY <2>1, <2>2, <2>3 DEF AskPriority
<1>7. QED
  BY <1>5, <1>6

(* An insertion keeps the priority: the new order has not traded and is    *)
(* the last one accepted.                                                  *)
LEMMA InsertPriority ==
  ASSUME TypeOK, IdInv, QuantityInv, NEW s \in Symbols, NEW t \in Symbols, StartNewOrder(s),
         BidPriority(t), AskPriority(t)
  PROVE  BidPriority(t)' /\ AskPriority(t)'
<1>1. PICK x \in Order : Inserts(s, x)
  BY InsertEffect
<1>2. /\ \A o \in bids'[t] : o \in bids[t] \/ (s = t /\ o = x)
      /\ \A o \in asks'[t] : o \in asks[t] \/ (s = t /\ o = x)
      /\ left' = left
  BY <1>1, InsertedSides DEF StartNewOrder
<1>3. 1 \in 1 .. Len(work[s]) /\ work[s][1].kind = "new" /\ work[s][1] = Head(work[s])
  BY DEF StartNewOrder, TypeOK
<1>4. x.executed = 0
  BY <1>1, <1>3 DEF QuantityInv, TasksSane, TaskSane, Untraded, Inserts
<1>5. s = t => \A o \in Known(t) : o.id < x.id /\ o.id \in Nat
  BY <1>1, <1>3, IdTypes DEF IdInv, IdsOrdered, Inserts
<1>6. x.id \in Nat
  BY DEF Order
<1>7. BidPriority(t)'
  BY <1>2, <1>4, <1>5, <1>6 DEF BidPriority, Known
<1>8. AskPriority(t)'
  BY <1>2, <1>4, <1>5, <1>6 DEF AskPriority, Known
<1>9. QED
  BY <1>7, <1>8

(* Every step keeps the priority. *)
LEMMA PriorityNext ==
  ASSUME TypeOK, SideInv, QuantityInv, IdInv, ArrivalInv, PriceTimePriority, [Next]_vars
  PROVE  PriceTimePriority'
<1> SUFFICES ASSUME NEW t \in Symbols
             PROVE  BidPriority(t)' /\ AskPriority(t)'
  BY DEF PriceTimePriority, BidPriority, AskPriority
<1>1. BidPriority(t) /\ AskPriority(t)
  BY DEF PriceTimePriority, BidPriority, AskPriority
<1>2. CASE bids'[t] = bids[t] /\ asks'[t] = asks[t] /\ left'[t] = left[t]
  BY <1>1, <1>2 DEF BidPriority, AskPriority
<1>3. CASE UNCHANGED bookVars
  BY <1>2, <1>3 DEF bookVars
<1>4. ASSUME NEW s \in Symbols, StartNewOrder(s)
      PROVE  BidPriority(t)' /\ AskPriority(t)'
  BY <1>1, <1>4, InsertPriority
<1>5. ASSUME NEW s \in Symbols, MatchBestOrders(s)
      PROVE  BidPriority(t)' /\ AskPriority(t)'
  <2>1. CASE s = t
    BY <1>1, <1>5, <2>1, MatchPriority
  <2>2. CASE s # t
    <3>1. bids'[t] = bids[t] /\ asks'[t] = asks[t] /\ left'[t] = left[t]
      BY <1>5, <2>2 DEF MatchBestOrders, TypeOK
    <3>2. QED
      BY <1>2, <3>1
  <2>3. QED
    BY <2>1, <2>2
<1>6. ASSUME NEW s \in Symbols, PushCanceled(s)
      PROVE  BidPriority(t)' /\ AskPriority(t)'
  <2>1. /\ bids'[t] \subseteq bids[t] /\ asks'[t] \subseteq asks[t]
        /\ left'[t] \subseteq left[t] \cup bids[t] \cup asks[t]
    BY <1>6, EraseEffect DEF Shrinks
  <2>2. /\ \A o \in bids[t] : o.side = "BUY"
        /\ \A o \in asks[t] : o.side # "BUY"
    BY DEF SideInv
  <2>3. BidPriority(t)'
    BY <1>1, <2>1, <2>2 DEF BidPriority
  <2>4. AskPriority(t)'
    BY <1>1, <2>1, <2>2 DEF AskPriority
  <2>5. QED
    BY <2>3, <2>4
<1>7. QED
  BY <1>3, <1>4, <1>5, <1>6, BookSteps
-----------------------------------------------------------------------------
(* The inductive invariant holds initially: queues and books are empty. *)
LEMMA InvInit == Init => IInv
<1> SUFFICES ASSUME Init
             PROVE  IInv
  OBVIOUS
<1>1. TypeOK /\ CancelInv
  BY TypeInit
<1>2. \A s \in Symbols : /\ work[s] = <<>> /\ pending[s] = <<>> /\ out[s] = <<>>
                         /\ bids[s] = {} /\ asks[s] = {} /\ left[s] = {}
  BY DEF Init
<1>3. reactor = Idle
  BY DEF Init
<1>4. SideInv /\ ArrivalInv /\ BookUncrossed /\ PriceTimePriority
  BY <1>2 DEF SideInv, ArrivalInv, BookUncrossed, PriceTimePriority
<1>5. QuantityInv /\ NoOverfill
  BY <1>2, <1>3 DEF QuantityInv, NoOverfill, TasksSane, ReportsSane
<1>6. IdInv
  BY <1>2, <1>3 DEF IdInv, IdsBelow, IdsOrdered, Known, NewInReactor
<1>7. QED
  BY <1>1, <1>4, <1>5, <1>6 DEF IInv

(* Every step preserves the inductive invariant. *)
LEMMA InvNext == IInv /\ [Next]_vars => IInv'
<1> SUFFICES ASSUME IInv, [Next]_vars
             PROVE  IInv'
  OBVIOUS
<1>1. TypeOK' /\ CancelInv'
  BY TypeNext DEF IInv
<1>2. SideInv' /\ QuantityInv' /\ NoOverfill'
  BY SideNext, QuantityNext DEF IInv
<1>3. IdInv' /\ ArrivalInv'
  BY IdNext, ArrivalNext DEF IInv
<1>4. BookUncrossed' /\ PriceTimePriority'
  BY UncrossedNext, PriorityNext DEF IInv
<1>5. QED
  BY <1>1, <1>2, <1>3, <1>4 DEF IInv

(* Outside processMatching no bid of a book reaches an ask of it: the      *)
(* matching loop leaves no trade undone, and no cancel reopens one.        *)
THEOREM NeverCrossed == Spec => []BookUncrossed
<1>1. IInv => BookUncrossed
  BY DEF IInv
<1>2. QED
  BY <1>1, InvInit, InvNext, PTL DEF Spec

(* The exchange matches by price-time priority, in the order in which      *)
(* addOrder accepted the orders.                                           *)
THEOREM PriorityRespected == Spec => []PriceTimePriority
<1>1. IInv => PriceTimePriority
  BY DEF IInv
<1>2. QED
  BY <1>1, InvInit, InvNext, PTL DEF Spec

(* No order trades more than its quantity or outside its limit, and every  *)
(* report on its way to a client says so.                                  *)
THEOREM NeverOverfilled == Spec => []NoOverfill
<1>1. IInv => NoOverfill
  BY DEF IInv
<1>2. QED
  BY <1>1, InvInit, InvNext, PTL DEF Spec
=============================================================================
