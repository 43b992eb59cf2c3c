--------------------------- MODULE MatchingEngine ---------------------------
(***************************************************************************)
(* The order matching layer: CentralOrderBook, one OrderBook per symbol,   *)
(* the thread pool with one worker thread per symbol, and the two families *)
(* of bounded queues between the threads:                                  *)
(*                                                                         *)
(*   reactor thread --work[s]--> worker of s --out[s]--> outgoing message  *)
(*         \-------------------------------- out[s] ------^    processor   *)
(*                                                                         *)
(* Both queues are the ring buffers of module RingBuffer, which is shown   *)
(* there to be a bounded FIFO queue while one thread pushes. The reactor   *)
(* and the worker both push to out[s]: there a push is two steps, the load *)
(* of m_write and the rest of tryPush, and nothing is said about the queue *)
(* once a thread has loaded m_write while the other was between the two.   *)
(*                                                                         *)
(* A side of a book is a std::multimap from price to order. It is modelled *)
(* as a set of orders; "arrival" is the position of an order's insertion,  *)
(* by which a multimap keeps orders of equal price in insertion order.     *)
(***************************************************************************)
EXTENDS Integers, Sequences, FiniteSetsExt

CONSTANTS
  Symbols,        \* the symbols of the configuration file, one worker each
  Sessions,       \* FIX session identifiers
  ClientIds,      \* client order ids, chosen by the clients
  Prices,         \* limit prices the clients send, in ticks
  TicksPerUnit,   \* ticks in a whole currency unit
  Quantities,     \* quantities of new orders
  NewOrderSides,  \* what FixMessageConverter leaves in a new order's side
  WorkCapacity,   \* CENTRAL_ORDER_BOOK_WORK_QUEUE_SIZE_PER_THREAD
  OutCapacity,    \* OUTGOING_MESSAGE_QUEUE_SIZE_PER_THREAD
  MaxOrders,      \* bound: new orders received
  MaxCancels      \* bound: cancel requests received

OrderSide == {"NON_SUPPORTED", "BUY", "SELL"}

OrderStatus == {"ACCEPTED", "PARTIALLY_FILLED", "FILLED", "CANCELED", "REJECTED"}

(* FIX quantities are not validated by the server; the model assumes that  *)
(* clients send positive ones.                                             *)
ASSUME ConstantsAssumption ==
  /\ Prices \subseteq Nat
  /\ TicksPerUnit \in Nat \ {0}
  /\ Quantities \subseteq Nat \ {0}
  /\ NewOrderSides \subseteq OrderSide
  /\ WorkCapacity \in Nat \ {0}
  /\ OutCapacity \in Nat \ {0}
  /\ MaxOrders \in Nat
  /\ MaxCancels \in Nat

VARIABLES
  orderNumber,  \* m_orderNumber: the last order id given out
  cancels,      \* number of cancel requests received (bounds the model)
  reactor,      \* the request the reactor thread is working on
  work,         \* work[s]: tasks submitted to the worker of s
  bids,         \* bids[s]: m_bidOrders of the book of s
  asks,         \* asks[s]: m_askOrders of the book of s
  inserted,     \* inserted[s]: number of insertions into the book of s
  workerPc,     \* where the worker of s is
  pending,      \* pending[s]: reports the worker of s has still to push
  out,          \* out[s]: m_outgoingMessages of the queue of s, until raced[s]
  pushing,      \* pushing[s]: threads between the load of m_write of the
                \* queue of s and the end of tryPush
  raced,        \* history: raced[s]: two pushes to the queue of s overlapped
  view,         \* history: what the client of each order was last told, for
                \* orders of a side the book knows
  answered,     \* history: the orders whose clients were told anything
  left          \* history: left[s]: orders that left the book of s

vars == <<orderNumber, cancels, reactor, work, bids, asks, inserted,
          workerPc, pending, out, pushing, raced, view, answered, left>>
-----------------------------------------------------------------------------
(* Data *)

OrderIds == 1 .. MaxOrders

(* id 0 and price 0 stand for what a cancel request, which is never        *)
(* inserted, holds in these fields.                                        *)
Order == [id : Nat, client : ClientIds, session : Sessions, side : OrderSide,
          limit : Nat, price : Int, quantity : Nat, open : Int, executed : Int,
          lastPrice : Int, lastQuantity : Int, arrival : Nat]

Task == [kind : {"new", "cancel"}, order : Order, orig : ClientIds]

Report == [order : Order, status : OrderStatus]

Idle == [pc |-> "idle"]

Threads == {"reactor", "worker"}

Request == [pc : {"accept", "submit"}, symbol : Symbols, task : Task]

(* Faulty variant: decimals round up. *)
ParsePriceRounded(p) == (p + TicksPerUnit - 1) \div TicksPerUnit

(* getTagValueAsLong reads the price: std::stol drops the decimals.        *)
ParsePrice(p) == p \div TicksPerUnit

(* Order::Order() and the setters the converter calls. "limit" is the      *)
(* price as the client sent it, which the program does not keep.           *)
NewOrder(id, c, n, side, p, q) ==
  [id |-> id, client |-> c, session |-> n, side |-> side,
   limit |-> p, price |-> ParsePrice(p),
   quantity |-> q, open |-> q, executed |-> 0, lastPrice |-> 0,
   lastQuantity |-> 0, arrival |-> 0]

(* convertCancelOrder sets symbol and client id only: the side is whatever *)
(* the uninitialised field held.                                           *)
CancelRequest(c, n, side) == NewOrder(0, c, n, side, 0, 0)

IsFilled(o) == o.executed = o.quantity

(* Order::execute *)
Execute(o, price, q) ==
  [o EXCEPT !.open = @ - q, !.executed = @ + q,
            !.lastPrice = price, !.lastQuantity = q]

(* Faulty variant: the last trade alone decides. *)
FillReportByTrade(o) ==
  [order |-> o, status |-> IF o.lastQuantity = o.quantity THEN "FILLED" ELSE "PARTIALLY_FILLED"]

(* Order::isFilled decides between the two kinds of fill report. *)
FillReport(o) ==
  [order |-> o, status |-> IF IsFilled(o) THEN "FILLED" ELSE "PARTIALLY_FILLED"]
-----------------------------------------------------------------------------
(* One side of a book *)

(* greater<double> orders the bids, less<double> the asks. *)
BetterPrice(side, a, b) ==
  IF side = "BUY" THEN a.price > b.price ELSE a.price < b.price

(* Faulty variant: the last order of a price comes first. *)
PrecedesLastFirst(side, a, b) ==
  \/ BetterPrice(side, a, b)
  \/ a.price = b.price /\ a.arrival > b.arrival

(* Iteration order of the multimap. *)
Precedes(side, a, b) ==
  \/ BetterPrice(side, a, b)
  \/ a.price = b.price /\ a.arrival < b.arrival

(* o is what begin() gives on the side S, or the first match of a loop *)
IsFirst(side, o, S) == o \in S /\ \A x \in S \ {o} : Precedes(side, o, x)

(* The orders find() and erase() look at: same client id, same session. *)
Named(S, c, n) == {o \in S : o.client = c /\ o.session = n}

(* Faulty variant: the larger open quantity. *)
MatchQuantityLarger(bid, ask) == IF bid.open > ask.open THEN bid.open ELSE ask.open

(* OrderBook::matchTwoOrders trades the smaller open quantity. *)
MatchQuantity(bid, ask) == IF bid.open > ask.open THEN ask.open ELSE bid.open

(* Faulty variant: an order leaves the book with its first fill. *)
AfterMatchErased(S, old, new) == S \ {old}

(* An executed order stays in its side with its new quantities, unless it  *)
(* is filled.                                                              *)
AfterMatch(S, old, new) == (S \ {old}) \cup {o \in {new} : ~IsFilled(o)}
-----------------------------------------------------------------------------
Init ==
  /\ orderNumber = 0
  /\ cancels = 0
  /\ reactor = Idle
  /\ work = [s \in Symbols |-> <<>>]
  /\ bids = [s \in Symbols |-> {}]
  /\ asks = [s \in Symbols |-> {}]
  /\ inserted = [s \in Symbols |-> 0]
  /\ workerPc = [s \in Symbols |-> "idle"]
  /\ pending = [s \in Symbols |-> <<>>]
  /\ out = [s \in Symbols |-> <<>>]
  /\ pushing = [s \in Symbols |-> {}]
  /\ raced = [s \in Symbols |-> FALSE]
  /\ view = [i \in OrderIds |-> [status |-> "NONE", quantity |-> 0, executed |-> 0]]
  /\ answered = {}
  /\ left = [s \in Symbols |-> {}]

bookVars == <<bids, asks, inserted, left>>
workerVars == <<workerPc, pending>>
outVars == <<out, pushing, raced>>
clientVars == <<view, answered>>
-----------------------------------------------------------------------------
(* The outgoing queues. Their push is tryPush until it succeeds. *)

AtPush(t, s) ==
  IF t = "reactor"
  THEN reactor # Idle /\ reactor.pc = "accept" /\ reactor.symbol = s
  ELSE workerPc[s] \in {"reporting", "canceling"} /\ pending[s] # <<>>

(* tryPush loads m_write. If the other thread has loaded it too and has    *)
(* not stored it yet, both use the same slot or m_write goes back: what    *)
(* the queue holds is not known from here on.                              *)
LoadTail(t, s) ==
  /\ AtPush(t, s)
  /\ t \notin pushing[s]
  /\ pushing' = [pushing EXCEPT ![s] = @ \cup {t}]
  /\ raced' = [raced EXCEPT ![s] = @ \/ pushing[s] # {}]
  /\ out' = [out EXCEPT ![s] = IF raced'[s] THEN <<>> ELSE @]
  /\ UNCHANGED <<orderNumber, cancels, reactor, work, bookVars, workerVars, clientVars>>

(* tryPush finds the queue full and returns; push calls it again. *)
TryPushFails(t, s) ==
  /\ t \in pushing[s]
  /\ ~raced[s]
  /\ Len(out[s]) = OutCapacity
  /\ pushing' = [pushing EXCEPT ![s] = @ \ {t}]
  /\ UNCHANGED <<orderNumber, cancels, reactor, work, bookVars, workerVars, out, raced, clientVars>>

(* Faulty variant: a push that does not test for room. *)
PushUnchecked(t, s, report) ==
  /\ t \in pushing[s]
  /\ out' = [out EXCEPT ![s] = IF raced[s] THEN <<>> ELSE Append(@, report)]
  /\ pushing' = [pushing EXCEPT ![s] = @ \ {t}]
  /\ UNCHANGED raced

(* Faulty variant: tryPush in place of push, the report is lost when the   *)
(* queue is full.                                                          *)
PushOnce(t, s, report) ==
  /\ t \in pushing[s]
  /\ out' = [out EXCEPT ![s] = CASE raced[s] -> <<>>
                                 [] ~raced[s] /\ Len(@) < OutCapacity -> Append(@, report)
                                 [] OTHER -> @]
  /\ pushing' = [pushing EXCEPT ![s] = @ \ {t}]
  /\ UNCHANGED raced

(* tryPush finds room, writes the slot and stores m_write: of the push of  *)
(* one thread alone this is one step of a FIFO queue. Once pushes have     *)
(* overlapped it may return, whatever becomes of the report, or never.     *)
Push(t, s, report) ==
  /\ t \in pushing[s]
  /\ raced[s] \/ Len(out[s]) < OutCapacity
  /\ out' = [out EXCEPT ![s] = IF raced[s] THEN <<>> ELSE Append(@, report)]
  /\ pushing' = [pushing EXCEPT ![s] = @ \ {t}]
  /\ UNCHANGED raced
-----------------------------------------------------------------------------
(* The reactor thread *)

(* ServerFix::onNewOrder reaches addOrder, which draws the order id. *)
ReceiveNewOrder(s, c, n, side, p, q) ==
  /\ reactor = Idle
  /\ orderNumber < MaxOrders
  /\ orderNumber' = orderNumber + 1
  /\ reactor' = [pc |-> "accept", symbol |-> s,
                 task |-> [kind |-> "new", orig |-> c,
                           order |-> NewOrder(orderNumber + 1, c, n, side, p, q)]]
  /\ UNCHANGED <<cancels, work, bookVars, workerVars, outVars, clientVars>>

(* addOrder pushes ACCEPTED before it submits the task. *)
PushAccepted ==
  /\ reactor.pc = "accept"
  /\ Push("reactor", reactor.symbol, [order |-> reactor.task.order, status |-> "ACCEPTED"])
  /\ reactor' = [reactor EXCEPT !.pc = "submit"]
  /\ UNCHANGED <<orderNumber, cancels, work, bookVars, workerVars, clientVars>>

(* ServerFix::onCancelOrder reaches cancelOrder. *)
ReceiveCancel(s, c, n, side, orig) ==
  /\ reactor = Idle
  /\ cancels < MaxCancels
  /\ cancels' = cancels + 1
  /\ reactor' = [pc |-> "submit", symbol |-> s,
                 task |-> [kind |-> "cancel", orig |-> orig,
                           order |-> CancelRequest(c, n, side)]]
  /\ UNCHANGED <<orderNumber, work, bookVars, workerVars, outVars, clientVars>>

(* ThreadPool::submitTask: push spins while the work queue is full. *)
SubmitTask ==
  /\ reactor.pc = "submit"
  /\ Len(work[reactor.symbol]) < WorkCapacity
  /\ work' = [work EXCEPT ![reactor.symbol] = Append(@, reactor.task)]
  /\ reactor' = Idle
  /\ UNCHANGED <<orderNumber, cancels, bookVars, workerVars, outVars, clientVars>>
-----------------------------------------------------------------------------
(* The worker thread of symbol s *)

(* tryPop, then taskNewOrder: OrderBook::insert puts every side that is    *)
(* not BUY among the asks.                                                 *)
StartNewOrder(s) ==
  /\ workerPc[s] = "idle"
  /\ work[s] # <<>>
  /\ Head(work[s]).kind = "new"
  /\ LET o == [Head(work[s]).order EXCEPT !.arrival = inserted[s] + 1]
     IN  IF o.side = "BUY"
         THEN bids' = [bids EXCEPT ![s] = @ \cup {o}] /\ UNCHANGED asks
         ELSE asks' = [asks EXCEPT ![s] = @ \cup {o}] /\ UNCHANGED bids
  /\ inserted' = [inserted EXCEPT ![s] = @ + 1]
  /\ work' = [work EXCEPT ![s] = Tail(@)]
  /\ workerPc' = [workerPc EXCEPT ![s] = "matching"]
  /\ UNCHANGED <<orderNumber, cancels, reactor, pending, outVars, clientVars, left>>

(* One round of the loop of processMatching that trades: at the ask price, *)
(* the smaller open quantity, a copy of the bid and one of the ask queued. *)
MatchBestOrders(s) ==
  /\ workerPc[s] = "matching"
  /\ \E bid \in bids[s], ask \in asks[s] :
       /\ IsFirst("BUY", bid, bids[s])
       /\ IsFirst("SELL", ask, asks[s])
       /\ bid.price >= ask.price
       /\ LET q == MatchQuantity(bid, ask)
              newBid == Execute(bid, ask.price, q)
              newAsk == Execute(ask, ask.price, q)
          IN  /\ bids' = [bids EXCEPT ![s] = AfterMatch(@, bid, newBid)]
              /\ asks' = [asks EXCEPT ![s] = AfterMatch(@, ask, newAsk)]
              /\ pending' = [pending EXCEPT ![s] =
                               @ \o <<FillReport(newBid), FillReport(newAsk)>>]
              /\ left' = [left EXCEPT ![s] =
                            @ \cup {o \in {newBid, newAsk} : IsFilled(o)}]
  /\ UNCHANGED <<orderNumber, cancels, reactor, work, inserted, workerPc, outVars, clientVars>>

(* Faulty variant: the loop also returns after its first trade. *)
FinishMatchingOnce(s) ==
  /\ workerPc[s] = "matching"
  /\ \/ bids[s] = {}
     \/ asks[s] = {}
     \/ pending[s] # <<>>
     \/ \E bid \in bids[s], ask \in asks[s] :
          /\ IsFirst("BUY", bid, bids[s])
          /\ IsFirst("SELL", ask, asks[s])
          /\ bid.price < ask.price
  /\ workerPc' = [workerPc EXCEPT ![s] = "reporting"]
  /\ UNCHANGED <<orderNumber, cancels, reactor, work, bookVars, pending, outVars, clientVars>>

(* The round of the loop that returns: a side is empty or the best prices  *)
(* do not cross.                                                           *)
FinishMatching(s) ==
  /\ workerPc[s] = "matching"
  /\ \/ bids[s] = {}
     \/ asks[s] = {}
     \/ \E bid \in bids[s], ask \in asks[s] :
          /\ IsFirst("BUY", bid, bids[s])
          /\ IsFirst("SELL", ask, asks[s])
          /\ bid.price < ask.price
  /\ workerPc' = [workerPc EXCEPT ![s] = "reporting"]
  /\ UNCHANGED <<orderNumber, cancels, reactor, work, bookVars, pending, outVars, clientVars>>

(* taskNewOrder pushes the next processed order. Also the REJECTED report  *)
(* of a cancel.                                                            *)
PushReport(s) ==
  /\ workerPc[s] = "reporting"
  /\ pending[s] # <<>>
  /\ Push("worker", s, Head(pending[s]))
  /\ pending' = [pending EXCEPT ![s] = Tail(@)]
  /\ UNCHANGED <<orderNumber, cancels, reactor, work, bookVars, workerPc, clientVars>>

(* The task is over: the worker goes back to its queue. *)
FinishTask(s) ==
  /\ workerPc[s] = "reporting"
  /\ pending[s] = <<>>
  /\ workerPc' = [workerPc EXCEPT ![s] = "idle"]
  /\ UNCHANGED <<orderNumber, cancels, reactor, work, bookVars, pending, outVars, clientVars>>

(* OrderBook::find scans the side the request names, in price order. *)
Find(s, side, c, n) ==
  CASE side = "BUY"  -> {o \in bids[s] : IsFirst("BUY", o, Named(bids[s], c, n))}
    [] side = "SELL" -> {o \in asks[s] : IsFirst("SELL", o, Named(asks[s], c, n))}
    [] OTHER         -> {}

(* tryPop, then taskCancelOrder, up to the push of its report. *)
StartCancel(s) ==
  /\ workerPc[s] = "idle"
  /\ work[s] # <<>>
  /\ Head(work[s]).kind = "cancel"
  /\ LET request == Head(work[s]).order
         found == Find(s, request.side, Head(work[s]).orig, request.session)
     IN  \/ \E o \in found :
              /\ workerPc' = [workerPc EXCEPT ![s] = "canceling"]
              /\ pending' = [pending EXCEPT ![s] = <<[order |-> o, status |-> "CANCELED"]>>]
         \/ /\ found = {}
            /\ workerPc' = [workerPc EXCEPT ![s] = "reporting"]
            /\ pending' = [pending EXCEPT ![s] = <<[order |-> request, status |-> "REJECTED"]>>]
  /\ work' = [work EXCEPT ![s] = Tail(@)]
  /\ UNCHANGED <<orderNumber, cancels, reactor, bookVars, outVars, clientVars>>

(* Faulty variant: erase finds nothing. *)
ErasedNothing(s, o) == {}

(* OrderBook::erase looks the order up again, by client id and session, on *)
(* the side the order itself names.                                        *)
Erased(s, o) == Find(s, o.side, o.client, o.session)

(* taskCancelOrder pushes CANCELED and then erases. *)
PushCanceled(s) ==
  /\ workerPc[s] = "canceling"
  /\ Push("worker", s, Head(pending[s]))
  /\ LET erased == Erased(s, Head(pending[s]).order)
     IN  /\ bids' = [bids EXCEPT ![s] = @ \ erased]
         /\ asks' = [asks EXCEPT ![s] = @ \ erased]
         /\ left' = [left EXCEPT ![s] = @ \cup erased]
  /\ pending' = [pending EXCEPT ![s] = <<>>]
  /\ workerPc' = [workerPc EXCEPT ![s] = "idle"]
  /\ UNCHANGED <<orderNumber, cancels, reactor, work, inserted, clientVars>>
-----------------------------------------------------------------------------
(* The outgoing message processor takes the next report of queue s. What   *)
(* it then does with the session is not part of this module. A REJECTED    *)
(* report answers a cancel request and says nothing about an order.        *)
ProcessOutgoing(s) ==
  /\ out[s] # <<>>
  /\ out' = [out EXCEPT ![s] = Tail(@)]
  /\ LET o == Head(out[s]).order
         status == Head(out[s]).status
     IN  /\ view' = IF status = "REJECTED" \/ o.side = "NON_SUPPORTED" THEN view
                    ELSE [view EXCEPT ![o.id] =
                            [status |-> status, quantity |-> o.quantity, executed |-> o.executed]]
         /\ answered' = answered \cup {i \in {o.id} : status # "REJECTED"}
  /\ UNCHANGED <<orderNumber, cancels, reactor, work, bookVars, workerVars, pushing, raced>>

(* Every thread polls an empty queue: nothing is left to do until a client *)
(* sends something.                                                        *)
Quiescent ==
  /\ reactor = Idle
  /\ \A s \in Symbols : work[s] = <<>> /\ out[s] = <<>> /\ workerPc[s] = "idle"

Poll == Quiescent /\ UNCHANGED vars
-----------------------------------------------------------------------------
Receive ==
  \E s \in Symbols, c \in ClientIds, n \in Sessions :
    \/ \E side \in NewOrderSides, p \in Prices, q \in Quantities :
         ReceiveNewOrder(s, c, n, side, p, q)
    \/ \E side \in OrderSide, orig \in ClientIds : ReceiveCancel(s, c, n, side, orig)

Reactor ==
  \/ \E s \in Symbols : LoadTail("reactor", s) \/ TryPushFails("reactor", s)
  \/ PushAccepted
  \/ SubmitTask

Worker(s) ==
  \/ LoadTail("worker", s) \/ TryPushFails("worker", s)
  \/ StartNewOrder(s) \/ MatchBestOrders(s) \/ FinishMatching(s)
  \/ PushReport(s) \/ FinishTask(s)
  \/ StartCancel(s) \/ PushCanceled(s)

Next ==
  \/ Receive
  \/ Reactor
  \/ \E s \in Symbols : Worker(s) \/ ProcessOutgoing(s)
  \/ Poll

NoRace == \A s \in Symbols : ~raced[s]

(* Threads keep running; clients need not send anything. The processor     *)
(* visits every queue in each round of its loop. Once two pushes have      *)
(* overlapped a push may spin for ever: nothing is assumed then.           *)
Fairness ==
  /\ WF_vars(NoRace /\ Reactor)
  /\ \A s \in Symbols : WF_vars(NoRace /\ Worker(s)) /\ WF_vars(ProcessOutgoing(s))

Spec == Init /\ [][Next]_vars /\ Fairness
-----------------------------------------------------------------------------
(* Properties *)

ViewEntry ==
  [status : {"NONE", "ACCEPTED", "PARTIALLY_FILLED", "FILLED", "CANCELED"},
   quantity : Nat, executed : Int]

(* Type invariant: the state of CentralOrderBook, its books, its threads   *)
(* and their queues; no queue exceeds the capacity it was built with.      *)
TypeOK ==
  /\ orderNumber \in 0 .. MaxOrders
  /\ cancels \in 0 .. MaxCancels
  /\ reactor \in Request \cup {Idle}
  /\ work \in [Symbols -> Seq(Task)]
  /\ bids \in [Symbols -> SUBSET Order]
  /\ asks \in [Symbols -> SUBSET Order]
  /\ inserted \in [Symbols -> Nat]
  /\ workerPc \in [Symbols -> {"idle", "matching", "reporting", "canceling"}]
  /\ pending \in [Symbols -> Seq(Report)]
  /\ out \in [Symbols -> Seq(Report)]
  /\ pushing \in [Symbols -> SUBSET Threads]
  /\ raced \in [Symbols -> BOOLEAN]
  /\ view \in [OrderIds -> ViewEntry]
  /\ answered \subseteq Nat
  /\ left \in [Symbols -> SUBSET Order]
  /\ \A s \in Symbols : Len(work[s]) <= WorkCapacity /\ Len(out[s]) <= OutCapacity

(* Whenever the worker of a symbol is not inside processMatching, no bid   *)
(* of its book reaches the price of an ask: the loop leaves no trade       *)
(* undone, and neither a cancel nor a report reopens one.                  *)
BookUncrossed ==
  \A s \in Symbols : workerPc[s] # "matching" =>
    \A bid \in bids[s], ask \in asks[s] : bid.price < ask.price

(* Price-time priority, in the order in which addOrder accepted the        *)
(* orders: while an order rests in the book, no order of its side that was *)
(* accepted later and offers no better price has traded, whether that      *)
(* order still rests or has left the book.                                 *)
PriceTimePriority ==
  \A s \in Symbols :
    /\ \A a \in bids[s], b \in bids[s] \cup left[s] :
         b.side = "BUY" /\ a.id < b.id /\ b.price <= a.price => b.executed = 0
    /\ \A a \in asks[s], b \in asks[s] \cup left[s] :
         b.side # "BUY" /\ a.id < b.id /\ b.price >= a.price => b.executed = 0

(* No order ever trades more than its quantity or outside its limit: in    *)
(* the book and in every report, open and executed quantity add up to the  *)
(* order's, and a fill is at the limit or better. Reports are followed up  *)
(* to the first pushes to their queue that overlap.                        *)
OrderSane(o) ==
  /\ o.open + o.executed = o.quantity
  /\ o.open >= 0 /\ o.executed >= 0
  /\ o.executed > 0 =>
       IF o.side = "BUY" THEN o.lastPrice <= o.price ELSE o.lastPrice >= o.price

NoOverfill ==
  \A s \in Symbols :
    /\ \A o \in bids[s] \cup asks[s] : OrderSane(o) /\ o.open > 0
    /\ \A o \in left[s] : OrderSane(o)
    /\ \A i \in 1 .. Len(out[s]) : OrderSane(out[s][i].order)

(* What the orders of S have traded *)
Shares(S) == MapThenSumSet(LAMBDA o : o.executed, S)

(* Shares are neither made nor lost by matching: at every moment the       *)
(* shares bought in a symbol are the shares sold in it, over the orders in *)
(* the book and those that left it.                                        *)
SharesConserved ==
  \A s \in Symbols :
    LET known == bids[s] \cup asks[s] \cup left[s]
    IN  Shares({o \in known : o.side = "BUY"}) = Shares({o \in known : o.side # "BUY"})

(* The decimals that reading the price as an integer drops cost a seller   *)
(* less than one unit of currency and a buyer nothing: no buyer is told of *)
(* a fill above the limit it sent, no seller of one a whole unit below, in *)
(* every report up to the first pushes to its queue that overlap.          *)
FillsNearClientLimit ==
  \A s \in Symbols : \A i \in 1 .. Len(out[s]) :
    LET o == out[s][i].order
    IN  o.executed > 0 => IF o.side = "BUY" THEN o.lastPrice * TicksPerUnit <= o.limit
                          ELSE o.lastPrice * TicksPerUnit > o.limit - TicksPerUnit

(* When everything has been processed, what the clients were told agrees   *)
(* with the book: no report is missing, none is stale, and every order     *)
(* that left the book was reported FILLED or CANCELED. Only two things     *)
(* break this: pushes to the outgoing queue of the symbol that overlap,    *)
(* and a side that is neither BUY nor SELL, whose orders erase() does not  *)
(* find.                                                                   *)
ClientsKnowTheBook ==
  Quiescent =>
    \A s \in {x \in Symbols : ~raced[x]} :
      /\ \A o \in {x \in bids[s] \cup asks[s] : x.side # "NON_SUPPORTED"} :
           /\ view[o.id].executed = o.executed
           /\ view[o.id].status = IF o.executed = 0 THEN "ACCEPTED" ELSE "PARTIALLY_FILLED"
      /\ \A o \in {x \in left[s] : x.side # "NON_SUPPORTED"} :
           /\ view[o.id].executed = o.executed
           /\ view[o.id].status = IF IsFilled(o) THEN "FILLED" ELSE "CANCELED"

(* A cancel is answered with REJECTED ("Order to cancel could not be       *)
(* found") only if its session has no order of that id in the book.        *)
CancelOfRestingOrderSucceeds ==
  [][\A s \in Symbols :
       workerPc[s] = "idle" /\ pending'[s] # <<>> /\ Head(pending'[s]).status = "REJECTED"
       => Named(bids[s] \cup asks[s], Head(work[s]).orig, Head(work[s]).order.session) = {}]_vars

(* Every order that addOrder numbers is answered, unless two pushes to an  *)
(* outgoing queue overlap: the back pressure of full queues between        *)
(* reactor, worker and processor alone never stops the three.              *)
EveryOrderAnswered ==
  \A i \in OrderIds : (orderNumber >= i) ~> (i \in answered \/ ~NoRace)

(* What each client is told about each order of a side the book knows, up  *)
(* to the first pushes to its queue that overlap, is a behaviour of the    *)
(* order life cycle: ACCEPTED first and once, fills that add up, nothing   *)
(* after FILLED or CANCELED.                                               *)
LifeCycle == INSTANCE OrderLifeCycle
ImplementsLifeCycle == LifeCycle!Spec
=============================================================================
