-------------------------- MODULE ServerLifecycle ---------------------------
(***************************************************************************)
(* The threads of the server from the moment run() has started them to the *)
(* exit of main, and the objects they share:                               *)
(*                                                                         *)
(*   main       ServerFix::run or ServerOffline::run, then the destruction *)
(*              of the server object;                                      *)
(*   gateway    whoever calls CentralOrderBook: the reactor thread in FIX  *)
(*              mode, main itself in OFFLINE mode;                         *)
(*   workers    one per symbol, of the thread pool;                        *)
(*   processor  the outgoing message processor;                            *)
(*   cli        the command line interface.                                *)
(*                                                                         *)
(* main() owns the server through unique_ptr<ServerBase>, and ServerBase   *)
(* has no virtual destructor: what runs is the destructor of ServerBase    *)
(* alone, which destroys its three members in reverse order. The body of   *)
(* ~ServerFix and the destructor of the reactor never run. (The standard   *)
(* leaves this undefined; it is what the build does.)                      *)
(*                                                                         *)
(* Orders and reports are counted, not described: MatchingEngine says what *)
(* they are. Sessions are in FixSessions, the logger in Logger.            *)
(***************************************************************************)
EXTENDS Integers, Sequences

CONSTANTS
  Modes,            \* order entry modes, of {"FIX", "OFFLINE"}
  NumberOfQueues,   \* one work and one outgoing queue per symbol
  WorkCapacity,     \* CENTRAL_ORDER_BOOK_WORK_QUEUE_SIZE_PER_THREAD
  OutCapacity,      \* OUTGOING_MESSAGE_QUEUE_SIZE_PER_THREAD
  MaxMatches,       \* bound: matches of one new order
  MaxMessages       \* bound: orders and cancels the server receives

ASSUME ConstantsAssumption ==
  /\ Modes \subseteq {"FIX", "OFFLINE"}
  /\ NumberOfQueues \in Nat \ {0}
  /\ WorkCapacity \in Nat \ {0}
  /\ OutCapacity \in Nat \ {0}
  /\ MaxMatches \in Nat
  /\ MaxMessages \in Nat

VARIABLES
  mode,         \* ORDER_ENTRY_MODE
  main,         \* where main is
  gateway,      \* where the gateway is, and the message it works on
  messages,     \* number of messages received (bounds the model)
  work,         \* work[q]: tasks submitted to worker q
  out,          \* out[q]: number of messages in outgoing queue q, until raced[q]
  pushing,      \* pushing[q]: threads between the load of m_write of outgoing
                \* queue q and the end of tryPush
  raced,        \* history: raced[q]: two pushes to outgoing queue q overlapped
  worker,       \* where each worker is, and the reports it has to push
  processor,    \* where the processor is, and the queue it looks at
  cli,          \* where the command line interface is
  flag,         \* the atomic flags by which threads are told to end
  destroyed     \* objects whose destructor has run

outVars == <<out, pushing, raced>>
vars == <<mode, main, gateway, messages, work, outVars, worker, processor, cli, flag, destroyed>>
-----------------------------------------------------------------------------
Queues == 1 .. NumberOfQueues

Flags == {"cliFinishing", "processorFinishing", "isStopping", "isShuttingDown"}

(* The members of ServerBase, and the message buffer of the processor,     *)
(* which is gone before the destructor of Actor joins the thread           *)
Objects == {"commandLineInterface", "outgoingMessage", "outgoingMessageProcessor",
            "centralOrderBook"}

AtPoll == [pc |-> "poll", kind |-> "new", queue |-> 1]

(* A thread that has ended, by returning or by an exception *)
Ended(pc) == pc \in {"ended", "failed"}

Raise(f) == flag' = [flag EXCEPT ![f] = TRUE]

Init ==
  /\ mode \in Modes
  /\ main = IF mode = "FIX" THEN "run" ELSE "submit"
  /\ gateway = AtPoll
  /\ messages = 0
  /\ work = [q \in Queues |-> <<>>]
  /\ out = [q \in Queues |-> 0]
  /\ pushing = [q \in Queues |-> {}]
  /\ raced = [q \in Queues |-> FALSE]
  /\ worker = [q \in Queues |-> [pc |-> "loop", reports |-> 0]]
  /\ processor = [pc |-> "check", queue |-> 1]
  /\ cli = "read"
  /\ flag = [f \in Flags |-> FALSE]
  /\ destroyed = {}
-----------------------------------------------------------------------------
(* The outgoing queues. Each has two producers, the gateway and its        *)
(* worker. Their push is tryPush until it succeeds.                        *)

Producers == {"gateway", "worker"}

AtPush(t, q) ==
  IF t = "gateway"
  THEN gateway.pc = "accept" /\ gateway.queue = q
  ELSE worker[q].pc = "push" /\ worker[q].reports > 0

(* tryPush loads m_write. If the other thread has loaded it too and has    *)
(* not stored it yet, messages are lost, or m_write falls behind m_read:   *)
(* what the queue holds is not known from here on.                         *)
LoadTail(t, q) ==
  /\ AtPush(t, q)
  /\ t \notin pushing[q]
  /\ pushing' = [pushing EXCEPT ![q] = @ \cup {t}]
  /\ raced' = [raced EXCEPT ![q] = @ \/ pushing[q] # {}]
  /\ out' = [out EXCEPT ![q] = IF raced'[q] THEN 0 ELSE @]
  /\ UNCHANGED <<mode, main, gateway, messages, work, worker, processor, cli, flag, destroyed>>

(* tryPush finds the queue full, as m_write and m_read have it, and        *)
(* returns; push calls it again.                                           *)
TryPushFails(t, q) ==
  /\ t \in pushing[q]
  /\ raced[q] \/ out[q] = OutCapacity
  /\ pushing' = [pushing EXCEPT ![q] = @ \ {t}]
  /\ UNCHANGED <<mode, main, gateway, messages, work, out, raced, worker, processor, cli, flag,
                 destroyed>>

(* Faulty variant: push does not wait for room. *)
PushUnchecked(t, q) ==
  /\ t \in pushing[q]
  /\ out' = [out EXCEPT ![q] = IF raced[q] THEN 0 ELSE @ + 1]
  /\ pushing' = [pushing EXCEPT ![q] = @ \ {t}]
  /\ UNCHANGED raced

(* tryPush finds room, writes the slot and stores m_write. *)
Push(t, q) ==
  /\ t \in pushing[q]
  /\ raced[q] \/ out[q] < OutCapacity
  /\ out' = [out EXCEPT ![q] = IF raced[q] THEN 0 ELSE @ + 1]
  /\ pushing' = [pushing EXCEPT ![q] = @ \ {t}]
  /\ UNCHANGED raced
-----------------------------------------------------------------------------
(* The gateway *)

(* onFixMessage, or the next order of the file. ServerOffline passes every *)
(* message to addOrder, cancels too.                                       *)
Receive(kind, q) ==
  /\ gateway.pc = "poll"
  /\ messages < MaxMessages
  /\ mode = "OFFLINE" => kind = "new"
  /\ messages' = messages + 1
  /\ gateway' = [pc |-> IF kind = "new" THEN "accept" ELSE "submit", kind |-> kind, queue |-> q]
  /\ UNCHANGED <<mode, main, work, outVars, worker, processor, cli, flag, destroyed>>

(* A message whose symbol is not in the configuration: getSecurityId       *)
(* throws before isSecuritySupported can be asked. Task::execute keeps the *)
(* exception of the reactor thread; in OFFLINE mode it unwinds main.       *)
ReceiveUnsupportedSymbol ==
  /\ gateway.pc = "poll"
  /\ messages < MaxMessages
  /\ mode = "OFFLINE" => messages = 0
  /\ messages' = messages + 1
  /\ gateway' = [gateway EXCEPT !.pc = "failed"]
  /\ main' = IF mode = "FIX" THEN main ELSE "destroyCli"
  /\ UNCHANGED <<mode, work, outVars, worker, processor, cli, flag, destroyed>>

(* addOrder pushes ACCEPTED. *)
PushAccepted ==
  /\ gateway.pc = "accept"
  /\ Push("gateway", gateway.queue)
  /\ gateway' = [gateway EXCEPT !.pc = "submit"]
  /\ UNCHANGED <<mode, main, messages, work, worker, processor, cli, flag, destroyed>>

(* ThreadPool::submitTask *)
SubmitTask ==
  /\ gateway.pc = "submit"
  /\ Len(work[gateway.queue]) < WorkCapacity
  /\ work' = [work EXCEPT ![gateway.queue] = Append(@, gateway.kind)]
  /\ gateway' = AtPoll
  /\ UNCHANGED <<mode, main, messages, outVars, worker, processor, cli, flag, destroyed>>

(* TCPServerReactor::reactorThread leaves its loop. *)
ReactorEnds ==
  /\ mode = "FIX"
  /\ gateway.pc = "poll"
  /\ flag["isStopping"]
  /\ gateway' = [gateway EXCEPT !.pc = "ended"]
  /\ UNCHANGED <<mode, main, messages, work, outVars, worker, processor, cli, flag, destroyed>>

(* ServerOffline::run has submitted the last order. *)
LastOrderSubmitted ==
  /\ main = "submit"
  /\ gateway.pc = "poll"
  /\ gateway' = [gateway EXCEPT !.pc = "ended"]
  /\ main' = "run"
  /\ UNCHANGED <<mode, messages, work, outVars, worker, processor, cli, flag, destroyed>>
-----------------------------------------------------------------------------
(* The workers: workerThreadFunction *)

WorkerLoop(q) ==
  /\ worker[q].pc = "loop"
  /\ worker' = [worker EXCEPT ![q].pc = IF flag["isShuttingDown"] THEN "ended" ELSE "pop"]
  /\ UNCHANGED <<mode, main, gateway, messages, work, outVars, processor, cli, flag, destroyed>>

(* taskCancelOrder reports once, taskNewOrder twice for every match. *)
Reports(kind) ==
  IF kind = "cancel" THEN {1} ELSE {2 * n : n \in 0 .. MaxMatches}

WorkerPop(q) ==
  /\ worker[q].pc = "pop"
  /\ \/ /\ work[q] = <<>>
        /\ worker' = [worker EXCEPT ![q].pc = "loop"]
        /\ work' = work
     \/ /\ work[q] # <<>>
        /\ \E n \in Reports(Head(work[q])) :
             worker' = [worker EXCEPT ![q] = [pc |-> "push", reports |-> n]]
        /\ work' = [work EXCEPT ![q] = Tail(@)]
  /\ UNCHANGED <<mode, main, gateway, messages, outVars, processor, cli, flag, destroyed>>

(* The reports of the task are pushed one by one. *)
WorkerPush(q) ==
  /\ worker[q].pc = "push"
  /\ worker[q].reports > 0
  /\ Push("worker", q)
  /\ worker' = [worker EXCEPT ![q].reports = @ - 1]
  /\ UNCHANGED <<mode, main, gateway, messages, work, processor, cli, flag, destroyed>>

WorkerDone(q) ==
  /\ worker[q].pc = "push"
  /\ worker[q].reports = 0
  /\ worker' = [worker EXCEPT ![q].pc = "loop"]
  /\ UNCHANGED <<mode, main, gateway, messages, work, outVars, processor, cli, flag, destroyed>>
-----------------------------------------------------------------------------
(* OutgoingMessageProcessor::run asks once per round over the queues       *)
(* whether it has to end.                                                  *)

ProcessorCheck ==
  /\ processor.pc = "check"
  /\ processor' = [pc |-> IF flag["processorFinishing"] THEN "ended" ELSE "visit", queue |-> 1]
  /\ UNCHANGED <<mode, main, gateway, messages, work, outVars, worker, cli, flag, destroyed>>

(* Faulty variant: the last queue is left out. *)
ProcessorVisitAllButLast ==
  /\ processor.pc = "visit"
  /\ out' = [out EXCEPT ![processor.queue] = IF @ > 0 THEN @ - 1 ELSE 0]
  /\ UNCHANGED <<pushing, raced>>
  /\ processor' = IF processor.queue + 1 < NumberOfQueues
                  THEN [processor EXCEPT !.queue = @ + 1]
                  ELSE [processor EXCEPT !.pc = "check"]
  /\ UNCHANGED <<mode, main, gateway, messages, work, worker, cli, flag, destroyed>>

ProcessorVisit ==
  /\ processor.pc = "visit"
  /\ out' = [out EXCEPT ![processor.queue] = IF @ > 0 THEN @ - 1 ELSE 0]
  /\ UNCHANGED <<pushing, raced>>
  /\ processor' = IF processor.queue < NumberOfQueues
                  THEN [processor EXCEPT !.queue = @ + 1]
                  ELSE [processor EXCEPT !.pc = "check"]
  /\ UNCHANGED <<mode, main, gateway, messages, work, worker, cli, flag, destroyed>>
-----------------------------------------------------------------------------
(* CommandLineInterface::run: the operator types a command, or nothing.    *)
(* The loop does not look at its own flag. In OFFLINE mode the pointer to  *)
(* the book is never set, and display ends the process: left out.          *)

Display ==
  /\ mode = "FIX"
  /\ cli = "read"
  /\ cli' = "display"
  /\ UNCHANGED <<mode, main, gateway, messages, work, outVars, worker, processor, flag, destroyed>>

DisplayDone ==
  /\ cli = "display"
  /\ cli' = "read"
  /\ UNCHANGED <<mode, main, gateway, messages, work, outVars, worker, processor, flag, destroyed>>

Quit ==
  /\ cli = "read"
  /\ Raise("cliFinishing")
  /\ cli' = "returning"
  /\ UNCHANGED <<mode, main, gateway, messages, work, outVars, worker, processor, destroyed>>

(* Task::execute stores the value run() returned. *)
CliEnds ==
  /\ cli = "returning"
  /\ cli' = "ended"
  /\ UNCHANGED <<mode, main, gateway, messages, work, outVars, worker, processor, flag, destroyed>>
-----------------------------------------------------------------------------
(* main *)

MainGoes(from, to) == main = from /\ main' = to

(* run() polls the command line and then the exceptions of the threads,    *)
(* and throws what the reactor threw.                                      *)
MainLoop ==
  /\ \/ /\ flag["cliFinishing"]
        /\ MainGoes("run", IF mode = "FIX" THEN "stop" ELSE "destroyCli")
     \/ /\ ~flag["cliFinishing"]
        /\ gateway.pc = "failed"
        /\ MainGoes("run", "destroyCli")
  /\ UNCHANGED <<mode, gateway, messages, work, outVars, worker, processor, cli, flag, destroyed>>

(* Faulty variant: the reactor is joined but never told to end. *)
StopReactorUntold ==
  /\ MainGoes("stop", "joinReactor")
  /\ UNCHANGED <<mode, gateway, messages, work, outVars, worker, processor, cli, flag, destroyed>>

StopReactor ==
  /\ MainGoes("stop", "joinReactor")
  /\ Raise("isStopping")
  /\ UNCHANGED <<mode, gateway, messages, work, outVars, worker, processor, cli, destroyed>>

JoinReactor ==
  /\ Ended(gateway.pc)
  /\ MainGoes("joinReactor", "destroyCli")
  /\ UNCHANGED <<mode, gateway, messages, work, outVars, worker, processor, cli, flag, destroyed>>

(* ~Actor joins the thread only if the actor was not told to end before. *)
DestroyCli ==
  /\ \/ /\ flag["cliFinishing"]
        /\ MainGoes("destroyCli", "destroyProcessor")
        /\ destroyed' = destroyed \cup {"commandLineInterface"}
        /\ flag' = flag
     \/ /\ ~flag["cliFinishing"]
        /\ MainGoes("destroyCli", "joinCli")
        /\ Raise("cliFinishing")
        /\ destroyed' = destroyed
  /\ UNCHANGED <<mode, gateway, messages, work, outVars, worker, processor, cli>>

JoinCli ==
  /\ Ended(cli)
  /\ MainGoes("joinCli", "destroyProcessor")
  /\ destroyed' = destroyed \cup {"commandLineInterface"}
  /\ UNCHANGED <<mode, gateway, messages, work, outVars, worker, processor, cli, flag>>

(* ~OutgoingMessageProcessor frees the message buffer, then ~Actor tells   *)
(* the thread to end and joins it.                                         *)
DestroyProcessor ==
  /\ \/ /\ MainGoes("destroyProcessor", "shutdownProcessor")
        /\ destroyed' = destroyed \cup {"outgoingMessage"}
        /\ flag' = flag
     \/ /\ MainGoes("shutdownProcessor", "joinProcessor")
        /\ Raise("processorFinishing")
        /\ destroyed' = destroyed
     \/ /\ Ended(processor.pc)
        /\ MainGoes("joinProcessor", "shutdownPool")
        /\ destroyed' = destroyed \cup {"outgoingMessageProcessor"}
        /\ flag' = flag
  /\ UNCHANGED <<mode, gateway, messages, work, outVars, worker, processor, cli>>

(* ~CentralOrderBook: ThreadPool::shutdown *)
ShutdownPool ==
  /\ MainGoes("shutdownPool", "joinWorkers")
  /\ Raise("isShuttingDown")
  /\ UNCHANGED <<mode, gateway, messages, work, outVars, worker, processor, cli, destroyed>>

(* Faulty variant: only the first thread of the pool is joined. *)
JoinWorkersFirst ==
  /\ Ended(worker[1].pc)
  /\ MainGoes("joinWorkers", "exit")
  /\ destroyed' = destroyed \cup {"centralOrderBook"}
  /\ UNCHANGED <<mode, gateway, messages, work, outVars, worker, processor, cli, flag>>

JoinWorkers ==
  /\ \A q \in Queues : Ended(worker[q].pc)
  /\ MainGoes("joinWorkers", "exit")
  /\ destroyed' = destroyed \cup {"centralOrderBook"}
  /\ UNCHANGED <<mode, gateway, messages, work, outVars, worker, processor, cli, flag>>
-----------------------------------------------------------------------------
MainStep ==
  \/ MainLoop \/ StopReactor \/ JoinReactor \/ DestroyCli \/ JoinCli
  \/ DestroyProcessor \/ ShutdownPool \/ JoinWorkers

GatewayStep ==
  \/ PushAccepted \/ SubmitTask \/ ReactorEnds \/ LastOrderSubmitted
  \/ \E q \in Queues : LoadTail("gateway", q) \/ TryPushFails("gateway", q)

WorkerStep(q) ==
  \/ WorkerLoop(q) \/ WorkerPop(q) \/ WorkerPush(q) \/ WorkerDone(q)
  \/ LoadTail("worker", q) \/ TryPushFails("worker", q)

ProcessorStep == ProcessorCheck \/ ProcessorVisit

CliStep == DisplayDone \/ CliEnds

Next ==
  \/ \E kind \in {"new", "cancel"}, q \in Queues : Receive(kind, q)
  \/ ReceiveUnsupportedSymbol
  \/ Display
  \/ Quit
  \/ MainStep
  \/ GatewayStep
  \/ \E q \in Queues : WorkerStep(q)
  \/ ProcessorStep
  \/ CliStep

(* Every thread runs; messages and commands may or may not come. *)
Fairness ==
  /\ WF_vars(MainStep)
  /\ WF_vars(GatewayStep)
  /\ \A q \in Queues : WF_vars(WorkerStep(q))
  /\ WF_vars(ProcessorStep)
  /\ WF_vars(CliStep)

Spec == Init /\ [][Next]_vars /\ Fairness
-----------------------------------------------------------------------------
(* Properties *)

MainType ==
  /\ mode \in {"FIX", "OFFLINE"}
  /\ main \in {"submit", "run", "stop", "joinReactor", "destroyCli", "joinCli",
               "destroyProcessor", "shutdownProcessor", "joinProcessor", "shutdownPool",
               "joinWorkers", "exit"}

GatewayType ==
  /\ gateway \in [pc : {"poll", "accept", "submit", "ended", "failed"},
                  kind : {"new", "cancel"}, queue : Queues]
  /\ messages \in 0 .. MaxMessages

WorkType ==
  /\ work \in [Queues -> Seq({"new", "cancel"})]
  /\ \A q \in Queues : Len(work[q]) <= WorkCapacity

OutType ==
  /\ out \in [Queues -> 0 .. OutCapacity]
  /\ pushing \in [Queues -> SUBSET Producers]
  /\ raced \in [Queues -> BOOLEAN]

WorkerType == worker \in [Queues -> [pc : {"loop", "pop", "push", "ended"}, reports : Nat]]

ProcessorType == processor \in [pc : {"check", "visit", "ended"}, queue : Queues]

CliType == cli \in {"read", "display", "returning", "ended"}

SharedType == flag \in [Flags -> BOOLEAN] /\ destroyed \subseteq Objects

(* Every variable keeps its type, and no queue grows beyond its capacity. *)
TypeOK ==
  /\ MainType
  /\ GatewayType
  /\ WorkType
  /\ OutType
  /\ WorkerType
  /\ ProcessorType
  /\ CliType
  /\ SharedType

(* The central order book and its queues outlive everybody who uses them:  *)
(* the gateway, the workers, the processor and the display command.        *)
BookOutlivesItsUsers ==
  "centralOrderBook" \in destroyed =>
    /\ Ended(gateway.pc)
    /\ Ended(processor.pc)
    /\ \A q \in Queues : Ended(worker[q].pc)
    /\ cli # "display"

(* A worker waits for room in a queue that nobody empties any more. *)
Stuck(q) ==
  /\ worker[q].pc = "push" /\ worker[q].reports > 0
  /\ out[q] = OutCapacity
  /\ Ended(processor.pc)

(* After quit, or a failure of the gateway, main comes to its end, with    *)
(* three exceptions the code has: a worker that still has a report for a   *)
(* full queue when the processor has ended, a failure that waits for the   *)
(* operator to type quit, and a queue that overlapping pushes have damaged *)
(* so that push may spin for ever.                                         *)
ServerEnds ==
  (flag["cliFinishing"] \/ gateway.pc = "failed") ~>
    \/ main = "exit"
    \/ \E q \in Queues : Stuck(q) \/ raced[q]
    \/ main = "joinCli" /\ cli = "read"

(* While the server is not ending, whatever waits in a queue is taken out  *)
(* of it, as long as no two pushes to its outgoing queue have overlapped:  *)
(* reactor, workers and processor never all wait for each other, also when *)
(* the queue of another symbol is damaged.                                 *)
QueuesDrain ==
  \A q \in Queues :
    (work[q] # <<>> \/ out[q] > 0) ~>
      (work[q] = <<>> /\ out[q] = 0) \/ flag["processorFinishing"] \/ raced[q]
=============================================================================
