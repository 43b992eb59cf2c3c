----------------------- MODULE ServerLifecycleProofs ------------------------
(***************************************************************************)
(* The types of ServerLifecycle, and that the central order book outlives  *)
(* its users, for any number of symbols, any capacities and any number of  *)
(* messages.                                                               *)
(***************************************************************************)
EXTENDS ServerLifecycle, TLAPS

(* The steps of Next by thread, so that proofs split them once. *)
LEMMA NextCases ==
  ASSUME Next
  PROVE  \/ \E kind \in {"new", "cancel"}, q \in Queues : Receive(kind, q)
         \/ ReceiveUnsupportedSymbol
         \/ PushAccepted \/ SubmitTask \/ ReactorEnds \/ LastOrderSubmitted
         \/ \E q \in Queues : WorkerLoop(q) \/ WorkerPop(q) \/ WorkerPush(q) \/ WorkerDone(q)
         \/ \E t \in Producers, q \in Queues : LoadTail(t, q) \/ TryPushFails(t, q)
         \/ ProcessorCheck \/ ProcessorVisit
         \/ Display \/ DisplayDone \/ Quit \/ CliEnds
         \/ MainLoop \/ StopReactor \/ JoinReactor \/ DestroyCli \/ JoinCli
         \/ DestroyProcessor \/ ShutdownPool \/ JoinWorkers
  BY DEF Next, MainStep, GatewayStep, WorkerStep, ProcessorStep, CliStep, Producers
-----------------------------------------------------------------------------
(* Types *)

(* There is a first queue, and queues are numbers. *)
LEMMA QueuesType == Queues \subseteq Nat /\ 1 \in Queues
  BY ConstantsAssumption DEF Queues

(* A task reports a number of times. *)
LEMMA ReportsType == \A kind : Reports(kind) \subseteq Nat
  BY ConstantsAssumption DEF Reports

(* A push finds room, and leaves the queue within its capacity. *)
LEMMA PushType ==
  ASSUME TypeOK, NEW t \in Producers, NEW q \in Queues, Push(t, q)
  PROVE  OutType'
<1>1. OutType
  BY DEF TypeOK
<1>2. ~raced[q] => out[q] + 1 \in 0 .. OutCapacity
  BY <1>1, ConstantsAssumption DEF Push, OutType, outVars
<1>3. (IF raced[q] THEN 0 ELSE out[q] + 1) \in 0 .. OutCapacity
  BY <1>2, ConstantsAssumption
<1> QED
  BY <1>1, <1>3 DEF Push, OutType, outVars

(* Every variable of the server keeps its type, and no queue grows beyond  *)
(* its capacity.                                                           *)
THEOREM TypeCorrect == Spec => []TypeOK
<1> USE ConstantsAssumption, QueuesType
<1>1. Init => TypeOK
  BY DEF Init, TypeOK, AtPoll, Flags, Objects, MainType, GatewayType, WorkType, OutType, outVars,
     WorkerType, ProcessorType, CliType, SharedType
<1>2. TypeOK /\ [Next]_vars => TypeOK'
  <2> SUFFICES ASSUME TypeOK, [Next]_vars PROVE TypeOK'
    OBVIOUS
  <2> USE DEF TypeOK
  <2>1. ASSUME NEW kind \in {"new", "cancel"}, NEW q \in Queues, Receive(kind, q) PROVE TypeOK'
    <3>1. GatewayType'
      BY <2>1 DEF Receive, GatewayType
    <3> QED
      BY <2>1, <3>1 DEF Receive, MainType, WorkType, OutType, outVars, WorkerType, ProcessorType,
         CliType, SharedType
  <2>2. CASE ReceiveUnsupportedSymbol
    <3>1. GatewayType'
      BY <2>2 DEF ReceiveUnsupportedSymbol, GatewayType
    <3>2. MainType'
      BY <2>2 DEF ReceiveUnsupportedSymbol, MainType
    <3> QED
      BY <2>2, <3>1, <3>2 DEF ReceiveUnsupportedSymbol, WorkType, OutType, outVars, WorkerType,
         ProcessorType, CliType, SharedType
  <2>3. CASE PushAccepted
    <3>1. GatewayType'
      BY <2>3 DEF PushAccepted, GatewayType
    <3>2. OutType'
      BY <2>3, PushType DEF PushAccepted, GatewayType, Producers
    <3> QED
      BY <2>3, <3>1, <3>2 DEF PushAccepted, MainType, WorkType, WorkerType, ProcessorType,
         CliType, SharedType
  <2>4. CASE SubmitTask
    <3>1. GatewayType'
      BY <2>4 DEF SubmitTask, GatewayType, AtPoll
    <3>2. WorkType'
      <4> DEFINE i == gateway.queue
                 longer == Append(work[i], gateway.kind)
      <4>1. i \in Queues /\ gateway.kind \in {"new", "cancel"}
        BY DEF GatewayType
      <4>2. work[i] \in Seq({"new", "cancel"}) /\ Len(work[i]) < WorkCapacity
        BY <2>4, <4>1 DEF SubmitTask, WorkType
      <4>3. longer \in Seq({"new", "cancel"}) /\ Len(longer) <= WorkCapacity
        BY <4>1, <4>2
      <4>4. work' = [work EXCEPT ![i] = longer]
        BY <2>4, <4>1 DEF SubmitTask, WorkType
      <4> HIDE DEF longer, i
      <4> QED
        BY <4>1, <4>3, <4>4 DEF WorkType
    <3> QED
      BY <2>4, <3>1, <3>2 DEF SubmitTask, MainType, OutType, outVars, WorkerType, ProcessorType,
         CliType, SharedType
  <2>5. CASE ReactorEnds
    <3>1. GatewayType'
      BY <2>5 DEF ReactorEnds, GatewayType
    <3> QED
      BY <2>5, <3>1 DEF ReactorEnds, MainType, WorkType, OutType, outVars, WorkerType,
         ProcessorType, CliType, SharedType
  <2>6. CASE LastOrderSubmitted
    <3>1. GatewayType'
      BY <2>6 DEF LastOrderSubmitted, GatewayType
    <3>2. MainType'
      BY <2>6 DEF LastOrderSubmitted, MainType
    <3> QED
      BY <2>6, <3>1, <3>2 DEF LastOrderSubmitted, WorkType, OutType, outVars, WorkerType,
         ProcessorType, CliType, SharedType
  <2>7. ASSUME NEW q \in Queues, WorkerLoop(q) PROVE TypeOK'
    <3>1. WorkerType'
      BY <2>7 DEF WorkerLoop, WorkerType
    <3> QED
      BY <2>7, <3>1 DEF WorkerLoop, MainType, GatewayType, WorkType, OutType, outVars,
         ProcessorType, CliType, SharedType
  <2>8. ASSUME NEW q \in Queues, WorkerPop(q) PROVE TypeOK'
    <3>1. WorkerType'
      <4>1. CASE work[q] = <<>>
        BY <2>8, <4>1 DEF WorkerPop, WorkerType
      <4>2. CASE work[q] # <<>>
        <5>1. PICK n \in Reports(Head(work[q])) :
                worker' = [worker EXCEPT ![q] = [pc |-> "push", reports |-> n]]
          BY <2>8, <4>2 DEF WorkerPop
        <5>2. n \in Nat
          BY <5>1, ReportsType
        <5> QED
          BY <5>1, <5>2 DEF WorkerType
      <4> QED
        BY <4>1, <4>2
    <3>2. WorkType'
      <4>1. CASE work' = work
        BY <4>1 DEF WorkType
      <4>2. CASE work[q] # <<>> /\ work' = [work EXCEPT ![q] = Tail(@)]
        <5> DEFINE shorter == Tail(work[q])
        <5>1. work[q] \in Seq({"new", "cancel"}) /\ Len(work[q]) <= WorkCapacity
          BY DEF WorkType
        <5>2. shorter \in Seq({"new", "cancel"}) /\ Len(shorter) <= WorkCapacity
          BY <4>2, <5>1
        <5>3. work' = [work EXCEPT ![q] = shorter]
          BY <4>2 DEF WorkType
        <5> HIDE DEF shorter
        <5> QED
          BY <5>2, <5>3 DEF WorkType
      <4> QED
        BY <2>8, <4>1, <4>2 DEF WorkerPop
    <3> QED
      BY <2>8, <3>1, <3>2 DEF WorkerPop, MainType, GatewayType, OutType, outVars, ProcessorType,
         CliType, SharedType
  <2>9. ASSUME NEW q \in Queues, WorkerPush(q) \/ WorkerDone(q) PROVE TypeOK'
    <3>1. WorkerType'
      <4>1. CASE WorkerPush(q)
        <5>1. worker[q].reports - 1 \in Nat
          BY <4>1 DEF WorkerPush, WorkerType
        <5> QED
          BY <4>1, <5>1 DEF WorkerPush, WorkerType
      <4>2. CASE WorkerDone(q)
        BY <4>2 DEF WorkerDone, WorkerType
      <4> QED
        BY <2>9, <4>1, <4>2
    <3>2. OutType'
      BY <2>9, PushType DEF WorkerPush, WorkerDone, OutType, outVars, Producers
    <3> QED
      BY <2>9, <3>1, <3>2 DEF WorkerPush, WorkerDone, MainType, GatewayType, WorkType,
         ProcessorType, CliType, SharedType
  <2>25. ASSUME NEW t \in Producers, NEW q \in Queues, LoadTail(t, q) \/ TryPushFails(t, q)
         PROVE  TypeOK'
    <3>1. OutType'
      <4>1. CASE LoadTail(t, q)
        <5>1. pushing' \in [Queues -> SUBSET Producers] /\ raced' \in [Queues -> BOOLEAN]
          BY <4>1 DEF LoadTail, OutType, outVars
        <5>2. (IF raced'[q] THEN 0 ELSE out[q]) \in 0 .. OutCapacity
          BY DEF OutType, outVars
        <5>3. out' = [out EXCEPT ![q] = IF raced'[q] THEN 0 ELSE out[q]]
          BY <4>1 DEF LoadTail, OutType, outVars
        <5> QED
          BY <5>1, <5>2, <5>3 DEF OutType, outVars
      <4>2. CASE TryPushFails(t, q)
        BY <4>2 DEF TryPushFails, OutType, outVars
      <4> QED
        BY <2>25, <4>1, <4>2
    <3> QED
      BY <2>25, <3>1 DEF LoadTail, TryPushFails, MainType, GatewayType, WorkType, WorkerType,
         ProcessorType, CliType, SharedType
  <2>10. CASE ProcessorCheck
    <3>1. ProcessorType'
      BY <2>10 DEF ProcessorCheck, ProcessorType
    <3> QED
      BY <2>10, <3>1 DEF ProcessorCheck, MainType, GatewayType, WorkType, OutType, outVars,
         WorkerType, CliType, SharedType
  <2>11. CASE ProcessorVisit
    <3>1. ProcessorType'
      BY <2>11 DEF ProcessorVisit, ProcessorType, Queues
    <3>2. OutType'
      BY <2>11 DEF ProcessorVisit, OutType, outVars, Queues, ProcessorType
    <3> QED
      BY <2>11, <3>1, <3>2 DEF ProcessorVisit, MainType, GatewayType, WorkType,
         WorkerType, CliType, SharedType
  <2>12. CASE Display
    <3>1. CliType'
      BY <2>12 DEF Display, CliType
    <3> QED
      BY <2>12, <3>1 DEF Display, MainType, GatewayType, WorkType, OutType, outVars, WorkerType,
         ProcessorType, SharedType
  <2>13. CASE DisplayDone
    <3>1. CliType'
      BY <2>13 DEF DisplayDone, CliType
    <3> QED
      BY <2>13, <3>1 DEF DisplayDone, MainType, GatewayType, WorkType, OutType, outVars,
         WorkerType, ProcessorType, SharedType
  <2>14. CASE Quit
    <3>1. CliType'
      BY <2>14 DEF Quit, CliType, Raise, Flags
    <3>2. SharedType'
      BY <2>14 DEF Quit, SharedType, Raise, Flags
    <3> QED
      BY <2>14, <3>1, <3>2 DEF Quit, MainType, GatewayType, WorkType, OutType, outVars, WorkerType,
         ProcessorType
  <2>15. CASE CliEnds
    <3>1. CliType'
      BY <2>15 DEF CliEnds, CliType
    <3> QED
      BY <2>15, <3>1 DEF CliEnds, MainType, GatewayType, WorkType, OutType, outVars, WorkerType,
         ProcessorType, SharedType
  <2>16. CASE MainLoop
    <3>1. MainType'
      BY <2>16 DEF MainLoop, MainType, MainGoes
    <3> QED
      BY <2>16, <3>1 DEF MainLoop, GatewayType, WorkType, OutType, outVars, WorkerType,
         ProcessorType, CliType, SharedType
  <2>17. CASE StopReactor
    <3>1. MainType'
      BY <2>17 DEF StopReactor, MainType, MainGoes, Raise, Flags
    <3>2. SharedType'
      BY <2>17 DEF StopReactor, SharedType, MainGoes, Raise, Flags
    <3> QED
      BY <2>17, <3>1, <3>2 DEF StopReactor, GatewayType, WorkType, OutType, outVars, WorkerType,
         ProcessorType, CliType
  <2>18. CASE JoinReactor
    <3>1. MainType'
      BY <2>18 DEF JoinReactor, MainType, MainGoes
    <3> QED
      BY <2>18, <3>1 DEF JoinReactor, GatewayType, WorkType, OutType, outVars, WorkerType,
         ProcessorType, CliType, SharedType
  <2>19. CASE DestroyCli
    <3>1. MainType'
      BY <2>19 DEF DestroyCli, MainType, MainGoes, Raise, Flags, Objects
    <3>2. SharedType'
      BY <2>19 DEF DestroyCli, SharedType, MainGoes, Raise, Flags, Objects
    <3> QED
      BY <2>19, <3>1, <3>2 DEF DestroyCli, GatewayType, WorkType, OutType, outVars, WorkerType,
         ProcessorType, CliType
  <2>20. CASE JoinCli
    <3>1. MainType'
      BY <2>20 DEF JoinCli, MainType, MainGoes, Objects
    <3>2. SharedType'
      BY <2>20 DEF JoinCli, SharedType, MainGoes, Objects
    <3> QED
      BY <2>20, <3>1, <3>2 DEF JoinCli, GatewayType, WorkType, OutType, outVars, WorkerType,
         ProcessorType, CliType
  <2>21. CASE DestroyProcessor
    <3>1. MainType'
      BY <2>21 DEF DestroyProcessor, MainType, MainGoes, Raise, Flags, Objects
    <3>2. SharedType'
      BY <2>21 DEF DestroyProcessor, SharedType, MainGoes, Raise, Flags, Objects
    <3> QED
      BY <2>21, <3>1, <3>2 DEF DestroyProcessor, GatewayType, WorkType, OutType, outVars,
         WorkerType, ProcessorType, CliType
  <2>22. CASE ShutdownPool
    <3>1. MainType'
      BY <2>22 DEF ShutdownPool, MainType, MainGoes, Raise, Flags
    <3>2. SharedType'
      BY <2>22 DEF ShutdownPool, SharedType, MainGoes, Raise, Flags
    <3> QED
      BY <2>22, <3>1, <3>2 DEF ShutdownPool, GatewayType, WorkType, OutType, outVars, WorkerType,
         ProcessorType, CliType
  <2>23. CASE JoinWorkers
    <3>1. MainType'
      BY <2>23 DEF JoinWorkers, MainType, MainGoes, Objects
    <3>2. SharedType'
      BY <2>23 DEF JoinWorkers, SharedType, MainGoes, Objects
    <3> QED
      BY <2>23, <3>1, <3>2 DEF JoinWorkers, GatewayType, WorkType, OutType, outVars, WorkerType,
         ProcessorType, CliType
  <2>24. CASE UNCHANGED vars
    BY <2>24 DEF vars, MainType, GatewayType, WorkType, OutType, outVars, WorkerType, ProcessorType,
       CliType, SharedType
  <2> QED
    BY <2>1, <2>2, <2>3, <2>4, <2>5, <2>6, <2>7, <2>8, <2>9, <2>10, <2>11, <2>12, <2>13,
       <2>14, <2>15, <2>16, <2>17, <2>18, <2>19, <2>20, <2>21, <2>22, <2>23, <2>24, <2>25,
       NextCases
<1> QED
  BY <1>1, <1>2, PTL DEF Spec
-----------------------------------------------------------------------------
(* What main has waited for by the time it is at each place *)

(* The gateway ends before main comes to the destructors; in OFFLINE mode  *)
(* main is the gateway.                                                    *)
GatewayInv ==
  /\ main \notin {"submit", "run", "stop", "joinReactor"} => Ended(gateway.pc)
  /\ mode = "OFFLINE" /\ main # "submit" => Ended(gateway.pc)

(* The command line thread does not touch the book any more once its flag  *)
(* is up, unless main itself has raised it in order to join the thread.    *)
CliInv ==
  /\ flag["cliFinishing"] => cli \in {"returning", "ended"} \/ main = "joinCli"
  /\ main \in {"destroyProcessor", "shutdownProcessor", "joinProcessor", "shutdownPool",
               "joinWorkers", "exit"} => cli \in {"returning", "ended"}

(* The processor is joined before the pool is shut down, the workers       *)
(* before main ends.                                                       *)
ThreadsInv ==
  /\ main \in {"shutdownPool", "joinWorkers", "exit"} => Ended(processor.pc)
  /\ main = "exit" => \A q \in Queues : Ended(worker[q].pc)

(* The central order book is the last object to go. *)
BookInv == "centralOrderBook" \in destroyed => main = "exit"

IInv == TypeOK /\ GatewayInv /\ CliInv /\ ThreadsInv /\ BookInv

(* Initially no thread has ended and nothing is destroyed. *)
LEMMA InitIInv == Init => GatewayInv /\ CliInv /\ ThreadsInv /\ BookInv
  BY ConstantsAssumption DEF Init, GatewayInv, CliInv, ThreadsInv, BookInv, Flags

(* Steps of the gateway: none of them happens after it has ended. *)
LEMMA GatewaySteps ==
  ASSUME IInv,
         \/ \E kind \in {"new", "cancel"}, q \in Queues : Receive(kind, q)
         \/ ReceiveUnsupportedSymbol
         \/ PushAccepted \/ SubmitTask \/ ReactorEnds \/ LastOrderSubmitted
  PROVE  GatewayInv' /\ CliInv' /\ ThreadsInv' /\ BookInv'
<1> USE DEF IInv, TypeOK, GatewayInv, CliInv, ThreadsInv, BookInv, Ended
<1>1. ASSUME NEW kind \in {"new", "cancel"}, NEW q \in Queues, Receive(kind, q)
      PROVE  GatewayInv' /\ CliInv' /\ ThreadsInv' /\ BookInv'
  BY <1>1 DEF Receive
<1>2. CASE ReceiveUnsupportedSymbol
  BY <1>2 DEF ReceiveUnsupportedSymbol
<1>3. CASE PushAccepted
  BY <1>3 DEF PushAccepted
<1>4. CASE SubmitTask
  BY <1>4 DEF SubmitTask, AtPoll
<1>5. CASE ReactorEnds
  BY <1>5 DEF ReactorEnds
<1>6. CASE LastOrderSubmitted
  BY <1>6 DEF LastOrderSubmitted
<1> QED
  BY <1>1, <1>2, <1>3, <1>4, <1>5, <1>6

(* Steps of the workers, the processor and the command line: a thread that *)
(* has ended does not come back.                                           *)
LEMMA ThreadSteps ==
  ASSUME IInv,
         \/ \E q \in Queues : WorkerLoop(q) \/ WorkerPop(q) \/ WorkerPush(q) \/ WorkerDone(q)
         \/ \E t \in Producers, q \in Queues : LoadTail(t, q) \/ TryPushFails(t, q)
         \/ ProcessorCheck \/ ProcessorVisit
         \/ Display \/ DisplayDone \/ Quit \/ CliEnds
  PROVE  GatewayInv' /\ CliInv' /\ ThreadsInv' /\ BookInv'
<1> USE DEF IInv, TypeOK, GatewayInv, CliInv, ThreadsInv, BookInv, Ended
<1>1. ASSUME NEW q \in Queues, WorkerLoop(q) \/ WorkerPop(q) \/ WorkerPush(q) \/ WorkerDone(q)
      PROVE  GatewayInv' /\ CliInv' /\ ThreadsInv' /\ BookInv'
  BY <1>1 DEF WorkerLoop, WorkerPop, WorkerPush, WorkerDone
<1>5. ASSUME NEW t \in Producers, NEW q \in Queues, LoadTail(t, q) \/ TryPushFails(t, q)
      PROVE  GatewayInv' /\ CliInv' /\ ThreadsInv' /\ BookInv'
  BY <1>5 DEF LoadTail, TryPushFails
<1>2. CASE ProcessorCheck \/ ProcessorVisit
  BY <1>2 DEF ProcessorCheck, ProcessorVisit
<1>3. CASE Display \/ DisplayDone \/ CliEnds
  BY <1>3 DEF Display, DisplayDone, CliEnds
<1>4. CASE Quit
  BY <1>4 DEF Quit, Raise, Flags
<1> QED
  BY <1>1, <1>2, <1>3, <1>4, <1>5

(* Steps of main, in the order in which it takes them *)
LEMMA MainSteps ==
  ASSUME IInv,
         \/ MainLoop \/ StopReactor \/ JoinReactor \/ DestroyCli \/ JoinCli
         \/ DestroyProcessor \/ ShutdownPool \/ JoinWorkers
  PROVE  GatewayInv' /\ CliInv' /\ ThreadsInv' /\ BookInv'
<1> USE DEF IInv, TypeOK, GatewayInv, CliInv, ThreadsInv, BookInv, Ended, MainGoes, MainType,
            SharedType
<1>1. CASE MainLoop
  BY <1>1 DEF MainLoop
<1>2. CASE StopReactor \/ ShutdownPool
  BY <1>2 DEF StopReactor, ShutdownPool, Raise, Flags
<1>3. CASE JoinReactor
  BY <1>3 DEF JoinReactor
<1>4. CASE DestroyCli
  BY <1>4 DEF DestroyCli, Raise, Flags
<1>5. CASE JoinCli \/ JoinWorkers
  BY <1>5 DEF JoinCli, JoinWorkers, CliType
<1>6. CASE DestroyProcessor
  <2>1. CASE main = "destroyProcessor"
    BY <1>6, <2>1 DEF DestroyProcessor
  <2>2. CASE main = "shutdownProcessor"
    <3>1. flag'["cliFinishing"] = flag["cliFinishing"]
      BY <1>6, <2>2 DEF DestroyProcessor, Raise, Flags
    <3> QED
      BY <1>6, <2>2, <3>1 DEF DestroyProcessor
  <2>3. CASE main = "joinProcessor"
    BY <1>6, <2>3 DEF DestroyProcessor
  <2> QED
    BY <1>6, <2>1, <2>2, <2>3 DEF DestroyProcessor
<1> QED
  BY <1>1, <1>2, <1>3, <1>4, <1>5, <1>6

(* Whatever the interleaving of gateway, workers, processor, command line  *)
(* and main, the central order book is destroyed last: the joins in ~Actor *)
(* and ThreadPool::shutdown come in an order that protects it.             *)
THEOREM BookDestroyedLast == Spec => []BookOutlivesItsUsers
<1>1. Init => GatewayInv /\ CliInv /\ ThreadsInv /\ BookInv
  BY InitIInv
<1>2. TypeOK /\ (GatewayInv /\ CliInv /\ ThreadsInv /\ BookInv) /\ [Next]_vars
        => (GatewayInv /\ CliInv /\ ThreadsInv /\ BookInv)'
  <2> SUFFICES ASSUME IInv, [Next]_vars
               PROVE  GatewayInv' /\ CliInv' /\ ThreadsInv' /\ BookInv'
    BY DEF IInv
  <2>1. CASE Next
    BY <2>1, NextCases, GatewaySteps, ThreadSteps, MainSteps
  <2>2. CASE UNCHANGED vars
    BY <2>2 DEF vars, IInv, GatewayInv, CliInv, ThreadsInv, BookInv
  <2> QED
    BY <2>1, <2>2
<1>3. GatewayInv /\ CliInv /\ ThreadsInv /\ BookInv => BookOutlivesItsUsers
  BY DEF GatewayInv, CliInv, ThreadsInv, BookInv, BookOutlivesItsUsers
<1> QED
  BY <1>1, <1>2, <1>3, TypeCorrect, PTL DEF Spec
=============================================================================
