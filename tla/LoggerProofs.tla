---------------------------- MODULE LoggerProofs ----------------------------
(***************************************************************************)
(* For any number of threads and entries, whatever the lengths of lines    *)
(* and files: the log holds every entry once and in order, and lines stay  *)
(* in their files.                                                         *)
(***************************************************************************)
EXTENDS Logger, SequenceTheorems, TLAPS

(* Mutual exclusion by the spin lock *)
LockInv ==
  /\ \A p \in Producers : producer[p].pc \in {"link", "tail", "unlock"} <=> lock = p
  /\ logger \in {"test", "swap", "cut", "reset"} <=> lock = "logger"

(* The entries of a thread are linked one after the other: all it has      *)
(* logged, but for the one it is about to link.                            *)
Linked(p) ==
  IF producer[p].pc \in {"lock", "link"} THEN producer[p].pushes - 1 ELSE producer[p].pushes

IsLinked(e) == \E i \in 1 .. Len(linked) : linked[i] = e

LinkedInv ==
  /\ \A p \in Producers : producer[p].pc # "idle" => producer[p].pushes > 0
  /\ \A e \in Entries : IsLinked(e) <=> e[2] <= Linked(e[1])
  /\ \A i, j \in 1 .. Len(linked) : linked[i] = linked[j] => i = j
  /\ \A e \in Entries : e[2] <= producer[e[1]].pushes => length[e] \in Lengths

(* The list, when flush() has taken the first f entries that were linked:  *)
(* m_head leads to the others, and from each node that is not yet written  *)
(* to the next one, up to the end of its part.                             *)
Chain(f) ==
  /\ next[Dummy] = IF f = Len(linked) THEN Null ELSE linked[f + 1]
  /\ \A i \in Len(log) + 1 .. Len(linked) :
       next[linked[i]] = IF i \in {f, Len(linked)} THEN Null ELSE linked[i + 1]
  /\ \A e \in Entries : ~IsLinked(e) => next[e] = Null

(* The last node of the list when n entries were linked *)
LastNode(f, n) == IF f = n THEN Dummy ELSE linked[n]

(* m_tail points to the last node, except between two stores of push or of *)
(* flush.                                                                  *)
TailInv(f) ==
  \/ lock \in Producers /\ producer[lock].pc = "tail" /\ f < Len(linked)
     /\ linked[Len(linked)] = NodeOf(lock) /\ tail = LastNode(f, Len(linked) - 1)
  \/ ~(lock \in Producers /\ producer[lock].pc = "tail") /\ logger # "reset"
     /\ tail = LastNode(f, Len(linked))
  \/ logger = "reset"

(* Where the logger thread is in the part it has taken *)
WalkInv(f) ==
  /\ logger \notin {"reset", "walk"} => f = Len(log)
  /\ logger = "cut" => f < Len(linked) /\ current = linked[f + 1]
  /\ logger = "reset" => Len(log) < f /\ f = Len(linked) /\ current = linked[Len(log) + 1]
  /\ logger = "walk" => current = IF Len(log) = f THEN Null ELSE linked[Len(log) + 1]

ListInv ==
  \E f \in Len(log) .. Len(linked) : Chain(f) /\ TailInv(f) /\ WalkInv(f)

(* The lines of the current file end where the next one will begin. *)
FileInv ==
  /\ \A a \in file : a.from + a.size <= written
  /\ LinesFit

IInv == TypeOK /\ LockInv /\ LinkedInv /\ ListInv /\ LogInOrder /\ FileInv
-----------------------------------------------------------------------------
(* What the steps are *)

(* Every step is one of these. *)
LEMMA NextCases ==
  ASSUME [Next]_vars
  PROVE  \/ \E p \in Producers, len \in Lengths : Log(p, len)
         \/ \E p \in Producers : PushLock(p) \/ PushLink(p) \/ PushTail(p) \/ PushUnlock(p)
         \/ Shutdown
         \/ EmptyLock \/ EmptyTest \/ FlushLock \/ FlushTake \/ FlushCut \/ FlushReset
         \/ Walk \/ WalkDone \/ CheckFinishing
         \/ UNCHANGED vars
  BY DEF Next, Push, Run

(* A thread in push has a node of its own. *)
LEMMA NodeType ==
  ASSUME TypeOK, LinkedInv, NEW p \in Producers, producer[p].pc # "idle"
  PROVE  NodeOf(p) \in Entries /\ NodeOf(p) \in Nodes
  BY DEF TypeOK, LinkedInv, NodeOf, Entries, Nodes

(* The node the logger thread has come to is the next one to write, and    *)
(* its line fits in a file.                                                *)
LEMMA CurrentNode ==
  ASSUME IInv, logger = "walk", current # Null
  PROVE  /\ Len(log) < Len(linked)
         /\ current = linked[Len(log) + 1]
         /\ current \in Entries
         /\ length[current] \in Lengths
<1>1. PICK f \in Len(log) .. Len(linked) : WalkInv(f)
  BY DEF IInv, ListInv
<1>2. Len(log) \in Nat /\ Len(linked) \in Nat /\ linked \in Seq(Entries)
  BY DEF IInv, TypeOK
<1>3. Len(log) < Len(linked) /\ current = linked[Len(log) + 1]
  BY <1>1, <1>2 DEF WalkInv
<1>4. current \in Entries
  BY <1>2, <1>3
<1>5. IsLinked(current)
  BY <1>2, <1>3 DEF IsLinked
<1>6. current[2] <= Linked(current[1]) /\ current[1] \in Producers /\ current[2] \in Nat
  BY <1>4, <1>5, ConstantsAssumption DEF IInv, LinkedInv, Entries
<1>7. current[2] <= producer[current[1]].pushes
  BY <1>6 DEF IInv, TypeOK, Linked
<1> QED
  BY <1>3, <1>4, <1>7 DEF IInv, LinkedInv
-----------------------------------------------------------------------------
(* Each part of the invariant *)

LEMMA InitIInv == Init => IInv
<1> SUFFICES ASSUME Init PROVE IInv
  OBVIOUS
<1> USE ConstantsAssumption
<1>1. TypeOK
  <2>1. /\ next \in [Nodes -> Entries \cup {Null}]
        /\ tail \in Nodes
        /\ length \in [Entries -> Nat]
    BY DEF Init, Nodes
  <2>2. producer \in [Producers -> [pc : {"idle", "lock", "link", "tail", "unlock"},
                                    pushes : 0 .. MaxPushes]]
    BY DEF Init
  <2>3. written \in 0 .. FileSize /\ file \subseteq [from : Nat, size : Nat]
    BY DEF Init
  <2>4. linked \in Seq(Entries) /\ log \in Seq(Entries)
    BY DEF Init
  <2>5. /\ lock \in Producers \cup {"logger", "free"}
        /\ logger \in {"isEmpty", "test", "flush", "swap", "cut", "reset", "walk", "finishing", "ended"}
        /\ current \in Entries \cup {Null}
        /\ finishing \in BOOLEAN
    BY DEF Init
  <2> QED
    BY <2>1, <2>2, <2>3, <2>4, <2>5 DEF TypeOK
<1>2. LockInv
  BY DEF Init, LockInv
<1>3. LinkedInv
  BY DEF Init, LinkedInv, IsLinked, Linked, Entries
<1>4. Chain(0) /\ TailInv(0) /\ WalkInv(0)
  BY DEF Init, Chain, TailInv, WalkInv, LastNode, Nodes, IsLinked
<1>5. ListInv
  BY <1>4 DEF ListInv, Init
<1>6. LogInOrder /\ FileInv
  BY DEF Init, LogInOrder, FileInv, LinesFit
<1> QED
  BY <1>1, <1>2, <1>3, <1>5, <1>6 DEF IInv

(* One thread at a time is between lock and unlock. *)
LEMMA LockNext ==
  ASSUME TypeOK, LockInv, [Next]_vars
  PROVE  LockInv'
<1> USE ConstantsAssumption DEF TypeOK, LockInv
<1>1. ASSUME NEW p \in Producers, NEW len \in Lengths, Log(p, len) PROVE LockInv'
  BY <1>1 DEF Log, queueVars
<1>2. ASSUME NEW p \in Producers, PushLock(p) PROVE LockInv'
  BY <1>2 DEF PushLock, PcGoes, Acquire
<1>3. ASSUME NEW p \in Producers, PushLink(p) PROVE LockInv'
  BY <1>3 DEF PushLink, PcGoes
<1>4. ASSUME NEW p \in Producers, PushTail(p) PROVE LockInv'
  BY <1>4 DEF PushTail, PcGoes
<1>5. ASSUME NEW p \in Producers, PushUnlock(p) PROVE LockInv'
  BY <1>5 DEF PushUnlock, PcGoes
<1>6. CASE Shutdown
  BY <1>6 DEF Shutdown, queueVars
<1>7. CASE EmptyLock \/ FlushLock
  BY <1>7 DEF EmptyLock, FlushLock, LoggerGoes, Acquire
<1>8. CASE EmptyTest \/ FlushReset
  BY <1>8 DEF EmptyTest, FlushReset, LoggerGoes
<1>9. CASE FlushTake \/ FlushCut
  BY <1>9 DEF FlushTake, FlushCut, LoggerGoes, queueVars
<1>10. CASE Walk \/ WalkDone \/ CheckFinishing
  BY <1>10 DEF Walk, WalkDone, CheckFinishing, LoggerGoes, queueVars
<1>11. CASE UNCHANGED vars
  BY <1>11 DEF vars, queueVars
<1> QED
  BY <1>1, <1>2, <1>3, <1>4, <1>5, <1>6, <1>7, <1>8, <1>9, <1>10, <1>11, NextCases

(* The parts of the type invariant *)
LEMMA TypeNext ==
  ASSUME IInv, [Next]_vars
  PROVE  TypeOK'
<1>0. TypeOK /\ LinkedInv
  BY DEF IInv
<1> USE <1>0, ConstantsAssumption
<1>1. ASSUME NEW p \in Producers, NEW len \in Lengths, Log(p, len) PROVE TypeOK'
  <2>1. producer' \in [Producers -> [pc : {"idle", "lock", "link", "tail", "unlock"},
                                     pushes : 0 .. MaxPushes]]
    BY <1>1 DEF Log, TypeOK
  <2>2. length' \in [Entries -> Nat]
    <3>1. len \in Nat
      OBVIOUS
    <3> QED
      BY <1>1, <3>1 DEF Log, TypeOK
  <2> QED
    BY <1>1, <2>1, <2>2 DEF Log, TypeOK, queueVars, fileVars
<1>2. ASSUME NEW p \in Producers, NEW from, NEW to \in {"idle", "lock", "link", "tail", "unlock"},
             PcGoes(p, from, to)
      PROVE  producer' \in [Producers -> [pc : {"idle", "lock", "link", "tail", "unlock"},
                                          pushes : 0 .. MaxPushes]]
  BY <1>2 DEF PcGoes, TypeOK
<1>3. ASSUME NEW p \in Producers, PushLock(p) PROVE TypeOK'
  BY <1>2, <1>3 DEF PushLock, TypeOK, fileVars, Acquire
<1>4. ASSUME NEW p \in Producers, PushLink(p) PROVE TypeOK'
  <2>1. NodeOf(p) \in Entries
    BY <1>4, NodeType DEF PushLink, PcGoes
  <2>2. next' \in [Nodes -> Entries \cup {Null}] /\ linked' \in Seq(Entries)
    BY <1>4, <2>1 DEF PushLink, TypeOK
  <2> QED
    BY <1>2, <1>4, <2>2 DEF PushLink, TypeOK, fileVars
<1>5. ASSUME NEW p \in Producers, PushTail(p) PROVE TypeOK'
  <2>1. NodeOf(p) \in Nodes
    BY <1>5, NodeType DEF PushTail, PcGoes
  <2> QED
    BY <1>2, <1>5, <2>1 DEF PushTail, TypeOK, fileVars
<1>6. ASSUME NEW p \in Producers, PushUnlock(p) PROVE TypeOK'
  BY <1>2, <1>6 DEF PushUnlock, TypeOK, fileVars
<1>7. CASE Shutdown \/ EmptyLock \/ EmptyTest \/ FlushLock \/ WalkDone \/ CheckFinishing
  BY <1>7 DEF Shutdown, EmptyLock, EmptyTest, FlushLock, WalkDone, CheckFinishing, LoggerGoes,
              Acquire, TypeOK, fileVars, queueVars
<1>8. CASE FlushTake \/ FlushCut \/ FlushReset
  BY <1>8 DEF FlushTake, FlushCut, FlushReset, LoggerGoes, TypeOK, fileVars, queueVars, Nodes
<1>9. CASE Walk
  <2>1. current \in Entries /\ length[current] \in 1 .. FileSize
    BY <1>9, CurrentNode DEF Walk
  <2>2. current' \in Entries \cup {Null}
    BY <1>9, <2>1 DEF Walk, TypeOK, Nodes
  <2>3. file' \subseteq [from : Nat, size : Nat] /\ written' \in 0 .. FileSize
    BY <1>9, <2>1 DEF Walk, Process, MustRotate, TypeOK
  <2>4. log' \in Seq(Entries)
    BY <1>9, <2>1 DEF Walk, Process, TypeOK
  <2> QED
    BY <1>9, <2>2, <2>3, <2>4 DEF Walk, TypeOK, queueVars
<1>10. CASE UNCHANGED vars
  BY <1>10 DEF vars, queueVars, fileVars, TypeOK
<1> QED
  BY <1>1, <1>3, <1>4, <1>5, <1>6, <1>7, <1>8, <1>9, <1>10, NextCases

(* What a step of a thread through push changes *)
LEMMA PcFacts ==
  ASSUME TypeOK, NEW p \in Producers, NEW from, NEW to, PcGoes(p, from, to)
  PROVE  /\ producer[p].pc = from /\ producer'[p].pc = to
         /\ \A q \in Producers : q # p => producer'[q] = producer[q]
         /\ \A q \in Producers : producer'[q].pushes = producer[q].pushes
  BY DEF TypeOK, PcGoes

(* The entries of each thread are linked in turn and once each. *)
LEMMA LinkedNext ==
  ASSUME IInv, [Next]_vars
  PROVE  LinkedInv'
<1>0. TypeOK /\ LinkedInv
  BY DEF IInv
<1> USE <1>0, ConstantsAssumption
<1>1. \A e \in Entries : e[1] \in Producers /\ e[2] \in 1 .. MaxPushes /\ e = <<e[1], e[2]>>
  BY DEF Entries
<1>2. linked \in Seq(Entries) /\ Len(linked) \in Nat
  BY DEF TypeOK
<1>3. ASSUME NEW p \in Producers, NEW len \in Lengths, Log(p, len) PROVE LinkedInv'
  <2>1. \A q \in Producers : Linked(q)' = Linked(q)
    BY <1>3 DEF Log, TypeOK, Linked
  <2>2. \A e \in Entries : e[2] <= producer'[e[1]].pushes =>
          e[2] <= producer[e[1]].pushes \/ e = <<p, producer[p].pushes + 1>>
    BY <1>1, <1>3 DEF Log, TypeOK
  <2>3. \A e \in Entries : e[2] <= producer'[e[1]].pushes => length'[e] \in Lengths
    BY <1>3, <2>2 DEF Log, TypeOK, LinkedInv
  <2>4. \A q \in Producers : producer'[q].pc # "idle" => producer'[q].pushes > 0
    BY <1>3 DEF Log, TypeOK, LinkedInv
  <2> QED
    BY <1>1, <1>3, <2>1, <2>3, <2>4 DEF Log, LinkedInv, IsLinked
<1>4. ASSUME NEW p \in Producers, PushLink(p) PROVE LinkedInv'
  <2> DEFINE e0 == NodeOf(p)
  <2>1. e0 \in Entries /\ e0 = <<p, producer[p].pushes>>
    BY <1>4, NodeType DEF PushLink, PcGoes, NodeOf
  <2>2. linked' = Append(linked, e0) /\ producer[p].pc = "link"
    BY <1>4 DEF PushLink, PcGoes
  <2>3. /\ Len(linked') = Len(linked) + 1
        /\ \A i \in 1 .. Len(linked) : linked'[i] = linked[i]
        /\ linked'[Len(linked) + 1] = e0
    BY <1>2, <2>1, <2>2, AppendProperties
  <2>4. /\ Linked(p) = producer[p].pushes - 1 /\ Linked(p)' = producer[p].pushes
        /\ \A q \in Producers : q # p => Linked(q)' = Linked(q)
    BY <1>4 DEF PushLink, PcGoes, TypeOK, Linked
  <2>5. \A e \in Entries : IsLinked(e)' <=> IsLinked(e) \/ e = e0
    BY <1>2, <2>3 DEF IsLinked
  <2>6. ~IsLinked(e0)
    BY <1>1, <2>1, <2>4 DEF LinkedInv, TypeOK
  <2>7. \A e \in Entries : e[2] <= Linked(e[1])' <=> e[2] <= Linked(e[1]) \/ e = e0
    <3> SUFFICES ASSUME NEW e \in Entries
                 PROVE  e[2] <= Linked(e[1])' <=> e[2] <= Linked(e[1]) \/ e = e0
      OBVIOUS
    <3>1. CASE e[1] # p
      BY <1>1, <2>1, <2>4, <3>1
    <3>2. CASE e[1] = p
      <4>1. producer[p].pushes \in Nat /\ e[2] \in Nat
        BY <1>1 DEF TypeOK
      <4>2. e = e0 <=> e[2] = producer[p].pushes
        BY <1>1, <2>1, <3>2
      <4> HIDE DEF e0
      <4> QED
        BY <2>4, <3>2, <4>1, <4>2
    <3> QED
      BY <3>1, <3>2
  <2>8. \A i, j \in 1 .. Len(linked') : linked'[i] = linked'[j] => i = j
    BY <1>2, <2>3, <2>6 DEF LinkedInv, IsLinked
  <2>9. \A q \in Producers : producer'[q].pushes = producer[q].pushes
                             /\ (producer'[q].pc # "idle" => producer[q].pc # "idle")
    BY <1>4 DEF PushLink, PcGoes, TypeOK
  <2> HIDE DEF e0
  <2> QED
    BY <1>1, <1>4, <2>5, <2>7, <2>8, <2>9 DEF LinkedInv, PushLink
<1>5. ASSUME NEW p \in Producers, PushLock(p) \/ PushTail(p) \/ PushUnlock(p) PROVE LinkedInv'
  <2>1. \A q \in Producers : /\ producer'[q].pushes = producer[q].pushes
                             /\ producer'[q].pc # "idle" => producer[q].pc # "idle"
                             /\ Linked(q)' = Linked(q)
    <3>1. PICK from, to : PcGoes(p, from, to) /\ from # "idle"
                          /\ (from \in {"lock", "link"} <=> to \in {"lock", "link"})
      BY <1>5 DEF PushLock, PushTail, PushUnlock
    <3> QED
      BY <3>1, PcFacts DEF Linked
  <2>2. linked' = linked /\ length' = length
    BY <1>5 DEF PushLock, PushTail, PushUnlock
  <2> QED
    BY <1>1, <2>1, <2>2 DEF LinkedInv, IsLinked
<1>6. ASSUME UNCHANGED <<producer, linked, length>> PROVE LinkedInv'
  BY <1>6 DEF LinkedInv, IsLinked, Linked
<1> QED
  <2>1. CASE Shutdown \/ EmptyLock \/ EmptyTest \/ FlushLock \/ FlushTake \/ FlushCut \/ FlushReset
             \/ Walk \/ WalkDone \/ CheckFinishing \/ UNCHANGED vars
    BY <1>6, <2>1 DEF Shutdown, EmptyLock, EmptyTest, FlushLock, FlushTake, FlushCut, FlushReset,
                     Walk, WalkDone, CheckFinishing, vars
  <2> QED
    BY <1>3, <1>4, <1>5, <2>1, NextCases

(* The list, by what a step changes *)
LEMMA ListNext ==
  ASSUME IInv, [Next]_vars
  PROVE  ListInv'
<1>0. TypeOK /\ LockInv /\ LinkedInv
  BY DEF IInv
<1> USE <1>0, ConstantsAssumption
<1> DEFINE N == Len(linked)
           M == Len(log)
<1>1. /\ linked \in Seq(Entries) /\ N \in Nat /\ M \in Nat
      /\ \A i \in 1 .. N : linked[i] \in Entries /\ linked[i] # Null /\ linked[i] # Dummy
  BY DEF TypeOK
<1>2. PICK f \in M .. N : Chain(f) /\ TailInv(f) /\ WalkInv(f)
  BY DEF IInv, ListInv
<1>3. f \in Nat /\ M <= f /\ f <= N
  BY <1>1
<1>4. ASSUME UNCHANGED <<next, linked, log>> PROVE Chain(f)'
  BY <1>2, <1>4 DEF Chain, IsLinked
<1>5. ASSUME UNCHANGED <<log, linked, logger, current>> PROVE WalkInv(f)'
  BY <1>2, <1>5 DEF WalkInv
<1>6. ASSUME UNCHANGED <<linked, log>>, Chain(f)', TailInv(f)', WalkInv(f)' PROVE ListInv'
  BY <1>6 DEF ListInv
<1>7. ASSUME NEW p \in Producers, NEW len \in Lengths, Log(p, len) PROVE ListInv'
  <2>1. lock \in Producers => producer'[lock] = producer[lock] /\ NodeOf(lock)' = NodeOf(lock)
    BY <1>7 DEF Log, LockInv, TypeOK, NodeOf, queueVars
  <2>2. UNCHANGED <<next, tail, lock, linked, log, logger, current>>
    BY <1>7 DEF Log, queueVars, fileVars
  <2>3. TailInv(f)'
    BY <1>2, <2>1, <2>2 DEF TailInv, LastNode
  <2> QED
    BY <1>4, <1>5, <1>6, <2>2, <2>3
<1>8. ASSUME NEW p \in Producers, PushLock(p) PROVE ListInv'
  <2>1. lock = "free" /\ lock' = p /\ producer'[p].pc = "link" /\ logger # "reset"
    BY <1>8, PcFacts DEF PushLock, Acquire, LockInv
  <2>2. UNCHANGED <<next, tail, linked, log, logger, current>>
    BY <1>8 DEF PushLock, fileVars
  <2>3. TailInv(f)'
    BY <1>2, <2>1, <2>2 DEF TailInv, LastNode
  <2> QED
    BY <1>4, <1>5, <1>6, <2>2, <2>3
<1>9. ASSUME NEW p \in Producers, PushLink(p) PROVE ListInv'
  <2> DEFINE e0 == NodeOf(p)
  <2>1. /\ lock = p /\ lock' = p /\ producer[p].pc = "link" /\ producer'[p].pc = "tail"
        /\ producer'[p].pushes = producer[p].pushes /\ logger # "reset"
    BY <1>9, PcFacts DEF PushLink, LockInv
  <2>2. e0 \in Entries /\ e0 # Null /\ e0 # Dummy /\ NodeOf(p)' = e0
    BY <2>1, NodeType DEF NodeOf
  <2>3. ~IsLinked(e0)
    BY <2>1, <2>2 DEF LinkedInv, Linked, NodeOf, TypeOK
  <2>4. linked' = Append(linked, e0) /\ next' = [next EXCEPT ![tail] = e0]
        /\ UNCHANGED <<tail, log, logger, current>>
    BY <1>9 DEF PushLink, fileVars
  <2>5. /\ Len(linked') = N + 1
        /\ \A i \in 1 .. N : linked'[i] = linked[i]
        /\ linked'[N + 1] = e0
    BY <1>1, <2>2, <2>4, AppendProperties
  <2>6. tail = LastNode(f, N) /\ tail # e0
    BY <1>1, <1>2, <2>1, <2>2, <2>3 DEF TailInv, LastNode, IsLinked
  <2>7. next \in [Nodes -> Entries \cup {Null}] /\ Dummy \in Nodes /\ Entries \subseteq Nodes
    BY DEF TypeOK, Nodes
  <2> HIDE DEF e0
  <2>8. \A e \in Entries : IsLinked(e)' <=> IsLinked(e) \/ e = e0
    BY <1>1, <2>5 DEF IsLinked
  <2>9. Chain(f)'
    <3>1. next'[Dummy] = IF f = N + 1 THEN Null ELSE linked'[f + 1]
      BY <1>1, <1>2, <1>3, <2>4, <2>5, <2>6, <2>7 DEF Chain, LastNode
    <3>2. ASSUME NEW i \in M + 1 .. N + 1
          PROVE  next'[linked'[i]] = IF i \in {f, N + 1} THEN Null ELSE linked'[i + 1]
      <4>1. CASE i = N + 1
        BY <1>2, <2>2, <2>3, <2>4, <2>5, <2>6, <2>7, <4>1 DEF Chain
      <4>2. CASE i <= N /\ linked[i] = tail
        <5>1. i = N /\ f # N
          BY <1>1, <1>3, <2>6, <4>2 DEF LastNode, LinkedInv
        <5> QED
          BY <1>1, <1>3, <2>4, <2>5, <2>7, <4>2, <5>1
      <4>3. CASE i <= N /\ linked[i] # tail
        <5>1. i # N \/ f = N
          BY <2>6, <4>3 DEF LastNode
        <5>2. next'[linked'[i]] = next[linked[i]]
          BY <1>1, <2>4, <2>5, <2>7, <4>3
        <5>3. next[linked[i]] = IF i \in {f, N} THEN Null ELSE linked[i + 1]
          BY <1>2, <4>3 DEF Chain
        <5>4. i # N => linked'[i + 1] = linked[i + 1]
          BY <1>1, <2>5, <4>3
        <5> QED
          BY <1>1, <1>3, <4>3, <5>1, <5>2, <5>3, <5>4
      <4> QED
        BY <1>1, <4>1, <4>2, <4>3
    <3>3. ASSUME NEW e \in Entries, ~IsLinked(e)' PROVE next'[e] = Null
      <4>1. ~IsLinked(e) /\ e # tail
        BY <1>1, <2>6, <2>8, <3>3 DEF LastNode, IsLinked
      <4> QED
        BY <1>2, <2>4, <2>7, <4>1 DEF Chain
    <3> QED
      BY <2>4, <2>5, <3>1, <3>2, <3>3 DEF Chain
  <2>10. TailInv(f)'
    BY <1>1, <1>3, <2>1, <2>2, <2>4, <2>5, <2>6 DEF TailInv, LastNode
  <2>11. WalkInv(f)'
    BY <1>1, <1>2, <1>3, <2>1, <2>4, <2>5 DEF WalkInv, LockInv
  <2> QED
    BY <1>1, <1>3, <2>4, <2>5, <2>9, <2>10, <2>11 DEF ListInv
<1>10. ASSUME NEW p \in Producers, PushTail(p) PROVE ListInv'
  <2>1. /\ lock = p /\ lock' = p /\ producer[p].pc = "tail" /\ producer'[p].pc = "unlock"
        /\ logger # "reset"
    BY <1>10, PcFacts DEF PushTail, LockInv
  <2>2. UNCHANGED <<next, linked, log, logger, current>> /\ tail' = NodeOf(p)
    BY <1>10 DEF PushTail, fileVars
  <2>3. TailInv(f)'
    BY <1>1, <1>2, <1>3, <2>1, <2>2 DEF TailInv, LastNode
  <2> QED
    BY <1>4, <1>5, <1>6, <2>2, <2>3
<1>11. ASSUME NEW p \in Producers, PushUnlock(p) PROVE ListInv'
  <2>1. lock = p /\ lock' = "free" /\ producer[p].pc = "unlock" /\ logger # "reset"
    BY <1>11, PcFacts DEF PushUnlock, LockInv
  <2>2. UNCHANGED <<next, tail, linked, log, logger, current>>
    BY <1>11 DEF PushUnlock, fileVars
  <2>3. TailInv(f)'
    BY <1>2, <2>1, <2>2 DEF TailInv, LastNode
  <2> QED
    BY <1>4, <1>5, <1>6, <2>2, <2>3
<1>12. CASE Shutdown \/ UNCHANGED vars
  <2>1. UNCHANGED <<next, tail, lock, producer, linked, log, logger, current>>
    BY <1>12 DEF Shutdown, vars, queueVars, fileVars
  <2>2. TailInv(f)'
    BY <1>2, <2>1 DEF TailInv, LastNode, NodeOf
  <2> QED
    BY <1>4, <1>5, <1>6, <2>1, <2>2
<1>13. CASE EmptyLock \/ EmptyTest \/ FlushLock \/ CheckFinishing
  <2>1. UNCHANGED <<next, tail, producer, linked, log, current>>
    BY <1>13 DEF EmptyLock, EmptyTest, FlushLock, CheckFinishing, queueVars, fileVars
  <2>2. /\ logger \in {"isEmpty", "test", "flush", "finishing"}
        /\ logger' \in {"isEmpty", "test", "flush", "swap", "finishing", "ended"}
        /\ lock' = lock \/ (lock \notin Producers /\ lock' \notin Producers)
    BY <1>13 DEF EmptyLock, EmptyTest, FlushLock, CheckFinishing, LoggerGoes, Acquire, LockInv,
                queueVars
  <2>3. TailInv(f)'
    BY <1>2, <2>1, <2>2 DEF TailInv, LastNode, NodeOf
  <2>4. WalkInv(f)'
    BY <1>2, <2>1, <2>2 DEF WalkInv
  <2> QED
    BY <1>4, <1>6, <2>1, <2>3, <2>4
<1>14. CASE FlushTake
  <2>1. UNCHANGED <<next, tail, lock, producer, linked, log>> /\ next[Dummy] # Null
        /\ logger = "swap" /\ logger' = "cut" /\ current' = next[Dummy]
    BY <1>14 DEF FlushTake, LoggerGoes, queueVars, fileVars
  <2>2. TailInv(f)'
    BY <1>2, <2>1 DEF TailInv, LastNode, NodeOf
  <2>3. WalkInv(f)'
    BY <1>1, <1>2, <1>3, <2>1 DEF WalkInv, Chain
  <2> QED
    BY <1>4, <1>6, <2>1, <2>2, <2>3
<1>15. CASE FlushCut
  <2>1. UNCHANGED <<tail, lock, producer, linked, log, current>>
        /\ next' = [next EXCEPT ![Dummy] = Null] /\ logger = "cut" /\ logger' = "reset"
    BY <1>15 DEF FlushCut, LoggerGoes, fileVars
  <2>2. f = M /\ f < N /\ current = linked[f + 1]
    BY <1>2, <2>1 DEF WalkInv
  <2>3. next \in [Nodes -> Entries \cup {Null}] /\ Dummy \in Nodes /\ Entries \subseteq Nodes
    BY DEF TypeOK, Nodes
  <2>4. Chain(N)'
    <3>1. next'[Dummy] = Null /\ \A e \in Entries : next'[e] = next[e]
      BY <2>1, <2>3
    <3>2. \A i \in M + 1 .. N : next'[linked[i]] = IF i = N THEN Null ELSE linked[i + 1]
      BY <1>1, <1>2, <1>3, <2>2, <3>1 DEF Chain
    <3> QED
      BY <1>2, <2>1, <3>1, <3>2 DEF Chain, IsLinked
  <2>5. TailInv(N)' /\ WalkInv(N)'
    BY <1>1, <2>1, <2>2 DEF TailInv, WalkInv
  <2> QED
    BY <1>1, <1>3, <2>1, <2>4, <2>5 DEF ListInv
<1>16. CASE FlushReset
  <2>1. UNCHANGED <<next, producer, linked, log, current>> /\ tail' = Dummy /\ lock' = "free"
        /\ logger = "reset" /\ logger' = "walk"
    BY <1>16 DEF FlushReset, LoggerGoes, fileVars
  <2>2. TailInv(f)' /\ WalkInv(f)'
    BY <1>1, <1>2, <1>3, <2>1 DEF TailInv, WalkInv, LastNode
  <2> QED
    BY <1>4, <1>6, <2>1, <2>2
<1>17. CASE Walk
  <2>1. /\ UNCHANGED <<next, tail, lock, producer, linked, logger>> /\ logger = "walk"
        /\ current # Null /\ current' = next[current] /\ log' = Append(log, current)
    BY <1>17 DEF Walk, Process, queueVars
  <2>2. M < f /\ current = linked[M + 1]
    BY <1>2, <1>3, <2>1 DEF WalkInv
  <2>3. Len(log') = M + 1
    BY <2>1 DEF TypeOK
  <2>4. Chain(f)'
    BY <1>1, <1>2, <1>3, <2>1, <2>3 DEF Chain, IsLinked
  <2>5. TailInv(f)'
    BY <1>2, <2>1 DEF TailInv, LastNode, NodeOf
  <2>6. WalkInv(f)'
    <3>1. next[current] = IF M + 1 \in {f, N} THEN Null ELSE linked[M + 2]
      BY <1>1, <1>2, <1>3, <2>2 DEF Chain
    <3> QED
      BY <1>1, <1>3, <2>1, <2>2, <2>3, <3>1 DEF WalkInv
  <2> QED
    BY <1>1, <1>3, <2>1, <2>2, <2>3, <2>4, <2>5, <2>6 DEF ListInv
<1>18. CASE WalkDone
  <2>1. UNCHANGED <<next, tail, lock, producer, linked, log, current>> /\ logger = "walk"
        /\ logger' = "finishing" /\ current = Null
    BY <1>18 DEF WalkDone, LoggerGoes, queueVars, fileVars
  <2>2. f = M
    BY <1>1, <1>2, <1>3, <2>1 DEF WalkInv
  <2>3. TailInv(f)' /\ WalkInv(f)'
    BY <1>2, <2>1, <2>2 DEF TailInv, WalkInv, LastNode, NodeOf
  <2> QED
    BY <1>4, <1>6, <2>1, <2>3
<1> QED
  BY <1>7, <1>8, <1>9, <1>10, <1>11, <1>12, <1>13, <1>14, <1>15, <1>16, <1>17, <1>18, NextCases

(* Only the logger thread writes, and it writes the next entry. *)
LEMMA WrittenNext ==
  ASSUME IInv, [Next]_vars
  PROVE  LogInOrder' /\ FileInv'
<1>0. TypeOK /\ LogInOrder /\ FileInv
  BY DEF IInv
<1>1. CASE Walk
  <2> DEFINE len == length[current]
             new == [from |-> (IF MustRotate(len) THEN 0 ELSE written) % FileSize, size |-> len]
  <2>1. /\ Len(log) < Len(linked) /\ current = linked[Len(log) + 1] /\ current \in Entries
        /\ len \in 1 .. FileSize
    BY <1>1, CurrentNode, ConstantsAssumption DEF Walk
  <2>2. linked' = linked /\ log' = Append(log, current)
    BY <1>1 DEF Walk, Process
  <2>3. LogInOrder'
    <3>1. /\ Len(log') = Len(log) + 1
          /\ \A i \in 1 .. Len(log) : log'[i] = log[i]
          /\ log'[Len(log) + 1] = current
      BY <1>0, <2>1, <2>2, AppendProperties DEF TypeOK
    <3> QED
      BY <1>0, <2>1, <2>2, <3>1 DEF LogInOrder, TypeOK
  <2>4. written \in 0 .. FileSize /\ file \subseteq [from : Nat, size : Nat] /\ FileSize \in Nat \ {0}
    BY <1>0, ConstantsAssumption DEF TypeOK
  <2>5. CASE MustRotate(len)
    <3>1. new.from = 0 /\ new.size = len
      BY <2>4, <2>5
    <3>2. file' = {new} /\ written' = len
      BY <1>1, <2>1, <2>5 DEF Walk, Process
    <3> HIDE DEF new
    <3>3. FileInv'
      BY <2>1, <2>4, <3>1, <3>2 DEF FileInv, LinesFit
    <3> QED
      BY <2>3, <3>3
  <2>6. CASE ~MustRotate(len)
    <3>1. written + len < FileSize
      BY <2>1, <2>4, <2>6 DEF MustRotate
    <3>2. new.from = written /\ new.size = len
      BY <2>1, <2>4, <2>6, <3>1
    <3>3. file' = file \cup {new} /\ written' = written + len
      BY <1>1, <2>6 DEF Walk, Process
    <3> HIDE DEF new, len
    <3>4. \A a \in file : a.from \in Nat /\ a.size \in Nat /\ a.from + a.size <= written
      BY <1>0, <2>4 DEF FileInv
    <3>5. FileInv'
      BY <1>0, <2>1, <2>4, <3>1, <3>2, <3>3, <3>4 DEF FileInv, LinesFit
    <3> QED
      BY <2>3, <3>5
  <2> QED
    BY <2>5, <2>6
<1>2. CASE UNCHANGED <<file, written, log>> /\ (linked' = linked \/ \E p \in Producers : PushLink(p))
  <2>1. FileInv'
    BY <1>0, <1>2 DEF FileInv, LinesFit
  <2>2. CASE linked' = linked
    BY <1>0, <1>2, <2>1, <2>2 DEF LogInOrder
  <2>3. ASSUME NEW p \in Producers, PushLink(p) PROVE LogInOrder'
    <3>1. NodeOf(p) \in Entries
      BY <2>3, NodeType DEF IInv, PushLink, PcGoes
    <3>2. linked' = Append(linked, NodeOf(p))
      BY <2>3 DEF PushLink
    <3>3. Len(linked') = Len(linked) + 1 /\ \A i \in 1 .. Len(linked) : linked'[i] = linked[i]
      BY <1>0, <3>1, <3>2, AppendProperties DEF TypeOK
    <3>4. log' = log /\ Len(log) \in Nat /\ Len(linked) \in Nat
      BY <1>0, <1>2 DEF TypeOK
    <3> QED
      BY <1>0, <3>3, <3>4 DEF LogInOrder
  <2> QED
    BY <1>2, <2>1, <2>2, <2>3
<1> QED
  BY <1>1, <1>2, NextCases DEF Log, PushLock, PushLink, PushTail, PushUnlock, Shutdown, EmptyLock,
     EmptyTest, FlushLock, FlushTake, FlushCut, FlushReset, WalkDone, CheckFinishing, vars, fileVars

(* The inductive invariant, put together *)
LEMMA InvNext == IInv /\ [Next]_vars => IInv'
  BY TypeNext, LockNext, LinkedNext, ListNext, WrittenNext DEF IInv
-----------------------------------------------------------------------------
(* Every variable of the logger keeps its type; in particular no line is   *)
(* written beyond the end of a file.                                       *)
THEOREM TypeCorrect == Spec => []TypeOK
<1>1. IInv => TypeOK
  BY DEF IInv
<1> QED
  BY <1>1, InitIInv, InvNext, PTL DEF Spec

(* The log holds the entries in the order of their links, without a gap    *)
(* and without repetition, although the logger thread walks the list       *)
(* without the lock while other threads push.                              *)
THEOREM WrittenInOrder == Spec => []LogInOrder
<1>1. IInv => LogInOrder
  BY DEF IInv
<1> QED
  BY <1>1, InitIInv, InvNext, PTL DEF Spec

(* Rotation keeps every line inside its file and off the other lines. *)
THEOREM LinesStayApart == Spec => []LinesFit
<1>1. IInv => LinesFit
  BY DEF IInv, FileInv
<1> QED
  BY <1>1, InitIInv, InvNext, PTL DEF Spec
=============================================================================
