------------------------------- MODULE Logger -------------------------------
(***************************************************************************)
(* The logger: threads push entries to a QueueMPSC, a list behind a spin   *)
(* lock, and the logger thread takes the whole list from time to time,     *)
(* walks it without the lock and writes the lines to a memory mapped file  *)
(* that it rotates.                                                        *)
(*                                                                         *)
(*   m_head -> dummy -> n1 -> n2 ... <- m_tail                             *)
(*                                                                         *)
(* push is modelled store by store. A node bears the name <<p, k>> of the  *)
(* k-th entry of thread p; m_head always points to the dummy node. Main is *)
(* the thread that ends the logger with Actor::shutdown.                   *)
(***************************************************************************)
EXTENDS Integers, Sequences

CONSTANTS
  Producers,   \* the threads that log
  Main,        \* the one of them that shuts the logger down
  Dummy,       \* the node m_head points to
  Null,        \* nullptr
  Lengths,     \* lengths of log lines
  FileSize,    \* size of a log file: LOGGER_ROTATION_SIZE_IN_BYTES in pages
  MaxPushes    \* bound: entries each thread logs

Entries == Producers \X (1 .. MaxPushes)

(* A line is assumed to fit in a file: nothing in the code checks it. *)
ASSUME ConstantsAssumption ==
  /\ Main \in Producers
  /\ "logger" \notin Producers /\ "free" \notin Producers
  /\ Null # Dummy /\ Null \notin Entries /\ Dummy \notin Entries
  /\ FileSize \in Nat \ {0}
  /\ Lengths \subseteq 1 .. FileSize
  /\ MaxPushes \in Nat

VARIABLES
  next,        \* next[n]: m_next of node n
  tail,        \* m_tail
  lock,        \* m_mutex: who holds the spin lock, or "free"
  producer,    \* where each thread is in push, and how often it has called it
  length,      \* length[n]: length of the line of entry n
  logger,      \* where the logger thread is
  current,     \* currentLog, the node the logger thread has to write next
  finishing,   \* m_isFinishing of the actor
  file,        \* the parts of the current file that were written
  written,     \* m_writtenSize of the current file
  linked,      \* history: the entries in the order in which they were linked
  log          \* history: the entries written, over all files

queueVars == <<next, tail, lock>>
fileVars == <<file, written, log>>
vars == <<queueVars, producer, length, logger, current, finishing, fileVars, linked>>
-----------------------------------------------------------------------------
Nodes == Entries \cup {Dummy}

NodeOf(p) == <<p, producer[p].pushes>>

Init ==
  /\ next = [n \in Nodes |-> Null]
  /\ tail = Dummy
  /\ lock = "free"
  /\ producer = [p \in Producers |-> [pc |-> "idle", pushes |-> 0]]
  /\ length = [n \in Entries |-> 0]
  /\ logger = "isEmpty"
  /\ current = Null
  /\ finishing = FALSE
  /\ file = {}
  /\ written = 0
  /\ linked = <<>>
  /\ log = <<>>
-----------------------------------------------------------------------------
(* QueueMPSC::push by thread p *)

PcGoes(p, from, to) ==
  /\ producer[p].pc = from
  /\ producer' = [producer EXCEPT ![p].pc = to]

(* Logger::log builds an entry; its level is enabled. The node is made     *)
(* before the lock is taken. Main logs nothing after shutdown().           *)
Log(p, len) ==
  /\ producer[p].pc = "idle"
  /\ producer[p].pushes < MaxPushes
  /\ p = Main => ~finishing
  /\ producer' = [producer EXCEPT ![p] = [pc |-> "lock", pushes |-> @.pushes + 1]]
  /\ length' = [length EXCEPT ![<<p, producer[p].pushes + 1>>] = len]
  /\ UNCHANGED <<queueVars, logger, current, finishing, fileVars, linked>>

(* SpinLock::lock: test_and_set until it finds the flag clear *)
Acquire(owner) == lock = "free" /\ lock' = owner

PushLock(p) ==
  /\ PcGoes(p, "lock", "link")
  /\ Acquire(p)
  /\ UNCHANGED <<next, tail, length, logger, current, finishing, fileVars, linked>>

(* m_tail->m_next = newNode *)
PushLink(p) ==
  /\ PcGoes(p, "link", "tail")
  /\ next' = [next EXCEPT ![tail] = NodeOf(p)]
  /\ linked' = Append(linked, NodeOf(p))
  /\ UNCHANGED <<tail, lock, length, logger, current, finishing, fileVars>>

(* m_tail = newNode *)
PushTail(p) ==
  /\ PcGoes(p, "tail", "unlock")
  /\ tail' = NodeOf(p)
  /\ UNCHANGED <<next, lock, length, logger, current, finishing, fileVars, linked>>

(* Faulty variant: the lock is not released. *)
PushUnlockForgotten(p) ==
  /\ PcGoes(p, "unlock", "idle")
  /\ UNCHANGED <<queueVars, length, logger, current, finishing, fileVars, linked>>

PushUnlock(p) ==
  /\ PcGoes(p, "unlock", "idle")
  /\ lock' = "free"
  /\ UNCHANGED <<next, tail, length, logger, current, finishing, fileVars, linked>>

(* Actor::shutdown by main. It joins the logger thread, which is no step:  *)
(* main only waits for logger = "ended".                                   *)
Shutdown ==
  /\ producer[Main].pc = "idle"
  /\ ~finishing
  /\ finishing' = TRUE
  /\ UNCHANGED <<queueVars, producer, length, logger, current, fileVars, linked>>
-----------------------------------------------------------------------------
(* QueueMPSC::flush by the logger thread *)

LoggerGoes(from, to) == logger = from /\ logger' = to

(* isEmpty takes the lock, looks and releases it. *)
EmptyLock ==
  /\ LoggerGoes("isEmpty", "test")
  /\ Acquire("logger")
  /\ UNCHANGED <<next, tail, producer, length, current, finishing, fileVars, linked>>

EmptyTest ==
  /\ LoggerGoes("test", IF next[Dummy] = Null THEN "finishing" ELSE "flush")
  /\ lock' = "free"
  /\ UNCHANGED <<next, tail, producer, length, current, finishing, fileVars, linked>>

FlushLock ==
  /\ LoggerGoes("flush", "swap")
  /\ Acquire("logger")
  /\ UNCHANGED <<next, tail, producer, length, current, finishing, fileVars, linked>>

(* The wait of the condition variable is over when the list is not empty;  *)
(* ret = m_head->m_next.                                                   *)
FlushTake ==
  /\ LoggerGoes("swap", "cut")
  /\ next[Dummy] # Null
  /\ current' = next[Dummy]
  /\ UNCHANGED <<queueVars, producer, length, finishing, fileVars, linked>>

(* Faulty variant: m_head still points to the list that was taken. *)
FlushCutForgotten ==
  /\ LoggerGoes("cut", "reset")
  /\ UNCHANGED <<queueVars, producer, length, current, finishing, fileVars, linked>>

(* m_head->m_next = nullptr *)
FlushCut ==
  /\ LoggerGoes("cut", "reset")
  /\ next' = [next EXCEPT ![Dummy] = Null]
  /\ UNCHANGED <<tail, lock, producer, length, current, finishing, fileVars, linked>>

(* Faulty variant: m_tail still points into the list that was taken. *)
FlushResetForgotten ==
  /\ LoggerGoes("reset", "walk")
  /\ lock' = "free"
  /\ UNCHANGED <<next, tail, producer, length, current, finishing, fileVars, linked>>

(* m_tail = m_head, then unlock *)
FlushReset ==
  /\ LoggerGoes("reset", "walk")
  /\ tail' = Dummy
  /\ lock' = "free"
  /\ UNCHANGED <<next, producer, length, current, finishing, fileVars, linked>>
-----------------------------------------------------------------------------
(* Logger::run: the list is walked without the lock. *)

(* Faulty variant: the length of the line is left out. *)
MustRotateLate(len) == FileSize <= written

(* MemoryMappedFileBackend::process *)
MustRotate(len) == FileSize <= written + len

(* Faulty variant: m_writtenSize is not moved on. *)
ProcessNotAdvancing(n) ==
  LET base == IF MustRotate(length[n]) THEN 0 ELSE written
      kept == IF MustRotate(length[n]) THEN {} ELSE file
  IN  /\ file' = kept \cup {[from |-> base % FileSize, size |-> length[n]]}
      /\ written' = base
      /\ log' = Append(log, n)

(* SharedMemory::append. Opening a file sets m_writtenSize to 0. *)
Process(n) ==
  LET base == IF MustRotate(length[n]) THEN 0 ELSE written
      kept == IF MustRotate(length[n]) THEN {} ELSE file
  IN  /\ file' = kept \cup {[from |-> base % FileSize, size |-> length[n]]}
      /\ written' = base + length[n]
      /\ log' = Append(log, n)

Walk ==
  /\ logger = "walk"
  /\ current # Null
  /\ Process(current)
  /\ current' = next[current]
  /\ UNCHANGED <<queueVars, producer, length, logger, finishing, linked>>

WalkDone ==
  /\ LoggerGoes("walk", "finishing")
  /\ current = Null
  /\ UNCHANGED <<queueVars, producer, length, current, finishing, fileVars, linked>>

(* isFinishing() is asked after the walk; otherwise the thread sleeps and  *)
(* flushes again.                                                          *)
CheckFinishing ==
  /\ LoggerGoes("finishing", IF finishing THEN "ended" ELSE "isEmpty")
  /\ UNCHANGED <<queueVars, producer, length, current, finishing, fileVars, linked>>
-----------------------------------------------------------------------------
Push(p) == PushLock(p) \/ PushLink(p) \/ PushTail(p) \/ PushUnlock(p)

Run ==
  \/ EmptyLock \/ EmptyTest \/ FlushLock \/ FlushTake \/ FlushCut \/ FlushReset
  \/ Walk \/ WalkDone \/ CheckFinishing

Next ==
  \/ \E p \in Producers, len \in Lengths : Log(p, len)
  \/ \E p \in Producers : Push(p)
  \/ Shutdown
  \/ Run

(* The threads run. The logger thread sleeps between two flushes and does  *)
(* not hold the lock then, so a thread that spins for it gets it: strong   *)
(* fairness for push. The logger thread itself competes with a bounded     *)
(* number of pushes only.                                                  *)
Spec == Init /\ [][Next]_vars /\ WF_vars(Run) /\ \A p \in Producers : SF_vars(Push(p))
-----------------------------------------------------------------------------
(* Properties *)

TypeOK ==
  /\ next \in [Nodes -> Entries \cup {Null}]
  /\ tail \in Nodes
  /\ lock \in Producers \cup {"logger", "free"}
  /\ producer \in [Producers -> [pc : {"idle", "lock", "link", "tail", "unlock"},
                                 pushes : 0 .. MaxPushes]]
  /\ length \in [Entries -> Nat]
  /\ logger \in {"isEmpty", "test", "flush", "swap", "cut", "reset", "walk", "finishing", "ended"}
  /\ current \in Entries \cup {Null}
  /\ finishing \in BOOLEAN
  /\ file \subseteq [from : Nat, size : Nat]
  /\ written \in 0 .. FileSize
  /\ linked \in Seq(Entries)
  /\ log \in Seq(Entries)

(* The log holds the entries in the order in which the threads linked      *)
(* them, each once and without a gap: what flush takes and what push adds  *)
(* meanwhile never mix.                                                    *)
LogInOrder ==
  /\ Len(log) <= Len(linked)
  /\ \A i \in 1 .. Len(log) : log[i] = linked[i]

(* Lines do not run over the end of the mapped file and do not overwrite   *)
(* each other.                                                             *)
LinesFit ==
  \A a \in file :
    /\ a.from + a.size <= FileSize
    /\ \A b \in file : a # b => a.from + a.size <= b.from \/ b.from + b.size <= a.from

(* Every entry is written, unless the logger is being shut down: the wait  *)
(* of flush and the spin lock hold nobody for ever.                        *)
EntriesWritten ==
  \A p \in Producers :
    \A k \in 1 .. MaxPushes :
      (producer[p].pushes >= k) ~> (finishing \/ \E i \in 1 .. Len(log) : log[i] = <<p, k>>)

(* shutdown() returns: the logger thread it joins ends. *)
ShutdownReturns == finishing ~> logger = "ended"
=============================================================================
