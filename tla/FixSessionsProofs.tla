------------------------- MODULE FixSessionsProofs --------------------------
(***************************************************************************)
(* Proofs about module FixSessions, for any number of clients, messages,   *)
(* connections and restarts.                                               *)
(***************************************************************************)
EXTENDS FixSessions, WellFoundedInduction, TLAPS

(* The reactor and the processor *)
reactor == thread["reactor"]
processor == thread["processor"]

(* Where a thread uses the session it found in the table *)
AtSession == {"lock", "send", "increment", "unlock"}

(* Where the reactor has a message of a batch at hand *)
AtMessage == {"process", "validate"} \cup AtSession

(* A thread has the session locked for a report or a business reject. *)
HoldsLock(r) == r.pc = "unlock" \/ (r.pc \in {"send", "increment"} /\ r.then = "unlock")

(* Both tables have the same slots; a connection has at most one, and an   *)
(* open connection has one that is marked as used.                         *)
TableInv ==
  /\ peers = sessions
  /\ peerFlags = sessionFlags
  /\ Len(sessionFlags) = Len(sessions)
  /\ Len(sessions) <= accepted
  /\ \A i \in DOMAIN sessions : sessions[i] <= accepted
  /\ \A i, j \in DOMAIN sessions : sessions[i] = sessions[j] => i = j
  /\ \A k \in Connections :
       open[k] => \E i \in DOMAIN sessions : sessions[i] = k /\ sessionFlags[i]

(* A connection that was not accepted yet is untouched. *)
FreshInv ==
  /\ \A k \in Connections : k > accepted => session[k] = NewSession
  /\ \A k \in Connections : k <= accepted => client[k] \in Clients

(* A session has the socket of its own connection, but for the one that    *)
(* the reactor has just added.                                             *)
TcpInv ==
  \A i \in DOMAIN sessions :
    \/ session[sessions[i]].tcp = sessions[i]
    \/ /\ session[sessions[i]].tcp = 0
       /\ reactor.pc = "failed" \/ (reactor.pc = "initialise" /\ reactor.slot = i)

(* The reactor stays with one slot while it works on a batch. *)
ReactorInv ==
  /\ reactor.pc \in AtMessage => reactor.batch # <<>>
  /\ reactor.batch # <<>> => /\ reactor.slot \in DOMAIN sessions
                             /\ reactor.conn = sessions[reactor.slot]
  /\ reactor.pc \in {"initialise", "disconnect", "remove"} => reactor.slot \in DOMAIN sessions
  /\ reactor.pc \in {"send", "increment"} =>
       reactor.then \in {"next", "validate", "disconnect", "unlock"}
  /\ reactor.pc = "stopping" => reactor.slot >= 1 /\ reactor.batch = <<>>
  /\ reactor.owner = NoClient

(* The processor uses the session it found, which is initialised once it   *)
(* is locked.                                                              *)
ProcessorInv ==
  /\ processor.pc \in AtSession \cup {"poll", "failed"}
  /\ processor.pc \in {"send", "increment"} => processor.then = "unlock"
  /\ processor.pc \in AtSession => processor.conn \in 1 .. accepted
  /\ HoldsLock(processor) => session[processor.conn].tcp = processor.conn

(* The orders and the reports remember slots of the table. *)
OriginInv ==
  /\ \A o \in orders : o.slot \in DOMAIN sessions
  /\ \A n \in DOMAIN reports : reports[n].slot \in DOMAIN sessions

(* Who holds which lock *)
LockInv ==
  /\ \A t \in Threads : HoldsLock(thread[t]) => session[thread[t].conn].lock = t
  /\ \A t \in Threads : thread[t].pc = "increment" => session[thread[t].conn].sendLock = t
  /\ reactor.pc = "remove" => session[sessions[reactor.slot]].lock = "reactor"

IInv ==
  /\ TypeOK /\ TableInv /\ FreshInv /\ TcpInv
  /\ ReactorInv /\ ProcessorInv /\ OriginInv /\ LockInv
-----------------------------------------------------------------------------
(* Slots *)

Less == {p \in Nat \X Nat : p[1] < p[2]}

LEMMA LessWellFounded == IsWellFoundedOn(Less, Nat)
<1>1. Less = OpToRel(<, Nat)
  BY Zenon DEF Less, OpToRel
<1> QED
  BY <1>1, NatLessThanWellFounded, Zenon

(* A set of naturals has a least element. *)
LEMMA Least ==
  ASSUME NEW S, S \subseteq Nat, S # {}
  PROVE  \E x \in S : \A y \in S : x <= y
<1>1. PICK x \in S : \A y \in S : ~(<<y, x>> \in Less)
  BY LessWellFounded, WFMin
<1>2. ASSUME NEW y \in S PROVE x <= y
  <2>1. ~(<<y, x>> \in Less) /\ x \in Nat /\ y \in Nat
    BY <1>1
  <2>2. <<y, x>> \in Nat \X Nat /\ <<y, x>>[1] = y /\ <<y, x>>[2] = x
    BY <2>1
  <2>3. ~(y < x)
    BY <2>1, <2>2 DEF Less
  <2> QED
    BY <2>1, <2>3
<1> QED
  BY <1>2

(* The slot that addPeer and addSession take is new or not in use. *)
LEMMA FreeSlotFacts ==
  ASSUME NEW flags \in Seq(BOOLEAN)
  PROVE  /\ FreeSlot(flags) \in 1 .. Len(flags) + 1
         /\ FreeSlot(flags) # Len(flags) + 1 => ~flags[FreeSlot(flags)]
<1>1. CASE \A i \in DOMAIN flags : flags[i]
  BY <1>1 DEF FreeSlot
<1>2. CASE \E i \in DOMAIN flags : ~flags[i]
  <2> DEFINE unused == {i \in DOMAIN flags : ~flags[i]}
  <2>1. unused \subseteq Nat /\ unused # {}
    BY <1>2
  <2>2. \E i \in unused : \A j \in unused : i <= j
    BY <2>1, Least
  <2>3. \E i \in DOMAIN flags : ~flags[i] /\ \A j \in DOMAIN flags : ~flags[j] => i <= j
    BY <2>2
  <2>4. FreeSlot(flags) \in DOMAIN flags /\ ~flags[FreeSlot(flags)]
    BY <1>2, <2>3 DEF FreeSlot
  <2> QED
    BY <2>4
<1> QED
  BY <1>1, <1>2

(* What is put into a slot is there, and the other slots are kept. *)
LEMMA PutFacts ==
  ASSUME NEW S, NEW table \in Seq(S), NEW i \in 1 .. Len(table) + 1, NEW value \in S
  PROVE  /\ Put(table, i, value) \in Seq(S)
         /\ Len(Put(table, i, value)) = IF i = Len(table) + 1 THEN Len(table) + 1 ELSE Len(table)
         /\ i \in 1 .. Len(Put(table, i, value))
         /\ Put(table, i, value)[i] = value
         /\ \A j \in 1 .. Len(Put(table, i, value)) :
              j # i => j \in 1 .. Len(table) /\ Put(table, i, value)[j] = table[j]
         /\ \A j \in 1 .. Len(table) : j \in 1 .. Len(Put(table, i, value))
<1>1. CASE i = Len(table) + 1
  BY <1>1 DEF Put
<1>2. CASE i # Len(table) + 1
  BY <1>2 DEF Put
<1> QED
  BY <1>1, <1>2

(* The same of the table of flags. *)
LEMMA FlagFacts ==
  ASSUME NEW flags \in Seq(BOOLEAN), NEW i \in 1 .. Len(flags) + 1, NEW value \in BOOLEAN
  PROVE  /\ Len(Put(flags, i, value)) = IF i = Len(flags) + 1 THEN Len(flags) + 1 ELSE Len(flags)
         /\ Put(flags, i, value)[i] = value
         /\ \A j \in 1 .. Len(Put(flags, i, value)) : j # i => Put(flags, i, value)[j] = flags[j]
<1>1. CASE i = Len(flags) + 1
  BY <1>1 DEF Put
<1>2. CASE i # Len(flags) + 1
  BY <1>2 DEF Put
<1> QED
  BY <1>1, <1>2
-----------------------------------------------------------------------------
(* Which steps change what *)

Accepts == \E c \in Clients : Accept(c)
ClientMoves == \/ \E c \in Clients : ClientLeaves(c)
             \/ \E c \in Clients, kind \in SentKinds : ClientSends(c, kind)
Reading == \E i \in DOMAIN peers : HandleClient(i)
HangsUp == \E i \in DOMAIN peers : HangUp(i)
Fills == \E o \in orders : Fill(o)
Failing ==
  \/ DisconnectNothing
  \/ \E t \in Threads : UseUndefined(t)
  \/ \E c \in Clients : AcceptDuringLookup(c)

TableStep == Accepts \/ DisconnectRemove \/ Restart
OpenStep == TableStep \/ RefuseTarget \/ RefuseNumber
InboxStep == ClientMoves \/ Reading \/ DisconnectRemove \/ Restart
SessionStep ==
  \/ Sending("reactor") \/ Sending("processor")
  \/ Initialise \/ HandleLogon \/ AcceptMessage \/ DisconnectSave \/ DisconnectRemove
StoreStep == DisconnectSave \/ StopSave \/ Restart
BookStep == AcceptMessage \/ TakeReport \/ Fills \/ Restart
ClientStep == Accepts \/ ClientMoves
CleanStep == ClientStep \/ StopSave \/ Restart
ReceivedStep == Transmit("reactor") \/ Transmit("processor")

ThreadStep ==
  \/ Accepts \/ Reading \/ HangsUp \/ Failing \/ Stop \/ Restart \/ Initialise
  \/ RejectMalformed \/ HandleLogon \/ RefuseTarget \/ RefuseNumber \/ AcceptMessage
  \/ DisconnectSave \/ DisconnectRemove \/ StopSave \/ TakeReport
  \/ Sending("reactor") \/ Sending("processor")

Framed ==
  /\ TableStep \/ UNCHANGED <<tableVars, accepted, client>>
  /\ OpenStep \/ UNCHANGED open
  /\ InboxStep \/ UNCHANGED inbox
  /\ SessionStep \/ UNCHANGED session
  /\ StoreStep \/ UNCHANGED store
  /\ BookStep \/ UNCHANGED bookVars
  /\ ClientStep \/ UNCHANGED <<link, stage, clientOut>>
  /\ CleanStep \/ UNCHANGED clean
  /\ ReceivedStep \/ UNCHANGED received
  /\ RefuseNumber \/ UNCHANGED refused
  /\ Restart \/ UNCHANGED restarts
  /\ ThreadStep \/ UNCHANGED thread

(* A step changes what its handler changes and nothing else. *)
LEMMA Frames ==
  ASSUME [Next]_vars
  PROVE  Framed
<1> USE DEF Framed, wireVars, tableVars, bookVars, clientVars
<1>1. CASE Accepts
  BY <1>1 DEF Accepts, Accept, Connects, TableStep, OpenStep, ClientStep, CleanStep, ThreadStep
<1>2. CASE ClientMoves
  BY <1>2 DEF ClientMoves, ClientLeaves, ClientSends, InboxStep, ClientStep, CleanStep
<1>3. CASE Reading \/ HangsUp
  BY <1>3 DEF Reading, HangsUp, HandleClient, HangUp, InboxStep, ThreadStep
<1>4. CASE Fills
  BY <1>4 DEF Fills, Fill, BookStep
<1>5. CASE Failing
  BY <1>5 DEF Failing, DisconnectNothing, UseUndefined, AcceptDuringLookup, Fail, ThreadStep
<1>6. CASE Stop \/ StopSave
  BY <1>6 DEF Stop, StopSave, StoreStep, CleanStep, ThreadStep
<1>7. CASE Restart
  BY <1>7 DEF Restart, TableStep, OpenStep, InboxStep, StoreStep, BookStep, CleanStep, ThreadStep
<1>8. CASE Initialise \/ RejectMalformed \/ HandleLogon
  BY <1>8 DEF Initialise, RejectMalformed, HandleLogon, SessionStep, ThreadStep
<1>9. CASE RefuseTarget \/ RefuseNumber
  BY <1>9 DEF RefuseTarget, RefuseNumber, CloseSession, OpenStep, ThreadStep
<1>10. CASE AcceptMessage
  BY <1>10 DEF AcceptMessage, SessionStep, BookStep, ThreadStep
<1>11. CASE DisconnectSave
  BY <1>11 DEF DisconnectSave, SessionStep, StoreStep, ThreadStep
<1>12. CASE DisconnectRemove
  BY <1>12 DEF DisconnectRemove, TableStep, OpenStep, InboxStep, SessionStep, ThreadStep
<1>13. CASE TakeReport
  BY <1>13 DEF TakeReport, BookStep, ThreadStep
<1>14. ASSUME NEW t \in Threads, Sending(t) PROVE Framed
  BY <1>14 DEF Threads, Sending, Transmit, Increment, Lock, Unlock, SessionStep, ReceivedStep,
               ThreadStep
<1>15. CASE UNCHANGED vars
  BY <1>15 DEF vars
<1> QED
  BY <1>1, <1>2, <1>3, <1>4, <1>5, <1>6, <1>7, <1>8, <1>9, <1>10, <1>11, <1>12, <1>13, <1>14, <1>15
     DEF Next, ReactorStep, ProcessorStep, Threads, Accepts, ClientMoves, Reading, HangsUp, Fills,
         Failing
-----------------------------------------------------------------------------
(* Types *)

SessionRecord ==
  [out : Nat, in : Nat, comp : Clients \cup {NoClient}, tcp : 0 .. MaxConnections,
   lock : Threads \cup {"free"}, sendLock : Threads \cup {"free"}]

ThreadRecord ==
  [pc : Pcs, slot : Nat, conn : 0 .. MaxConnections, batch : Seq(Message),
   owner : Clients \cup {NoClient}, num : Nat, then : Pcs \cup {"next"}]

(* The connections of the table are within bounds. *)
LEMMA SlotFacts ==
  ASSUME TypeOK, TableInv
  PROVE  /\ \A i \in DOMAIN sessions : /\ i \in Connections /\ i \in 1 .. Len(sessions)
                                       /\ sessions[i] \in Connections
                                       /\ sessions[i] \in 1 .. accepted
         /\ DOMAIN sessions = 1 .. Len(sessions) /\ Len(sessions) \in Nat
         /\ DOMAIN sessionFlags = DOMAIN sessions
         /\ accepted \in Nat /\ MaxConnections \in Nat /\ accepted <= MaxConnections
<1>1. /\ sessions \in Seq(Connections) /\ sessionFlags \in Seq(BOOLEAN)
      /\ accepted \in 0 .. MaxConnections /\ MaxConnections \in Nat
      /\ Len(sessions) <= accepted /\ Len(sessionFlags) = Len(sessions)
      /\ \A i \in DOMAIN sessions : sessions[i] <= accepted
  BY ConstantsAssumption DEF TypeOK, TableInv
<1> QED
  BY <1>1 DEF Connections

(* The session of the message at hand has its socket. *)
LEMMA AtMessageFacts ==
  ASSUME TypeOK, TableInv, TcpInv, ReactorInv, reactor.pc \in AtMessage
  PROVE  /\ reactor.slot \in DOMAIN sessions
         /\ reactor.conn = sessions[reactor.slot]
         /\ reactor.conn \in Connections
         /\ reactor.conn \in 1 .. accepted
         /\ session[reactor.conn].tcp = reactor.conn
         /\ reactor.batch \in Seq(Message)
         /\ reactor.batch # <<>>
         /\ Head(reactor.batch) \in Message
         /\ reactor \in ThreadRecord
<1>1. reactor \in ThreadRecord
  BY DEF TypeOK, Threads, reactor, ThreadRecord
<1>2. /\ reactor.slot \in DOMAIN sessions /\ reactor.conn = sessions[reactor.slot]
      /\ reactor.batch # <<>>
  BY DEF ReactorInv
<1>3. session[reactor.conn].tcp = reactor.conn
  BY <1>2 DEF TcpInv, AtMessage, AtSession
<1>4. reactor.batch \in Seq(Message)
  BY <1>1 DEF ThreadRecord
<1>5. Head(reactor.batch) \in Message
  BY <1>2, <1>4
<1> QED
  BY <1>1, <1>2, <1>3, <1>4, <1>5, SlotFacts

(* The rest of a batch is a batch. *)
LEMMA ResumeFacts ==
  ASSUME NEW r \in ThreadRecord
  PROVE  /\ Resume(r) \in ThreadRecord
         /\ \/ Resume(r) = Waiting
            \/ /\ Len(r.batch) > 1
               /\ Resume(r) = [r EXCEPT !.pc = "process", !.batch = Tail(@), !.num = 0, !.then = "poll"]
               /\ Tail(r.batch) \in Seq(Message) /\ Tail(r.batch) # <<>>
         /\ Waiting \in ThreadRecord /\ Failed \in ThreadRecord
<1>1. Waiting \in ThreadRecord /\ Failed \in ThreadRecord
  <2>1. <<>> \in Seq(Message) /\ 0 \in Nat /\ 0 \in 0 .. MaxConnections
    BY ConstantsAssumption
  <2> QED
    BY <2>1 DEF Waiting, Failed, ThreadRecord, Pcs
<1>2. CASE Len(r.batch) > 1
  <2>1. r.batch \in Seq(Message)
    BY DEF ThreadRecord
  <2>2. Tail(r.batch) \in Seq(Message) /\ Tail(r.batch) # <<>>
    <3>1. r.batch # <<>>
      BY <1>2, <2>1
    <3>2. Tail(r.batch) \in Seq(Message) /\ Len(Tail(r.batch)) = Len(r.batch) - 1
      BY <2>1, <3>1
    <3>3. Len(r.batch) \in Nat /\ Len(<<>>) = 0
      BY <2>1
    <3> DEFINE n == Len(r.batch)
               m == Len(Tail(r.batch))
    <3>4. m # 0
      <4>1. n \in Nat /\ n > 1 /\ m = n - 1
        BY <1>2, <3>2, <3>3
      <4> HIDE DEF n, m
      <4> QED
        BY <4>1
    <3> QED
      BY <3>2, <3>3, <3>4
  <2>3. [r EXCEPT !.pc = "process", !.batch = Tail(@), !.num = 0, !.then = "poll"] \in ThreadRecord
    BY <2>2 DEF ThreadRecord, Pcs
  <2> QED
    BY <1>1, <1>2, <2>2, <2>3 DEF Resume
<1>3. CASE ~(Len(r.batch) > 1)
  BY <1>1, <1>3 DEF Resume
<1> QED
  BY <1>2, <1>3

LEMMA ResumePc ==
  ASSUME NEW r \in ThreadRecord
  PROVE  Resume(r).pc \in {"process", "poll"} /\ Waiting.pc = "poll" /\ Failed.pc = "failed"
  BY DEF Resume, Waiting, Failed, ThreadRecord

LEMMA WireType ==
  ASSUME TypeOK, [Next]_vars
  PROVE  /\ accepted' \in 0 .. MaxConnections
         /\ client' \in [Connections -> Clients \cup {NoClient}]
         /\ open' \in [Connections -> BOOLEAN]
         /\ inbox' \in [Connections -> Seq(Message)]
<1>1. /\ accepted \in 0 .. MaxConnections
      /\ client \in [Connections -> Clients \cup {NoClient}]
      /\ open \in [Connections -> BOOLEAN]
      /\ inbox \in [Connections -> Seq(Message)]
      /\ clientOut \in [Clients -> Nat]
      /\ MaxConnections \in Nat
  BY ConstantsAssumption DEF TypeOK
<1>2. Framed
  BY Frames
<1>3. /\ accepted' \in 0 .. MaxConnections
      /\ client' \in [Connections -> Clients \cup {NoClient}]
  <2>1. CASE Accepts
    <3>1. PICK c \in Clients : Accept(c)
      BY <2>1 DEF Accepts
    <3>2. accepted < MaxConnections /\ accepted' = accepted + 1
      BY <3>1 DEF Accept, Connects
    <3>3. client' = [client EXCEPT ![accepted + 1] = c]
      BY <3>1 DEF Accept
    <3>4. accepted' \in 0 .. MaxConnections
      BY <1>1, <3>2
    <3> QED
      BY <1>1, <3>3, <3>4
  <2>2. CASE DisconnectRemove \/ Restart \/ UNCHANGED <<accepted, client>>
    BY <1>1, <2>2 DEF DisconnectRemove, Restart
  <2> QED
    BY <1>2, <2>1, <2>2 DEF Framed, TableStep
<1>4. open' \in [Connections -> BOOLEAN]
  <2>1. CASE Accepts
    BY <1>1, <2>1 DEF Accepts, Accept
  <2>2. CASE DisconnectRemove \/ RefuseTarget \/ RefuseNumber \/ UNCHANGED open
    BY <1>1, <2>2 DEF DisconnectRemove, RefuseTarget, RefuseNumber, CloseSession
  <2>3. CASE Restart
    BY <2>3 DEF Restart
  <2> QED
    BY <1>2, <2>1, <2>2, <2>3 DEF Framed, OpenStep, TableStep
<1>5. inbox' \in [Connections -> Seq(Message)]
  <2>1. CASE ClientMoves
    <3>1. CASE \E c \in Clients : ClientLeaves(c)
      BY <1>1, <3>1 DEF ClientLeaves, wireVars
    <3>2. ASSUME NEW c \in Clients, NEW kind \in SentKinds, ClientSends(c, kind)
          PROVE  inbox' \in [Connections -> Seq(Message)]
      <4>1. [kind |-> kind, seq |-> clientOut[c]] \in Message
        BY <1>1, <3>2, ConstantsAssumption DEF Message
      <4> DEFINE m == [kind |-> kind, seq |-> clientOut[c]]
      <4>2. inbox' = [inbox EXCEPT ![link[c]] = Append(@, m)]
        BY <3>2 DEF ClientSends
      <4>3. \A q \in Seq(Message) : Append(q, m) \in Seq(Message)
        BY <4>1
      <4> HIDE DEF m
      <4> QED
        BY <1>1, <4>2, <4>3
    <3> QED
      BY <2>1, <3>1, <3>2 DEF ClientMoves
  <2>2. CASE Reading
    <3>0. PICK i \in DOMAIN peers : HandleClient(i)
      BY <2>2 DEF Reading
    <3> DEFINE k == peers[i]
    <3>1. PICK n \in 1 .. BatchSize : inbox' = [inbox EXCEPT ![k] = SubSeq(@, n + 1, Len(@))]
      BY <3>0 DEF HandleClient
    <3>2. \A q \in Seq(Message) : SubSeq(q, n + 1, Len(q)) \in Seq(Message)
      BY ConstantsAssumption
    <3> HIDE DEF k
    <3> QED
      BY <1>1, <3>1, <3>2
  <2>3. CASE DisconnectRemove \/ Restart \/ UNCHANGED inbox
    <3>1. <<>> \in Seq(Message)
      OBVIOUS
    <3> QED
      BY <1>1, <2>3, <3>1 DEF DisconnectRemove, Restart
  <2> QED
    BY <1>2, <2>1, <2>2, <2>3 DEF Framed, InboxStep
<1> QED
  BY <1>3, <1>4, <1>5

(* A function on 1 .. n is a sequence. *)
LEMMA IsASequence ==
  ASSUME NEW S, NEW n \in Nat, NEW f \in [1 .. n -> S]
  PROVE  f \in Seq(S)
  OBVIOUS

LEMMA TableType ==
  ASSUME TypeOK, TableInv, [Next]_vars
  PROVE  /\ peers' \in Seq(Connections) /\ peerFlags' \in Seq(BOOLEAN)
         /\ sessions' \in Seq(Connections) /\ sessionFlags' \in Seq(BOOLEAN)
<1>1. /\ peers \in Seq(Connections) /\ peerFlags \in Seq(BOOLEAN)
      /\ sessions \in Seq(Connections) /\ sessionFlags \in Seq(BOOLEAN)
      /\ peers = sessions /\ peerFlags = sessionFlags /\ Len(sessionFlags) = Len(sessions)
  BY DEF TypeOK, TableInv
<1>2. CASE Accepts
  <2>1. PICK c \in Clients : Accept(c)
    BY <1>2 DEF Accepts
  <2> DEFINE i == FreeSlot(sessionFlags)
             k == accepted + 1
  <2>2. i \in 1 .. Len(sessions) + 1
    BY <1>1, FreeSlotFacts
  <2>3. /\ peers' = Put(sessions, i, k) /\ sessions' = Put(sessions, i, k)
        /\ peerFlags' = Put(sessionFlags, i, TRUE) /\ sessionFlags' = Put(sessionFlags, i, TRUE)
    BY <1>1, <2>1 DEF Accept
  <2>4. k \in Connections
    BY <2>1, SlotFacts DEF Accept, Connects, Connections
  <2> HIDE DEF i, k
  <2> QED
    BY <1>1, <2>2, <2>3, <2>4, PutFacts
<1>3. CASE DisconnectRemove
  <2>1. /\ peers' = peers /\ sessions' = sessions
        /\ sessionFlags' = [sessionFlags EXCEPT ![reactor.slot] = FALSE]
        /\ peerFlags' = [peerFlags EXCEPT ![reactor.slot] = FALSE]
    BY <1>3 DEF DisconnectRemove, reactor
  <2>2. \A i : [sessionFlags EXCEPT ![i] = FALSE] \in Seq(BOOLEAN)
    <3> SUFFICES ASSUME NEW i PROVE [sessionFlags EXCEPT ![i] = FALSE] \in Seq(BOOLEAN)
      OBVIOUS
    <3>1. sessionFlags \in [1 .. Len(sessionFlags) -> BOOLEAN] /\ Len(sessionFlags) \in Nat
      BY <1>1
    <3>2. [sessionFlags EXCEPT ![i] = FALSE] \in [1 .. Len(sessionFlags) -> BOOLEAN]
      BY <3>1
    <3> QED
      BY <3>1, <3>2, IsASequence
  <2> QED
    BY <1>1, <2>1, <2>2
<1>4. CASE Restart
  BY <1>4 DEF Restart
<1>5. CASE UNCHANGED tableVars
  BY <1>1, <1>5 DEF tableVars
<1> QED
  BY <1>2, <1>3, <1>4, <1>5, Frames DEF Framed, TableStep, tableVars

(* Updates of a session and of a thread *)
LEMMA SessionUpdate ==
  ASSUME NEW s \in SessionRecord
  PROVE  /\ \A x \in Threads \cup {"free"} : /\ [s EXCEPT !.lock = x] \in SessionRecord
                                             /\ [s EXCEPT !.sendLock = x] \in SessionRecord
         /\ \A n \in Nat : /\ [s EXCEPT !.in = n] \in SessionRecord
                           /\ [s EXCEPT !.out = n, !.sendLock = "free"] \in SessionRecord
         /\ \A k \in 0 .. MaxConnections : [s EXCEPT !.tcp = k] \in SessionRecord
         /\ \A c \in Clients \cup {NoClient}, n, m \in Nat :
              [s EXCEPT !.comp = c, !.out = n, !.in = m] \in SessionRecord
  BY DEF SessionRecord

LEMMA ThreadUpdate ==
  ASSUME NEW r \in ThreadRecord
  PROVE  /\ \A pc \in Pcs, then \in Pcs \cup {"next"} :
              /\ [r EXCEPT !.pc = pc] \in ThreadRecord
              /\ [r EXCEPT !.pc = pc, !.then = then] \in ThreadRecord
         /\ \A pc \in Pcs, n \in Nat : /\ [r EXCEPT !.pc = pc, !.num = n] \in ThreadRecord
                                       /\ [r EXCEPT !.pc = pc, !.slot = n] \in ThreadRecord
         /\ \A n \in Nat : [r EXCEPT !.slot = n] \in ThreadRecord
         /\ \A pc \in Pcs, k \in 0 .. MaxConnections :
              /\ [r EXCEPT !.pc = pc, !.conn = k] \in ThreadRecord
              /\ \A n \in Nat, b \in Seq(Message) :
                   [r EXCEPT !.pc = pc, !.slot = n, !.conn = k, !.batch = b] \in ThreadRecord
              /\ \A n \in Nat, c \in Clients \cup {NoClient} :
                   [r EXCEPT !.pc = pc, !.slot = n, !.conn = k, !.owner = c] \in ThreadRecord
  BY DEF ThreadRecord

LEMMA SessionType ==
  ASSUME TypeOK, TableInv, TcpInv, ReactorInv, [Next]_vars
  PROVE  session' \in [Connections -> SessionRecord]
<1>1. /\ session \in [Connections -> SessionRecord]
      /\ thread \in [Threads -> ThreadRecord]
      /\ store \in [Clients \cup {NoClient} -> Numbers]
      /\ client \in [Connections -> Clients \cup {NoClient}]
      /\ MaxConnections \in Nat
  BY ConstantsAssumption DEF TypeOK, SessionRecord, ThreadRecord
<1>2. ASSUME NEW t \in Threads, Transmit(t) \/ Lock(t) \/ Unlock(t)
      PROVE  session' \in [Connections -> SessionRecord]
  <2>1. CASE Transmit(t)
    <3>1. session' = [session EXCEPT ![thread[t].conn].sendLock = t]
      BY <2>1 DEF Transmit
    <3> QED
      BY <1>1, <3>1, SessionUpdate
  <2>2. CASE Lock(t)
    <3>1. session' = [session EXCEPT ![thread[t].conn].lock = t]
      BY <2>2 DEF Lock
    <3> QED
      BY <1>1, <3>1, SessionUpdate
  <2>3. CASE Unlock(t)
    <3>1. session' = [session EXCEPT ![thread[t].conn].lock = "free"]
      BY <2>3 DEF Unlock
    <3> QED
      BY <1>1, <3>1, SessionUpdate
  <2> QED
    BY <1>2, <2>1, <2>2, <2>3
<1>3. ASSUME NEW t \in Threads, Increment(t) PROVE session' \in [Connections -> SessionRecord]
  <2>1. thread[t].conn \in Connections
    BY <1>3, SlotFacts DEF Increment, Alive
  <2>2. PICK n \in {session[thread[t].conn].out, thread[t].num} :
          session' = [session EXCEPT ![thread[t].conn].out = n + 1,
                                     ![thread[t].conn].sendLock = "free"]
    BY <1>3 DEF Increment
  <2>3. n + 1 \in Nat
    BY <1>1, <2>1, <2>2 DEF SessionRecord, ThreadRecord
  <2> QED
    BY <1>1, <2>2, <2>3, SessionUpdate
<1>4. CASE Initialise
  <2>1. reactor.slot \in DOMAIN sessions
    BY <1>4 DEF Initialise, ReactorInv, reactor
  <2>2. peers[reactor.slot] \in 0 .. MaxConnections
    BY <2>1, SlotFacts DEF TableInv, Connections
  <2>3. session' = [session EXCEPT ![sessions[reactor.slot]].tcp = peers[reactor.slot]]
    BY <1>4 DEF Initialise, reactor
  <2> QED
    BY <1>1, <2>2, <2>3, SessionUpdate
<1>5. CASE HandleLogon
  <2>1. reactor.pc \in AtMessage
    BY <1>5 DEF HandleLogon, reactor, AtMessage
  <2>2. client[session[reactor.conn].tcp] \in Clients \cup {NoClient}
    BY <1>1, <2>1, AtMessageFacts
  <2> DEFINE comp == client[session[reactor.conn].tcp]
  <2>3. store[comp].out \in Nat /\ store[comp].in \in Nat
    BY <1>1, <2>2 DEF Numbers
  <2>4. session' = [session EXCEPT ![reactor.conn] =
                      [@ EXCEPT !.comp = comp, !.out = store[comp].out, !.in = store[comp].in]]
    BY <1>5 DEF HandleLogon, reactor, Restored
  <2> HIDE DEF comp
  <2> QED
    BY <1>1, <2>2, <2>3, <2>4, SessionUpdate DEF comp
<1>6. CASE AcceptMessage
  <2>1. reactor.pc \in AtMessage
    BY <1>6 DEF AcceptMessage, AtValidation, reactor, AtMessage
  <2>2. Head(reactor.batch).seq \in Nat
    BY <2>1, AtMessageFacts DEF Message
  <2>3. session' = [session EXCEPT ![reactor.conn].in = Head(reactor.batch).seq]
    BY <1>6 DEF AcceptMessage, reactor
  <2> QED
    BY <1>1, <2>2, <2>3, SessionUpdate
<1>7. CASE DisconnectSave
  <2>1. session' = [session EXCEPT ![sessions[reactor.slot]].lock = "reactor"]
    BY <1>7 DEF DisconnectSave, reactor
  <2> QED
    BY <1>1, <2>1, SessionUpdate DEF Threads
<1>8. CASE DisconnectRemove
  <2>1. session' = [session EXCEPT ![sessions[reactor.slot]].lock = "free"]
    BY <1>8 DEF DisconnectRemove, reactor
  <2> QED
    BY <1>1, <2>1, SessionUpdate
<1>9. CASE UNCHANGED session
  BY <1>1, <1>9
<1> QED
  BY <1>2, <1>3, <1>4, <1>5, <1>6, <1>7, <1>8, <1>9, Frames
     DEF Framed, SessionStep, Sending, Threads

LEMMA ThreadType ==
  ASSUME TypeOK, TableInv, TcpInv, ReactorInv, ProcessorInv, OriginInv, [Next]_vars
  PROVE  thread' \in [Threads -> ThreadRecord]
<1>1. /\ session \in [Connections -> SessionRecord]
      /\ thread \in [Threads -> ThreadRecord]
      /\ MaxConnections \in Nat /\ Connections \subseteq 0 .. MaxConnections
      /\ "reactor" \in Threads /\ "processor" \in Threads
  <2>1. MaxConnections \in Nat /\ Connections \subseteq 0 .. MaxConnections
    BY ConstantsAssumption DEF Connections
  <2> QED
    BY <2>1 DEF TypeOK, SessionRecord, ThreadRecord, Threads
<1>2. /\ Waiting \in ThreadRecord /\ Failed \in ThreadRecord
      /\ \A r \in ThreadRecord : Resume(r) \in ThreadRecord
  BY <1>1, ResumeFacts
<1>3. ASSUME NEW t \in Threads, Transmit(t) PROVE thread' \in [Threads -> ThreadRecord]
  <2>1. thread[t].conn \in Connections
    BY <1>3, SlotFacts DEF Transmit, Alive
  <2>2. session[thread[t].conn].out \in Nat
    BY <1>1, <2>1 DEF SessionRecord
  <2>3. thread' = [thread EXCEPT ![t].pc = "increment", ![t].num = session[thread[t].conn].out]
    BY <1>3 DEF Transmit
  <2> QED
    BY <1>1, <2>2, <2>3, ThreadUpdate DEF Pcs
<1>4. ASSUME NEW t \in Threads, Increment(t) PROVE thread' \in [Threads -> ThreadRecord]
  <2> DEFINE r == thread[t]
  <2>1. thread' = [thread EXCEPT ![t] = IF r.then = "next" THEN Resume(r)
                                         ELSE [r EXCEPT !.pc = r.then]]
    BY <1>4 DEF Increment
  <2>2. r \in ThreadRecord
    BY <1>1
  <2>3. r.then # "next" => [r EXCEPT !.pc = r.then] \in ThreadRecord
    BY <2>2 DEF ThreadRecord
  <2> HIDE DEF r
  <2> QED
    BY <1>1, <1>2, <2>1, <2>2, <2>3
<1>5. ASSUME NEW t \in Threads, Lock(t) PROVE thread' \in [Threads -> ThreadRecord]
  <2>1. thread' = [thread EXCEPT ![t].pc = "send", ![t].then = "unlock"]
    BY <1>5 DEF Lock
  <2> QED
    BY <1>1, <2>1, ThreadUpdate DEF Pcs
<1>6. ASSUME NEW t \in Threads, Unlock(t) PROVE thread' \in [Threads -> ThreadRecord]
  <2>1. thread' = [thread EXCEPT ![t] = IF t = "reactor" THEN Resume(@) ELSE Waiting]
    BY <1>6 DEF Unlock
  <2> QED
    BY <1>1, <1>2, <2>1
<1>7. CASE Accepts
  <2>1. PICK c \in Clients : Accept(c)
    BY <1>7 DEF Accepts
  <2>2. FreeSlot(peerFlags) \in Nat
    BY FreeSlotFacts DEF TypeOK
  <2>3. thread' = [thread EXCEPT !["reactor"] =
                     [Waiting EXCEPT !.pc = "initialise", !.slot = FreeSlot(peerFlags)]]
    BY <2>1 DEF Accept
  <2> QED
    BY <1>1, <1>2, <2>2, <2>3, ThreadUpdate DEF Pcs
<1>8. CASE Reading
  <2>1. PICK i \in DOMAIN peers : HandleClient(i)
    BY <1>8 DEF Reading
  <2>2. PICK n \in 1 .. BatchSize :
          /\ n <= Len(inbox[peers[i]])
          /\ thread' = [thread EXCEPT !["reactor"] =
                          [Waiting EXCEPT !.pc = "process", !.slot = i, !.conn = sessions[i],
                                          !.batch = SubSeq(inbox[peers[i]], 1, n)]]
    BY <2>1 DEF HandleClient
  <2>3. i \in Nat /\ peers[i] \in Connections /\ sessions[i] \in 0 .. MaxConnections
    BY <1>1, <2>1, SlotFacts DEF TableInv
  <2>4. inbox[peers[i]] \in Seq(Message)
    BY <2>3 DEF TypeOK
  <2>5. SubSeq(inbox[peers[i]], 1, n) \in Seq(Message)
    BY <2>2, <2>4, ConstantsAssumption
  <2> DEFINE b == SubSeq(inbox[peers[i]], 1, n)
             k == sessions[i]
  <2>6. thread' = [thread EXCEPT !["reactor"] = [Waiting EXCEPT !.pc = "process", !.slot = i,
                                                   !.conn = k, !.batch = b]]
    BY <2>2
  <2> HIDE DEF b, k
  <2> QED
    BY <1>1, <1>2, <2>3, <2>5, <2>6, ThreadUpdate DEF Pcs, b, k
<1>9. CASE HangsUp
  <2>1. PICK i \in DOMAIN peers : thread' = [thread EXCEPT !["reactor"] =
                                               [Waiting EXCEPT !.pc = "disconnect", !.slot = i]]
    BY <1>9 DEF HangsUp, HangUp
  <2>2. i \in Nat
    BY <2>1, SlotFacts DEF TableInv
  <2> QED
    BY <1>1, <1>2, <2>1, <2>2, ThreadUpdate DEF Pcs
<1>10. CASE Failing
  BY <1>2, <1>10 DEF Failing, DisconnectNothing, UseUndefined, AcceptDuringLookup, Fail
<1>11. CASE Stop
  BY <1>1, <1>2, <1>11, ThreadUpdate DEF Stop, Pcs
<1>12. CASE Restart
  BY <1>2, <1>12 DEF Restart
<1>13. CASE Initialise
  BY <1>1, <1>2, <1>13 DEF Initialise
<1>14. CASE RejectMalformed \/ HandleLogon \/ RefuseTarget \/ RefuseNumber
  <2>1. \/ thread' = [thread EXCEPT !["reactor"].pc = "send", !["reactor"].then = "next"]
        \/ thread' = [thread EXCEPT !["reactor"].pc = "send", !["reactor"].then = "validate"]
        \/ thread' = [thread EXCEPT !["reactor"].pc = "disconnect"]
    BY <1>14 DEF RejectMalformed, HandleLogon, RefuseTarget, RefuseNumber, CloseSession
  <2>2. CASE thread' = [thread EXCEPT !["reactor"].pc = "send", !["reactor"].then = "next"]
    BY <1>1, <2>2, ThreadUpdate DEF Pcs
  <2>3. CASE thread' = [thread EXCEPT !["reactor"].pc = "send", !["reactor"].then = "validate"]
    BY <1>1, <2>3, ThreadUpdate DEF Pcs
  <2>4. CASE thread' = [thread EXCEPT !["reactor"].pc = "disconnect"]
    BY <1>1, <2>4, ThreadUpdate DEF Pcs
  <2> QED
    BY <2>1, <2>2, <2>3, <2>4
<1>15. CASE AcceptMessage
  <2>1. reactor.pc \in AtMessage
    BY <1>15 DEF AcceptMessage, AtValidation, reactor, AtMessage
  <2>2. thread' = [thread EXCEPT !["reactor"] = Answer(reactor, Head(reactor.batch))]
    BY <1>15 DEF AcceptMessage, reactor
  <2>3. reactor \in ThreadRecord /\ sessions[reactor.slot] \in 0 .. MaxConnections
    BY <1>1, <2>1, AtMessageFacts
  <2>4. ASSUME NEW m, NEW k \in 0 .. MaxConnections, k = sessions[reactor.slot]
        PROVE  Answer(reactor, m) \in ThreadRecord
    BY <1>2, <2>3, <2>4, ThreadUpdate DEF Answer, Pcs
  <2> QED
    BY <1>1, <2>2, <2>3, <2>4
<1>16. CASE DisconnectSave
  BY <1>1, <1>16, ThreadUpdate DEF DisconnectSave, Pcs
<1>17. CASE DisconnectRemove
  BY <1>1, <1>2, <1>17 DEF DisconnectRemove
<1>18. CASE StopSave
  <2>1. \/ thread' = [thread EXCEPT !["reactor"].slot = reactor.slot + 1]
        \/ thread' = [thread EXCEPT !["reactor"].pc = "stopped"]
    BY <1>18 DEF StopSave, reactor
  <2>2. reactor.slot + 1 \in Nat
    BY <1>1 DEF reactor, ThreadRecord
  <2>3. CASE thread' = [thread EXCEPT !["reactor"].slot = reactor.slot + 1]
    BY <1>1, <2>2, <2>3, ThreadUpdate
  <2>4. CASE thread' = [thread EXCEPT !["reactor"].pc = "stopped"]
    BY <1>1, <2>4, ThreadUpdate DEF Pcs
  <2> QED
    BY <2>1, <2>3, <2>4
<1>19. CASE TakeReport
  <2>1. Head(reports) \in Origin /\ Head(reports).slot \in DOMAIN sessions
    BY <1>19 DEF TakeReport, TypeOK, OriginInv
  <2> DEFINE o == Head(reports)
             k == sessions[o.slot]
  <2>2. o.slot \in Nat /\ o.owner \in Clients \cup {NoClient} /\ k \in 0 .. MaxConnections
    BY <1>1, <2>1, SlotFacts DEF Origin
  <2>3. \/ thread' = thread
        \/ thread' = [thread EXCEPT !["processor"] =
                        [Waiting EXCEPT !.pc = "lock", !.slot = o.slot, !.conn = k,
                                        !.owner = o.owner]]
    BY <1>19 DEF TakeReport
  <2> HIDE DEF o, k
  <2>4. ASSUME NEW n \in Nat, NEW c \in Clients \cup {NoClient}
        PROVE  [Waiting EXCEPT !.pc = "lock", !.slot = n, !.conn = k, !.owner = c] \in ThreadRecord
    BY <1>2, <2>2, ThreadUpdate DEF Pcs
  <2> QED
    BY <1>1, <2>2, <2>3, <2>4
<1>20. CASE UNCHANGED thread
  BY <1>1, <1>20
<1> QED
  BY <1>3, <1>4, <1>5, <1>6, <1>7, <1>8, <1>9, <1>10, <1>11, <1>12, <1>13, <1>14, <1>15, <1>16,
     <1>17, <1>18, <1>19, <1>20, Frames DEF Framed, ThreadStep, Sending, Threads

LEMMA StoreType ==
  ASSUME TypeOK, TableInv, ReactorInv, [Next]_vars
  PROVE  store' \in [Clients \cup {NoClient} -> Numbers]
<1>1. /\ session \in [Connections -> SessionRecord]
      /\ store \in [Clients \cup {NoClient} -> Numbers]
  BY DEF TypeOK, SessionRecord
<1>2. ASSUME NEW k \in Connections, Save(k) PROVE store' \in [Clients \cup {NoClient} -> Numbers]
  <2>1. [out |-> session[k].out, in |-> session[k].in] \in Numbers
    BY <1>1 DEF Numbers, SessionRecord
  <2> QED
    BY <1>1, <1>2, <2>1 DEF Save
<1>3. CASE DisconnectSave
  <2>1. reactor.slot \in DOMAIN sessions
    BY <1>3 DEF DisconnectSave, ReactorInv, reactor
  <2> QED
    BY <1>2, <1>3, <2>1, SlotFacts DEF DisconnectSave, reactor
<1>4. CASE StopSave
  <2>1. CASE reactor.slot <= Len(sessions) /\ Save(sessions[reactor.slot])
    <3>1. reactor.slot \in Nat /\ reactor.slot >= 1
      BY <1>4 DEF StopSave, ReactorInv, reactor, TypeOK, Threads
    <3>2. reactor.slot \in DOMAIN sessions
      BY <2>1, <3>1, SlotFacts
    <3> QED
      BY <1>2, <2>1, <3>2, SlotFacts
  <2>2. CASE store' = store
    BY <1>1, <2>2
  <2> QED
    BY <1>4, <2>1, <2>2 DEF StopSave, reactor
<1>5. CASE Restart
  <2>1. NoFile \in Numbers
    BY DEF NoFile, Numbers
  <2>2. PICK lost : store' = [c \in DOMAIN store |-> IF c \in lost THEN NoFile ELSE store[c]]
    BY <1>5 DEF Restart
  <2> QED
    BY <1>1, <2>1, <2>2
<1>6. CASE UNCHANGED store
  BY <1>1, <1>6
<1> QED
  BY <1>3, <1>4, <1>5, <1>6, Frames DEF Framed, StoreStep

(* An order remembers the slot of the message that brought it. *)
LEMMA OriginFacts ==
  ASSUME TypeOK, TableInv, TcpInv, ReactorInv, AcceptMessage
  PROVE  \E o \in Origin :
           /\ o = [slot |-> reactor.slot, owner |-> session[reactor.conn].comp]
           /\ o.slot \in DOMAIN sessions
           /\ \/ orders' = orders \cup {o} /\ reports' = Append(reports, o)
              \/ UNCHANGED <<orders, reports>>
<1>1. reactor.pc \in AtMessage
  BY DEF AcceptMessage, AtValidation, reactor, AtMessage
<1>2. /\ reactor.slot \in DOMAIN sessions /\ reactor.slot \in Connections
      /\ reactor.conn \in Connections
  BY <1>1, AtMessageFacts, SlotFacts
<1>3. session[reactor.conn].comp \in Clients \cup {NoClient}
  BY <1>2 DEF TypeOK
<1> DEFINE o == [slot |-> reactor.slot, owner |-> session[reactor.conn].comp]
<1>4. o \in Origin /\ o.slot \in DOMAIN sessions
  BY <1>2, <1>3 DEF Origin
<1>5. \/ orders' = orders \cup {o} /\ reports' = Append(reports, o)
      \/ UNCHANGED <<orders, reports>>
  BY DEF AcceptMessage, reactor
<1> HIDE DEF o
<1>6. o = [slot |-> reactor.slot, owner |-> session[reactor.conn].comp]
  BY DEF o
<1> QED
  BY <1>4, <1>5, <1>6

LEMMA BookType ==
  ASSUME TypeOK, TableInv, TcpInv, ReactorInv, [Next]_vars
  PROVE  orders' \subseteq Origin /\ reports' \in Seq(Origin) /\ fills' \in 0 .. MaxFills
<1>1. orders \subseteq Origin /\ reports \in Seq(Origin) /\ fills \in 0 .. MaxFills
  BY DEF TypeOK
<1>2. CASE AcceptMessage
  <2>1. fills' = fills
    BY <1>2 DEF AcceptMessage
  <2> QED
    BY <1>1, <1>2, <2>1, OriginFacts
<1>3. CASE TakeReport
  BY <1>1, <1>3 DEF TakeReport
<1>4. CASE Fills
  <2>1. PICK o \in orders : Fill(o)
    BY <1>4 DEF Fills
  <2>2. fills' \in 0 .. MaxFills
    BY <1>1, <2>1, ConstantsAssumption DEF Fill
  <2>3. orders' \subseteq Origin /\ reports' = Append(reports, o)
    BY <1>1, <2>1 DEF Fill
  <2> QED
    BY <1>1, <2>2, <2>3
<1>5. CASE Restart
  BY <1>1, <1>5 DEF Restart
<1>6. CASE UNCHANGED bookVars
  BY <1>1, <1>6 DEF bookVars
<1> QED
  BY <1>2, <1>3, <1>4, <1>5, <1>6, Frames DEF Framed, BookStep

LEMMA HistoryType ==
  ASSUME TypeOK, TableInv, FreshInv, TcpInv, ReactorInv, ProcessorInv, [Next]_vars
  PROVE  /\ refused' \subseteq Connections
         /\ restarts' \in 0 .. MaxRestarts
         /\ received' \in [Clients -> [last : Nat, increasing : BOOLEAN, own : BOOLEAN]]
<1>1. refused' \subseteq Connections
  <2>1. CASE RefuseNumber
    <3>1. reactor.pc \in AtMessage
      BY <2>1 DEF RefuseNumber, AtValidation, reactor, AtMessage
    <3>2. session[reactor.conn].tcp \in Connections
      BY <3>1, AtMessageFacts
    <3>3. refused' = refused \cup {session[reactor.conn].tcp}
      BY <2>1 DEF RefuseNumber, reactor
    <3> QED
      BY <3>2, <3>3 DEF TypeOK
  <2>2. CASE UNCHANGED refused
    BY <2>2 DEF TypeOK
  <2> QED
    BY <2>1, <2>2, Frames DEF Framed
<1>2. restarts' \in 0 .. MaxRestarts
  BY Frames, ConstantsAssumption DEF Framed, Restart, TypeOK
<1>3. received' \in [Clients -> [last : Nat, increasing : BOOLEAN, own : BOOLEAN]]
  <2>1. received \in [Clients -> [last : Nat, increasing : BOOLEAN, own : BOOLEAN]]
    BY DEF TypeOK
  <2>2. ASSUME NEW t \in Threads, Transmit(t)
        PROVE  received' \in [Clients -> [last : Nat, increasing : BOOLEAN, own : BOOLEAN]]
    <3> DEFINE k == thread[t].conn
               c == client[session[k].tcp]
    <3>1. k \in Connections
      BY <2>2, SlotFacts DEF Transmit, Alive
    <3>2. session[k].out \in Nat
      BY <3>1 DEF TypeOK
    <3>3. ASSUME NEW r \in [last : Nat, increasing : BOOLEAN, own : BOOLEAN],
                 NEW x, NEW y, NEW n \in Nat
          PROVE  Seen(r, x, n, y) \in [last : Nat, increasing : BOOLEAN, own : BOOLEAN]
      <4>1. (r.increasing /\ n > r.last) \in BOOLEAN /\ (r.own /\ y \in {x, NoClient}) \in BOOLEAN
        OBVIOUS
      <4> QED
        BY <4>1 DEF Seen
    <3>4. \/ received' = received
          \/ received' = [received EXCEPT ![c] = Seen(@, c, session[k].out, thread[t].owner)]
      BY <2>2 DEF Transmit
    <3> HIDE DEF k, c
    <3>5. CASE received' = received
      BY <2>1, <3>5
    <3>6. CASE received' = [received EXCEPT ![c] = Seen(@, c, session[k].out, thread[t].owner)]
      <4>1. CASE c \in Clients
        <5> DEFINE seen == Seen(received[c], c, session[k].out, thread[t].owner)
        <5>1. seen \in [last : Nat, increasing : BOOLEAN, own : BOOLEAN]
          BY <2>1, <3>2, <3>3, <4>1
        <5>2. received' = [received EXCEPT ![c] = seen]
          BY <3>6
        <5> HIDE DEF seen
        <5> QED
          BY <2>1, <5>1, <5>2
      <4>2. CASE c \notin Clients
        BY <2>1, <3>6, <4>2
      <4> QED
        BY <4>1, <4>2
    <3> QED
      BY <3>4, <3>5, <3>6
  <2> QED
    BY <2>1, <2>2, Frames DEF Framed, ReceivedStep, Threads
<1> QED
  BY <1>1, <1>2, <1>3

LEMMA ClientType ==
  ASSUME TypeOK, [Next]_vars
  PROVE  /\ link' \in [Clients -> 0 .. MaxConnections]
         /\ stage' \in [Clients -> {"away", "connected", "active", "leaving"}]
         /\ clientOut' \in [Clients -> Nat]
         /\ clean' \in [Clients -> BOOLEAN]
<1>1. /\ link \in [Clients -> 0 .. MaxConnections]
      /\ stage \in [Clients -> {"away", "connected", "active", "leaving"}]
      /\ clientOut \in [Clients -> Nat]
      /\ clean \in [Clients -> BOOLEAN]
      /\ accepted \in 0 .. MaxConnections /\ MaxConnections \in Nat
  BY ConstantsAssumption DEF TypeOK
<1>2. CASE Accepts
  <2>1. PICK c \in Clients : Accept(c)
    BY <1>2 DEF Accepts
  <2>2. accepted + 1 \in 0 .. MaxConnections
    BY <1>1, <2>1 DEF Accept, Connects
  <2>3. /\ link' = [link EXCEPT ![c] = accepted + 1]
        /\ stage' = [stage EXCEPT ![c] = "connected"]
        /\ clientOut' = clientOut
        /\ clean' = [clean EXCEPT ![c] = @ /\ Quiet(FreeSlot(peerFlags))]
    BY <2>1 DEF Accept
  <2>4. Quiet(FreeSlot(peerFlags)) \in BOOLEAN
    BY DEF Quiet
  <2> QED
    BY <1>1, <2>2, <2>3, <2>4
<1>3. CASE ClientMoves
  <2>1. ASSUME NEW c \in Clients, ClientLeaves(c)
        PROVE  /\ link' \in [Clients -> 0 .. MaxConnections]
               /\ stage' \in [Clients -> {"away", "connected", "active", "leaving"}]
               /\ clientOut' \in [Clients -> Nat]
               /\ clean' \in [Clients -> BOOLEAN]
    BY <1>1, <2>1 DEF ClientLeaves
  <2>2. ASSUME NEW c \in Clients, NEW kind \in SentKinds, ClientSends(c, kind)
        PROVE  /\ link' \in [Clients -> 0 .. MaxConnections]
               /\ stage' \in [Clients -> {"away", "connected", "active", "leaving"}]
               /\ clientOut' \in [Clients -> Nat]
               /\ clean' \in [Clients -> BOOLEAN]
    BY <1>1, <2>2 DEF ClientSends, StageAfter
  <2> QED
    BY <1>3, <2>1, <2>2 DEF ClientMoves
<1>4. ASSUME UNCHANGED <<link, stage, clientOut>>
      PROVE  /\ link' \in [Clients -> 0 .. MaxConnections]
             /\ stage' \in [Clients -> {"away", "connected", "active", "leaving"}]
             /\ clientOut' \in [Clients -> Nat]
  BY <1>1, <1>4
<1>5. CASE StopSave
  BY <1>1, <1>4, <1>5 DEF StopSave
<1>6. CASE Restart
  <2>1. clean' \in [Clients -> BOOLEAN]
    BY <1>6 DEF Restart
  <2> QED
    BY <1>4, <1>6, <2>1 DEF Restart
<1> QED
  BY <1>1, <1>2, <1>3, <1>4, <1>5, <1>6, Frames DEF Framed, ClientStep, CleanStep

LEMMA TypeNext ==
  ASSUME TypeOK, TableInv, FreshInv, TcpInv, ReactorInv, ProcessorInv, OriginInv, [Next]_vars
  PROVE  TypeOK'
<1>1. session' \in [Connections -> SessionRecord] /\ thread' \in [Threads -> ThreadRecord]
  BY SessionType, ThreadType
<1> QED
  BY <1>1, WireType, TableType, StoreType, BookType, HistoryType, ClientType
     DEF TypeOK, SessionRecord, ThreadRecord
-----------------------------------------------------------------------------
(* The tables *)

(* Connection k gets slot i in both tables. *)
TakesSlot(i, k) ==
  /\ i = FreeSlot(peerFlags) /\ k = accepted + 1 /\ accepted' = k
  /\ i \in DOMAIN sessions'
  /\ i \in DOMAIN sessions => ~sessionFlags[i]
  /\ peers' = sessions' /\ peerFlags' = sessionFlags'
  /\ Len(sessionFlags') = Len(sessions') /\ Len(sessions') <= k
  /\ sessions'[i] = k /\ sessionFlags'[i] = TRUE
  /\ \A j \in DOMAIN sessions' :
       j # i => /\ j \in DOMAIN sessions
                /\ sessions'[j] = sessions[j] /\ sessionFlags'[j] = sessionFlags[j]
  /\ \A j \in DOMAIN sessions : j \in DOMAIN sessions'

(* A new connection gets a slot that nobody uses. *)
LEMMA AcceptFacts ==
  ASSUME TypeOK, TableInv, NEW c \in Clients, Accept(c)
  PROVE  \E i \in Connections, k \in Connections : TakesSlot(i, k)
<1>1. /\ sessions \in Seq(Connections) /\ sessionFlags \in Seq(BOOLEAN)
      /\ peers = sessions /\ peerFlags = sessionFlags /\ Len(sessionFlags) = Len(sessions)
      /\ Len(sessions) <= accepted
  BY DEF TypeOK, TableInv
<1> DEFINE i == FreeSlot(sessionFlags)
           k == accepted + 1
<1>2. i \in 1 .. Len(sessions) + 1 /\ (i # Len(sessions) + 1 => ~sessionFlags[i])
  BY <1>1, FreeSlotFacts
<1>3. /\ peers' = Put(sessions, i, k) /\ sessions' = Put(sessions, i, k)
      /\ peerFlags' = Put(sessionFlags, i, TRUE) /\ sessionFlags' = Put(sessionFlags, i, TRUE)
      /\ accepted' = k /\ accepted < MaxConnections
  BY <1>1 DEF Accept, Connects
<1>4. k \in Connections
  BY <1>3, SlotFacts DEF Connections
<1>5. i \in Connections
  BY <1>1, <1>2, <1>3, SlotFacts DEF Connections
<1>6. Len(sessions) \in Nat /\ k \in Nat /\ Len(sessions) + 1 <= k /\ DOMAIN sessions = 1 .. Len(sessions)
  BY <1>1, SlotFacts
<1>11. i = FreeSlot(peerFlags) /\ k = accepted + 1
  BY <1>1
<1> HIDE DEF i, k
<1>7. /\ sessions' \in Seq(Connections)
      /\ Len(sessions') = IF i = Len(sessions) + 1 THEN Len(sessions) + 1 ELSE Len(sessions)
      /\ i \in 1 .. Len(sessions')
      /\ sessions'[i] = k
      /\ \A j \in 1 .. Len(sessions') :
           j # i => j \in 1 .. Len(sessions) /\ sessions'[j] = sessions[j]
      /\ \A j \in 1 .. Len(sessions) : j \in 1 .. Len(sessions')
  <2> DEFINE table == Put(sessions, i, k)
  <2>1. /\ table \in Seq(Connections)
        /\ Len(table) = IF i = Len(sessions) + 1 THEN Len(sessions) + 1 ELSE Len(sessions)
        /\ i \in 1 .. Len(table)
        /\ table[i] = k
        /\ \A j \in 1 .. Len(table) : j # i => j \in 1 .. Len(sessions) /\ table[j] = sessions[j]
        /\ \A j \in 1 .. Len(sessions) : j \in 1 .. Len(table)
    BY <1>1, <1>2, <1>4, PutFacts
  <2>2. sessions' = table
    BY <1>3
  <2> HIDE DEF table
  <2> QED
    BY <2>1, <2>2
<1>8. /\ Len(sessionFlags') = IF i = Len(sessions) + 1 THEN Len(sessions) + 1 ELSE Len(sessions)
      /\ sessionFlags'[i] = TRUE
      /\ \A j \in 1 .. Len(sessionFlags') : j # i => sessionFlags'[j] = sessionFlags[j]
  <2>0. PICK used \in BOOLEAN : used = TRUE
    OBVIOUS
  <2> DEFINE table == Put(sessionFlags, i, used)
  <2>1. i \in 1 .. Len(sessionFlags) + 1
    BY <1>1, <1>2
  <2>2. /\ Len(table) = IF i = Len(sessionFlags) + 1 THEN Len(sessionFlags) + 1 ELSE Len(sessionFlags)
        /\ table[i] = used
        /\ \A j \in 1 .. Len(table) : j # i => table[j] = sessionFlags[j]
    BY <1>1, <2>1, FlagFacts
  <2>3. sessionFlags' = table
    BY <1>3, <2>0
  <2> HIDE DEF table
  <2> QED
    BY <1>1, <2>0, <2>2, <2>3
<1>9. DOMAIN sessions' = 1 .. Len(sessions') /\ Len(sessions') <= k /\ Len(sessionFlags') = Len(sessions')
  BY <1>6, <1>7, <1>8
<1>10. i \in DOMAIN sessions => ~sessionFlags[i]
  BY <1>2, <1>6
<1>12. TakesSlot(i, k)
  BY <1>3, <1>6, <1>7, <1>8, <1>9, <1>10, <1>11 DEF TakesSlot
<1> QED
  BY <1>4, <1>5, <1>12

(* Closing a connection. *)
LEMMA OpenShrinks ==
  ASSUME TypeOK, RefuseTarget \/ RefuseNumber \/ DisconnectRemove \/ UNCHANGED open
  PROVE  \A k \in Connections : open'[k] => open[k]
<1>1. PICK j, l : \/ open' = open
                  \/ open' = [open EXCEPT ![j] = FALSE]
                  \/ open' = [open EXCEPT ![j] = FALSE, ![l] = FALSE]
  BY DEF RefuseTarget, RefuseNumber, CloseSession, DisconnectRemove
<1> QED
  BY <1>1 DEF TypeOK

LEMMA TableNext ==
  ASSUME TypeOK, TableInv, ReactorInv, [Next]_vars
  PROVE  TableInv'
<1>1. CASE Accepts
  <2>1. PICK c \in Clients : Accept(c)
    BY <1>1 DEF Accepts
  <2>2. PICK i \in Connections, k \in Connections : TakesSlot(i, k)
    BY <2>1, AcceptFacts
  <2>3. \A j \in DOMAIN sessions : sessions[j] \in Connections /\ sessions[j] < k
    BY <2>2, SlotFacts DEF TakesSlot
  <2>4. \A j \in DOMAIN sessions' : sessions'[j] <= k
    BY <2>2, <2>3 DEF TakesSlot, Connections
  <2>5. \A j, l \in DOMAIN sessions' : sessions'[j] = sessions'[l] => j = l
    BY <2>2, <2>3 DEF TakesSlot, TableInv, Connections
  <2>6. ASSUME NEW x \in Connections, open'[x]
        PROVE  \E j \in DOMAIN sessions' : sessions'[j] = x /\ sessionFlags'[j]
    <3>1. CASE x = k
      BY <2>2, <3>1 DEF TakesSlot
    <3>2. CASE x # k
      <4>1. open[x]
        BY <2>1, <2>2, <2>6, <3>2 DEF TakesSlot, Accept, Connects, TypeOK
      <4>2. PICK j \in DOMAIN sessions : sessions[j] = x /\ sessionFlags[j]
        BY <4>1 DEF TableInv
      <4> QED
        BY <2>2, <4>2 DEF TakesSlot
    <3> QED
      BY <3>1, <3>2
  <2> QED
    BY <2>2, <2>4, <2>5, <2>6 DEF TakesSlot, TableInv
<1>2. CASE DisconnectRemove
  <2> DEFINE i == reactor.slot
  <2>1. i \in DOMAIN sessions
    BY <1>2 DEF DisconnectRemove, ReactorInv, reactor
  <2>2. /\ peers' = peers /\ sessions' = sessions /\ accepted' = accepted
        /\ sessionFlags' = [sessionFlags EXCEPT ![i] = FALSE]
        /\ peerFlags' = [peerFlags EXCEPT ![i] = FALSE]
    BY <1>2 DEF DisconnectRemove, reactor
  <2>3. ~open'[sessions[i]]
    <3>1. sessions[i] \in Connections /\ sessions[i] = peers[i]
      BY <2>1, SlotFacts DEF TableInv
    <3>2. PICK j : open' = [open EXCEPT ![j] = FALSE, ![peers[i]] = FALSE]
      BY <1>2 DEF DisconnectRemove, reactor
    <3> QED
      BY <3>1, <3>2 DEF TypeOK
  <2>4. \A x \in Connections : open'[x] => open[x]
    BY <1>2, OpenShrinks
  <2> HIDE DEF i
  <2>5. /\ sessionFlags \in Seq(BOOLEAN) /\ DOMAIN sessionFlags = DOMAIN sessions
        /\ \A j \in DOMAIN sessions : j # i => sessionFlags'[j] = sessionFlags[j]
    BY <2>2, SlotFacts DEF TypeOK
  <2>6. Len(sessionFlags') = Len(sessionFlags)
    BY <2>1, <2>2, <2>5
  <2>7. ASSUME NEW x \in Connections, open'[x]
        PROVE  \E j \in DOMAIN sessions : sessions[j] = x /\ sessionFlags'[j]
    <3>1. PICK j \in DOMAIN sessions : sessions[j] = x /\ sessionFlags[j]
      BY <2>4, <2>7 DEF TableInv
    <3> QED
      BY <2>3, <2>5, <2>7, <3>1
  <2> QED
    BY <2>2, <2>6, <2>7 DEF TableInv
<1>3. CASE Restart
  BY <1>3, SlotFacts DEF Restart, TableInv
<1>4. CASE UNCHANGED <<tableVars, accepted>> /\ (RefuseTarget \/ RefuseNumber \/ UNCHANGED open)
  <2>1. \A x \in Connections : open'[x] => open[x]
    BY <1>4, OpenShrinks
  <2> QED
    BY <1>4, <2>1 DEF TableInv, tableVars
<1> QED
  BY <1>1, <1>2, <1>3, <1>4, Frames DEF Framed, TableStep, OpenStep, tableVars
-----------------------------------------------------------------------------
(* Sessions and threads *)

(* Only sessions of the table change. *)
LEMMA TouchedAlive ==
  ASSUME TypeOK, TableInv, TcpInv, ReactorInv, [Next]_vars, NEW k \in Connections, ~Alive(k)
  PROVE  session'[k] = session[k]
<1>1. session \in [Connections -> SessionRecord]
  BY DEF TypeOK, SessionRecord
<1>2. \A i \in DOMAIN sessions : sessions[i] # k
  BY DEF Alive
<1>3. ASSUME NEW t \in Threads, Sending(t) PROVE session'[k] = session[k]
  <2>1. thread[t].conn # k
    BY <1>3 DEF Sending, Transmit, Increment, Lock, Unlock
  <2> QED
    BY <1>1, <1>3, <2>1 DEF Sending, Transmit, Increment, Lock, Unlock
<1>4. CASE Initialise \/ DisconnectSave \/ DisconnectRemove
  <2>1. sessions[reactor.slot] # k
    BY <1>2, <1>4 DEF Initialise, DisconnectSave, DisconnectRemove, ReactorInv, reactor
  <2> QED
    BY <1>1, <1>4, <2>1 DEF Initialise, DisconnectSave, DisconnectRemove, reactor
<1>5. CASE HandleLogon \/ AcceptMessage
  <2>1. reactor.conn # k
    BY <1>2, <1>5 DEF HandleLogon, AcceptMessage, AtValidation, ReactorInv, AtMessage, reactor
  <2> QED
    BY <1>1, <1>5, <2>1 DEF HandleLogon, AcceptMessage, reactor
<1> QED
  BY <1>3, <1>4, <1>5, Frames DEF Framed, SessionStep, Threads

(* Only the end of onClientConnected gives a session its socket. *)
LEMMA TcpSteps ==
  ASSUME TypeOK, TableInv, ReactorInv, [Next]_vars, NEW k \in Connections
  PROVE  \/ session'[k].tcp = session[k].tcp
         \/ Initialise /\ k = sessions[reactor.slot] /\ session'[k].tcp = k
<1>1. session \in [Connections -> SessionRecord]
  BY DEF TypeOK, SessionRecord
<1>2. ASSUME NEW t \in Threads, Sending(t) PROVE session'[k].tcp = session[k].tcp
  <2>1. CASE Transmit(t)
    BY <1>1, <2>1 DEF Transmit, SessionRecord
  <2>2. CASE Increment(t)
    BY <1>1, <2>2 DEF Increment, SessionRecord
  <2>3. CASE Lock(t)
    BY <1>1, <2>3 DEF Lock, SessionRecord
  <2>4. CASE Unlock(t)
    BY <1>1, <2>4 DEF Unlock, SessionRecord
  <2> QED
    BY <1>2, <2>1, <2>2, <2>3, <2>4 DEF Sending
<1>3. CASE Initialise
  <2>1. reactor.slot \in DOMAIN sessions /\ peers = sessions
    BY <1>3 DEF Initialise, ReactorInv, TableInv, reactor
  <2>2. session' = [session EXCEPT ![sessions[reactor.slot]].tcp = sessions[reactor.slot]]
    BY <1>3, <2>1 DEF Initialise, reactor
  <2> QED
    BY <1>1, <1>3, <2>2 DEF SessionRecord
<1>4. CASE DisconnectSave
  BY <1>1, <1>4 DEF DisconnectSave, SessionRecord
<1>5. CASE DisconnectRemove
  BY <1>1, <1>5 DEF DisconnectRemove, SessionRecord
<1>6. CASE HandleLogon
  BY <1>1, <1>6 DEF HandleLogon, Restored, SessionRecord
<1>7. CASE AcceptMessage
  BY <1>1, <1>7 DEF AcceptMessage, SessionRecord
<1> QED
  BY <1>2, <1>3, <1>4, <1>5, <1>6, <1>7, Frames DEF Framed, SessionStep, Threads

(* The steps of the reactor between two accepted connections *)
ReactorWorks ==
  \/ Reading \/ HangsUp \/ Stop \/ RejectMalformed \/ HandleLogon \/ RefuseTarget
  \/ RefuseNumber \/ AcceptMessage \/ DisconnectSave \/ DisconnectRemove \/ StopSave
  \/ Sending("reactor")

LEMMA ReactorSteps ==
  ASSUME TypeOK, [Next]_vars
  PROVE  /\ Accepts \/ Initialise \/ Failing \/ Restart \/ ReactorWorks \/ reactor' = reactor
         /\ ReactorWorks => reactor.pc \notin {"initialise", "failed"}
         /\ Accepts => reactor.pc = "poll"
<1>1. TakeReport \/ Sending("processor") => reactor' = reactor
  BY DEF TakeReport, Sending, Transmit, Increment, Lock, Unlock, TypeOK, Threads, reactor
<1>2. ReactorWorks => reactor.pc \notin {"initialise", "failed"}
  BY DEF ReactorWorks, Reading, HangsUp, HandleClient, HangUp, Stop, RejectMalformed, HandleLogon,
         RefuseTarget, RefuseNumber, AcceptMessage, AtValidation, DisconnectSave, DisconnectRemove,
         StopSave, Sending, Transmit, Increment, Lock, Unlock, reactor
<1>3. Accepts => reactor.pc = "poll"
  BY DEF Accepts, Accept, Connects, reactor
<1>4. thread' = thread => reactor' = reactor
  BY DEF reactor
<1> QED
  BY <1>1, <1>2, <1>3, <1>4, Frames DEF Framed, ThreadStep, ReactorWorks

LEMMA FreshNext ==
  ASSUME TypeOK, TableInv, FreshInv, TcpInv, ReactorInv, [Next]_vars
  PROVE  FreshInv'
<1>1. accepted \in Nat /\ accepted' \in Nat /\ accepted <= accepted'
  <2>1. accepted' = accepted \/ accepted' = accepted + 1
    BY Frames DEF Framed, TableStep, Accepts, Accept, Connects, DisconnectRemove, Restart
  <2>2. accepted \in Nat
    BY SlotFacts
  <2> QED
    BY <2>1, <2>2
<1>2. ASSUME NEW k \in Connections, k > accepted' PROVE session'[k] = NewSession
  <2>1. k > accepted /\ k \in Nat
    BY <1>1, <1>2 DEF Connections
  <2>2. ~Alive(k)
    BY <1>1, <2>1, SlotFacts DEF Alive
  <2> QED
    BY <2>1, <2>2, TouchedAlive DEF FreshInv
<1>3. ASSUME NEW k \in Connections, k <= accepted' PROVE client'[k] \in Clients
  <2>1. CASE Accepts
    <3>1. PICK c \in Clients : Accept(c)
      BY <2>1 DEF Accepts
    <3>2. accepted' = accepted + 1 /\ client' = [client EXCEPT ![accepted + 1] = c]
      BY <3>1 DEF Accept
    <3>3. k = accepted + 1 \/ k <= accepted
      BY <1>1, <1>3, <3>2 DEF Connections
    <3> QED
      BY <3>2, <3>3 DEF FreshInv, TypeOK
  <2>2. CASE UNCHANGED <<accepted, client>>
    BY <1>3, <2>2 DEF FreshInv
  <2> QED
    BY <2>1, <2>2, Frames DEF Framed, TableStep, DisconnectRemove, Restart
<1> QED
  BY <1>2, <1>3 DEF FreshInv

LEMMA TcpNext ==
  ASSUME TypeOK, TableInv, FreshInv, TcpInv, ReactorInv, [Next]_vars
  PROVE  TcpInv'
<1> DEFINE Given(i) == session'[sessions'[i]].tcp = sessions'[i]
<1>1. CASE Accepts
  <2>1. PICK c \in Clients : Accept(c)
    BY <1>1 DEF Accepts
  <2>2. PICK i \in Connections, k \in Connections : TakesSlot(i, k)
    BY <2>1, AcceptFacts
  <2>3. session' = session /\ session[k] = NewSession
    BY <2>1, <2>2, SlotFacts DEF Accept, Connects, TakesSlot, FreshInv
  <2>4. reactor'.pc = "initialise" /\ reactor'.slot = i
    BY <2>1, <2>2 DEF Accept, Connects, TakesSlot, reactor, TypeOK, Threads, Waiting
  <2>5. ASSUME NEW j \in DOMAIN sessions', j # i PROVE Given(j)
    BY <1>1, <2>2, <2>3, <2>5, ReactorSteps DEF TcpInv, TakesSlot
  <2>6. session'[sessions'[i]].tcp = 0
    BY <2>2, <2>3 DEF TakesSlot, NewSession
  <2> QED
    BY <2>4, <2>5, <2>6 DEF TcpInv
<1>2. CASE Restart
  BY <1>2 DEF Restart, TcpInv
<1>3. ASSUME UNCHANGED tableVars, NEW i \in DOMAIN sessions
      PROVE  /\ sessions' = sessions /\ sessions[i] \in Connections
             /\ \/ session'[sessions[i]].tcp = session[sessions[i]].tcp
                \/ Initialise /\ sessions[i] = sessions[reactor.slot] /\ Given(i)
  BY <1>3, SlotFacts, TcpSteps DEF tableVars
<1>4. CASE UNCHANGED tableVars /\ Initialise
  <2>1. reactor.slot \in DOMAIN sessions
    BY <1>4 DEF Initialise, ReactorInv, reactor
  <2>2. session'[sessions[reactor.slot]].tcp = sessions[reactor.slot]
    <3>1. session \in [Connections -> SessionRecord] /\ peers = sessions
      BY DEF TypeOK, SessionRecord, TableInv
    <3>2. session' = [session EXCEPT ![sessions[reactor.slot]].tcp = sessions[reactor.slot]]
      BY <1>4, <3>1 DEF Initialise, reactor
    <3>3. sessions[reactor.slot] \in Connections
      BY <2>1, SlotFacts
    <3> QED
      BY <3>1, <3>2, <3>3 DEF SessionRecord
  <2>3. ASSUME NEW i \in DOMAIN sessions PROVE session'[sessions[i]].tcp = sessions[i]
    BY <1>3, <1>4, <2>1, <2>2, <2>3 DEF TcpInv, Initialise, reactor
  <2> QED
    BY <1>4, <2>3 DEF TcpInv, tableVars
<1>5. CASE UNCHANGED tableVars /\ Failing
  <2>1. session' = session /\ reactor'.pc = "failed"
    BY <1>5 DEF Failing, DisconnectNothing, UseUndefined, AcceptDuringLookup, Fail, Failed,
                Waiting, Threads, reactor
  <2> QED
    BY <1>5, <2>1 DEF TcpInv, tableVars
<1>6. CASE (UNCHANGED tableVars \/ DisconnectRemove) /\ ReactorWorks
  <2>1. sessions' = sessions
    BY <1>6 DEF DisconnectRemove, tableVars
  <2>2. ~Initialise
    BY <1>6, ReactorSteps DEF Initialise, reactor
  <2>3. ASSUME NEW i \in DOMAIN sessions PROVE session'[sessions[i]].tcp = sessions[i]
    BY <1>6, <2>2, ReactorSteps, SlotFacts, TcpSteps DEF TcpInv
  <2> QED
    BY <2>1, <2>3 DEF TcpInv
<1>7. CASE UNCHANGED tableVars /\ reactor' = reactor
  <2>1. CASE ~Initialise
    BY <1>3, <1>7, <2>1 DEF TcpInv, tableVars
  <2> QED
    BY <1>4, <1>7, <2>1
<1> QED
  BY <1>1, <1>2, <1>4, <1>5, <1>6, <1>7, ReactorSteps, Frames
     DEF Framed, TableStep, tableVars, ReactorWorks

(* ReactorInv of one state of the reactor, in the table of this state *)
ReactorSane(r, table) ==
  /\ r.pc \in AtMessage => r.batch # <<>>
  /\ r.batch # <<>> => r.slot \in DOMAIN table /\ r.conn = table[r.slot]
  /\ r.pc \in {"initialise", "disconnect", "remove"} => r.slot \in DOMAIN table
  /\ r.pc \in {"send", "increment"} => r.then \in {"next", "validate", "disconnect", "unlock"}
  /\ r.pc = "stopping" => r.slot >= 1 /\ r.batch = <<>>
  /\ r.owner = NoClient

(* Where the reactor goes keeps it sane. *)
LEMMA SaneSteps ==
  ASSUME NEW r \in ThreadRecord, NEW table, ReactorSane(r, table)
  PROVE  /\ ReactorSane(Waiting, table) /\ ReactorSane(Failed, table)
         /\ ReactorSane(Resume(r), table)
         /\ r.pc \in AtMessage =>
              \A then \in {"next", "validate", "disconnect"} :
                ReactorSane([r EXCEPT !.pc = "send", !.then = then], table)
         /\ r.pc \in AtMessage =>
              /\ ReactorSane([r EXCEPT !.pc = "disconnect"], table)
              /\ ReactorSane([r EXCEPT !.pc = "lock", !.conn = table[r.slot]], table)
              /\ ReactorSane([r EXCEPT !.pc = "send", !.then = "unlock"], table)
              /\ ReactorSane([r EXCEPT !.pc = "validate"], table)
              /\ ReactorSane([r EXCEPT !.pc = "unlock"], table)
         /\ r.pc = "disconnect" => ReactorSane([r EXCEPT !.pc = "remove"], table)
         /\ r.pc = "send" => \A n : ReactorSane([r EXCEPT !.pc = "increment", !.num = n], table)
         /\ r.pc = "stopping" => /\ ReactorSane([r EXCEPT !.slot = r.slot + 1], table)
                                 /\ ReactorSane([r EXCEPT !.pc = "stopped"], table)
<1> USE DEF ReactorSane, AtMessage, AtSession
<1>1. ReactorSane(Waiting, table) /\ ReactorSane(Failed, table)
  BY DEF Waiting, Failed
<1>2. ReactorSane(Resume(r), table)
  <2>1. CASE Resume(r) = Waiting
    BY <1>1, <2>1
  <2>2. CASE /\ Len(r.batch) > 1
             /\ Resume(r) = [r EXCEPT !.pc = "process", !.batch = Tail(@), !.num = 0, !.then = "poll"]
             /\ Tail(r.batch) \in Seq(Message) /\ Tail(r.batch) # <<>>
    <3>1. r.batch # <<>>
      BY <2>2 DEF ThreadRecord
    <3> QED
      BY <2>2, <3>1 DEF ThreadRecord
  <2> QED
    BY <2>1, <2>2, ResumeFacts
<1>3. r.pc \in AtMessage =>
        \A then \in {"next", "validate", "disconnect"} :
          ReactorSane([r EXCEPT !.pc = "send", !.then = then], table)
  BY DEF ThreadRecord
<1>4. r.pc \in AtMessage =>
        /\ ReactorSane([r EXCEPT !.pc = "disconnect"], table)
        /\ ReactorSane([r EXCEPT !.pc = "lock", !.conn = table[r.slot]], table)
        /\ ReactorSane([r EXCEPT !.pc = "send", !.then = "unlock"], table)
        /\ ReactorSane([r EXCEPT !.pc = "validate"], table)
        /\ ReactorSane([r EXCEPT !.pc = "unlock"], table)
  BY DEF ThreadRecord
<1>5. r.pc = "disconnect" => ReactorSane([r EXCEPT !.pc = "remove"], table)
  BY DEF ThreadRecord
<1>6. r.pc = "send" => \A n : ReactorSane([r EXCEPT !.pc = "increment", !.num = n], table)
  BY DEF ThreadRecord
<1>7. r.pc = "stopping" => ReactorSane([r EXCEPT !.pc = "stopped"], table)
  BY DEF ThreadRecord
<1>8. r.pc = "stopping" => ReactorSane([r EXCEPT !.slot = r.slot + 1], table)
  <2>1. r.slot \in Nat
    BY DEF ThreadRecord
  <2>2. ASSUME r.pc = "stopping", r.batch = <<>>
        PROVE  ReactorSane([r EXCEPT !.slot = r.slot + 1], table)
    BY <2>1, <2>2 DEF ThreadRecord
  <2> QED
    BY <2>2
<1> QED
  BY <1>1, <1>2, <1>3, <1>4, <1>5, <1>6, <1>7, <1>8

LEMMA ReactorNext ==
  ASSUME TypeOK, TableInv, TcpInv, ReactorInv, [Next]_vars
  PROVE  ReactorInv'
<1> SUFFICES ReactorSane(reactor', sessions')
  BY DEF ReactorInv, ReactorSane
<1>1. /\ reactor \in ThreadRecord /\ ReactorSane(reactor, sessions)
      /\ thread \in [Threads -> ThreadRecord] /\ "reactor" \in Threads /\ "processor" \in Threads
  BY DEF TypeOK, ThreadRecord, Threads, reactor, ReactorInv, ReactorSane
<1>2. CASE Accepts
  <2>1. PICK c \in Clients : Accept(c)
    BY <1>2 DEF Accepts
  <2>2. PICK i \in Connections, k \in Connections : TakesSlot(i, k)
    BY <2>1, AcceptFacts
  <2>3. reactor' = [Waiting EXCEPT !.pc = "initialise", !.slot = i] /\ i \in DOMAIN sessions'
    BY <1>1, <2>1, <2>2 DEF Accept, Connects, TakesSlot, reactor
  <2> QED
    BY <2>3 DEF ReactorSane, Waiting, AtMessage, AtSession
<1>3. CASE Initialise \/ Failing \/ Restart
  <2>1. reactor' = Waiting \/ reactor' = Failed
    BY <1>1, <1>3 DEF Initialise, Failing, DisconnectNothing, UseUndefined, AcceptDuringLookup,
                      Fail, Restart, reactor
  <2> QED
    BY <2>1 DEF ReactorSane, Waiting, Failed, AtMessage, AtSession
<1>4. ReactorWorks => sessions' = sessions
  BY DEF ReactorWorks, Reading, HandleClient, HangsUp, HangUp, Stop, RejectMalformed, HandleLogon,
         RefuseTarget, RefuseNumber, CloseSession, AcceptMessage, DisconnectSave, DisconnectRemove,
         StopSave, Sending, Transmit, Increment, Lock, Unlock, tableVars
<1>5. CASE Reading
  <2>1. PICK i \in DOMAIN peers : HandleClient(i)
    BY <1>5 DEF Reading
  <2>2. PICK n \in 1 .. BatchSize :
          /\ n <= Len(inbox[peers[i]])
          /\ reactor' = [Waiting EXCEPT !.pc = "process", !.slot = i, !.conn = sessions[i],
                                        !.batch = SubSeq(inbox[peers[i]], 1, n)]
    BY <1>1, <2>1 DEF HandleClient, reactor
  <2>3. SubSeq(inbox[peers[i]], 1, n) # <<>>
    <3>1. peers[i] \in Connections
      BY <2>1, SlotFacts DEF TableInv
    <3>2. inbox[peers[i]] \in Seq(Message) /\ n \in Nat /\ n >= 1
      BY <3>1, ConstantsAssumption DEF TypeOK
    <3>3. Len(SubSeq(inbox[peers[i]], 1, n)) = n
      BY <2>2, <3>2
    <3> DEFINE b == SubSeq(inbox[peers[i]], 1, n)
    <3>4. Len(b) = n /\ Len(<<>>) = 0
      BY <3>3
    <3> HIDE DEF b
    <3>5. b # <<>>
      BY <3>2, <3>4
    <3> QED
      BY <3>5 DEF b
  <2>4. i \in DOMAIN sessions
    BY <2>1 DEF TableInv
  <2> QED
    BY <1>4, <1>5, <2>2, <2>3, <2>4 DEF ReactorSane, ReactorWorks, Waiting, AtMessage, AtSession
<1>6. CASE HangsUp
  <2>1. PICK i \in DOMAIN peers : reactor' = [Waiting EXCEPT !.pc = "disconnect", !.slot = i]
    BY <1>1, <1>6 DEF HangsUp, HangUp, reactor
  <2>2. i \in DOMAIN sessions
    BY <2>1 DEF TableInv
  <2> QED
    BY <1>4, <1>6, <2>1, <2>2 DEF ReactorSane, ReactorWorks, Waiting, AtMessage, AtSession
<1>7. CASE Stop
  <2>1. reactor' = [Waiting EXCEPT !.pc = "stopping", !.slot = 1]
    BY <1>1, <1>7 DEF Stop, reactor
  <2> QED
    BY <2>1 DEF ReactorSane, Waiting, AtMessage, AtSession
<1>8. CASE RejectMalformed \/ HandleLogon
  <2>1. /\ reactor.pc \in AtMessage
        /\ \E then \in {"next", "validate"} : reactor' = [reactor EXCEPT !.pc = "send", !.then = then]
    BY <1>1, <1>8 DEF RejectMalformed, HandleLogon, reactor, AtMessage
  <2> QED
    BY <1>1, <1>4, <1>8, <2>1, SaneSteps DEF ReactorWorks
<1>9. CASE RefuseTarget \/ RefuseNumber
  <2>1. reactor.pc \in AtMessage /\ reactor' = [reactor EXCEPT !.pc = "disconnect"]
    BY <1>1, <1>9 DEF RefuseTarget, RefuseNumber, CloseSession, AtValidation, reactor, AtMessage
  <2> QED
    BY <1>1, <1>4, <1>9, <2>1, SaneSteps DEF ReactorWorks
<1>10. CASE AcceptMessage
  <2>1. reactor.pc \in AtMessage /\ reactor' = Answer(reactor, Head(reactor.batch))
    BY <1>1, <1>10 DEF AcceptMessage, AtValidation, reactor, AtMessage
  <2>2. \/ reactor' = Resume(reactor)
        \/ \E then \in {"next", "disconnect"} : reactor' = [reactor EXCEPT !.pc = "send", !.then = then]
        \/ reactor' = [reactor EXCEPT !.pc = "lock", !.conn = sessions[reactor.slot]]
    BY <2>1 DEF Answer
  <2>3. sessions' = sessions
    BY <1>4, <1>10 DEF ReactorWorks
  <2>4. CASE reactor' = Resume(reactor)
    BY <1>1, <2>3, <2>4, SaneSteps
  <2>5. CASE \E then \in {"next", "disconnect"} : reactor' = [reactor EXCEPT !.pc = "send", !.then = then]
    <3>1. PICK then \in {"next", "validate", "disconnect"} :
            reactor' = [reactor EXCEPT !.pc = "send", !.then = then]
      BY <2>5
    <3>2. ReactorSane([reactor EXCEPT !.pc = "send", !.then = then], sessions)
      BY <1>1, <2>1, SaneSteps
    <3> QED
      BY <2>3, <3>1, <3>2
  <2>6. CASE reactor' = [reactor EXCEPT !.pc = "lock", !.conn = sessions[reactor.slot]]
    BY <1>1, <2>1, <2>3, <2>6, SaneSteps
  <2> QED
    BY <2>2, <2>4, <2>5, <2>6
<1>11. CASE DisconnectSave
  <2>1. reactor.pc = "disconnect" /\ reactor' = [reactor EXCEPT !.pc = "remove"]
    BY <1>1, <1>11 DEF DisconnectSave, reactor
  <2> QED
    BY <1>1, <1>4, <1>11, <2>1, SaneSteps DEF ReactorWorks
<1>12. CASE DisconnectRemove
  <2>1. reactor' = Resume(reactor)
    BY <1>1, <1>12 DEF DisconnectRemove, reactor
  <2> QED
    BY <1>1, <1>4, <1>12, <2>1, SaneSteps DEF ReactorWorks
<1>13. CASE StopSave
  <2>1. /\ reactor.pc = "stopping"
        /\ \/ reactor' = [reactor EXCEPT !.slot = reactor.slot + 1]
           \/ reactor' = [reactor EXCEPT !.pc = "stopped"]
    BY <1>1, <1>13 DEF StopSave, reactor
  <2> QED
    BY <1>1, <1>4, <1>13, <2>1, SaneSteps DEF ReactorWorks
<1>14. CASE Sending("reactor")
  <2>1. sessions' = sessions
    BY <1>4, <1>14 DEF ReactorWorks
  <2>2. CASE Transmit("reactor")
    <3>1. PICK n : reactor.pc = "send" /\ reactor' = [reactor EXCEPT !.pc = "increment", !.num = n]
      BY <1>1, <2>2 DEF Transmit, reactor
    <3> QED
      BY <1>1, <2>1, <3>1, SaneSteps
  <2>3. CASE Increment("reactor")
    <3>1. /\ reactor.pc = "increment"
          /\ reactor' = IF reactor.then = "next" THEN Resume(reactor)
                        ELSE [reactor EXCEPT !.pc = reactor.then]
      BY <1>1, <2>3 DEF Increment, reactor
    <3>2. reactor.pc \in AtMessage /\ reactor.then \in {"next", "validate", "disconnect", "unlock"}
      BY <1>1, <3>1 DEF ReactorSane, AtMessage, AtSession
    <3>3. \/ reactor' = Resume(reactor)
          \/ reactor' = [reactor EXCEPT !.pc = "validate"]
          \/ reactor' = [reactor EXCEPT !.pc = "disconnect"]
          \/ reactor' = [reactor EXCEPT !.pc = "unlock"]
      BY <3>1, <3>2
    <3> QED
      BY <1>1, <2>1, <3>2, <3>3, SaneSteps
  <2>4. CASE Lock("reactor")
    <3>1. reactor.pc \in AtMessage /\ reactor' = [reactor EXCEPT !.pc = "send", !.then = "unlock"]
      BY <1>1, <2>4 DEF Lock, reactor, AtMessage, AtSession
    <3> QED
      BY <1>1, <2>1, <3>1, SaneSteps
  <2>5. CASE Unlock("reactor")
    <3>1. reactor' = Resume(reactor)
      BY <1>1, <2>5 DEF Unlock, reactor
    <3> QED
      BY <1>1, <2>1, <3>1, SaneSteps
  <2> QED
    BY <1>14, <2>2, <2>3, <2>4, <2>5 DEF Sending
<1>15. CASE reactor' = reactor /\ sessions' = sessions
  BY <1>1, <1>15
<1>16. Accepts \/ Initialise \/ Failing \/ Restart \/ ReactorWorks
       \/ (reactor' = reactor /\ sessions' = sessions)
  BY Frames, ReactorSteps DEF Framed, TableStep, tableVars, ReactorWorks
<1> QED
  BY <1>2, <1>3, <1>5, <1>6, <1>7, <1>8, <1>9, <1>10, <1>11, <1>12, <1>13, <1>14, <1>15, <1>16
     DEF ReactorWorks

(* The processor moves in its own steps. *)
LEMMA ProcessorSteps ==
  ASSUME TypeOK, [Next]_vars
  PROVE  \/ processor' = processor \/ TakeReport \/ Sending("processor") \/ Failing \/ Restart
<1>1. thread \in [Threads -> ThreadRecord] /\ "reactor" \in Threads /\ "processor" \in Threads
  BY DEF TypeOK, ThreadRecord, Threads
<1>2. ReactorWorks \/ Accepts \/ Initialise => \E r : thread' = [thread EXCEPT !["reactor"] = r]
  <2>1. Reading \/ HangsUp => \E r : thread' = [thread EXCEPT !["reactor"] = r]
    BY DEF Reading, HangsUp, HandleClient, HangUp
  <2>2. Stop \/ StopSave => \E r : thread' = [thread EXCEPT !["reactor"] = r]
    BY DEF Stop, StopSave
  <2>3. RejectMalformed \/ HandleLogon => \E r : thread' = [thread EXCEPT !["reactor"] = r]
    BY DEF RejectMalformed, HandleLogon
  <2>4. RefuseTarget \/ RefuseNumber => \E r : thread' = [thread EXCEPT !["reactor"] = r]
    BY DEF RefuseTarget, RefuseNumber, CloseSession
  <2>5. AcceptMessage => \E r : thread' = [thread EXCEPT !["reactor"] = r]
    BY DEF AcceptMessage
  <2>6. DisconnectSave \/ DisconnectRemove => \E r : thread' = [thread EXCEPT !["reactor"] = r]
    BY DEF DisconnectSave, DisconnectRemove
  <2>7. Sending("reactor") => \E r : thread' = [thread EXCEPT !["reactor"] = r]
    BY DEF Sending, Transmit, Increment, Lock, Unlock
  <2>8. Accepts \/ Initialise => \E r : thread' = [thread EXCEPT !["reactor"] = r]
    BY DEF Accepts, Accept, Connects, Initialise
  <2> QED
    BY <2>1, <2>2, <2>3, <2>4, <2>5, <2>6, <2>7, <2>8 DEF ReactorWorks
<1>3. ReactorWorks \/ Accepts \/ Initialise => processor' = processor
  BY <1>1, <1>2 DEF processor
<1>4. thread' = thread => processor' = processor
  BY DEF processor
<1> QED
  BY <1>3, <1>4, Frames DEF Framed, ThreadStep, ReactorWorks

LEMMA ProcessorNext ==
  ASSUME TypeOK, TableInv, FreshInv, TcpInv, ReactorInv, ProcessorInv, OriginInv, [Next]_vars
  PROVE  ProcessorInv'
<1>1. /\ thread \in [Threads -> ThreadRecord] /\ processor \in ThreadRecord
      /\ "reactor" \in Threads /\ "processor" \in Threads
      /\ accepted \in Nat /\ accepted' \in Nat /\ accepted <= accepted' /\ accepted' <= MaxConnections
  <2>1. accepted' = accepted \/ accepted' = accepted + 1
    BY Frames DEF Framed, TableStep, Accepts, Accept, Connects, DisconnectRemove, Restart
  <2>2. accepted \in Nat /\ accepted' \in 0 .. MaxConnections
    BY SlotFacts, WireType
  <2>3. accepted' \in Nat /\ accepted <= accepted' /\ accepted' <= MaxConnections
    BY <2>1, <2>2
  <2> QED
    BY <2>2, <2>3 DEF TypeOK, ThreadRecord, Threads, processor
<1>2. \A k \in 1 .. accepted : k \in Connections /\ k \in 1 .. accepted'
  BY <1>1, ConstantsAssumption DEF Connections
<1>3. ASSUME NEW k \in 1 .. accepted, session[k].tcp = k PROVE session'[k].tcp = k
  BY <1>2, <1>3, TcpSteps
<1>4. CASE processor' = processor
  BY <1>2, <1>3, <1>4 DEF ProcessorInv, HoldsLock, AtSession
<1>5. CASE Failing \/ Restart
  <2>1. processor' = Waiting \/ processor' = Failed
    BY <1>1, <1>5 DEF Failing, DisconnectNothing, UseUndefined, AcceptDuringLookup, Fail,
                      Restart, processor
  <2> QED
    BY <2>1 DEF ProcessorInv, HoldsLock, AtSession, Waiting, Failed
<1>6. CASE TakeReport
  <2>1. Head(reports) \in Origin /\ Head(reports).slot \in DOMAIN sessions
    BY <1>6 DEF TakeReport, TypeOK, OriginInv
  <2>2. sessions[Head(reports).slot] \in 1 .. accepted
    BY <2>1, SlotFacts
  <2>3. \/ thread' = thread
        \/ thread' = [thread EXCEPT !["processor"] =
                        [Waiting EXCEPT !.pc = "lock", !.slot = Head(reports).slot,
                                        !.conn = sessions[Head(reports).slot],
                                        !.owner = Head(reports).owner]]
    BY <1>6 DEF TakeReport
  <2>4. CASE thread' = thread
    BY <1>4, <2>4 DEF processor
  <2>5. CASE thread' # thread
    <3>1. processor'.pc = "lock" /\ processor'.conn = sessions[Head(reports).slot]
      BY <1>1, <2>3, <2>5 DEF processor, Waiting
    <3> QED
      BY <1>2, <2>2, <3>1 DEF ProcessorInv, HoldsLock, AtSession
  <2> QED
    BY <2>4, <2>5
<1>7. CASE Sending("processor")
  <2>1. CASE Transmit("processor")
    <3>1. PICK n : /\ processor.pc = "send"
                   /\ processor' = [processor EXCEPT !.pc = "increment", !.num = n]
      BY <1>1, <2>1 DEF Transmit, processor
    <3> QED
      BY <1>1, <1>2, <1>3, <3>1 DEF ProcessorInv, HoldsLock, AtSession, ThreadRecord
  <2>2. CASE Increment("processor")
    <3>1. processor.pc = "increment" /\ processor.then = "unlock"
      BY <2>2 DEF Increment, ProcessorInv, processor
    <3>2. processor' = [processor EXCEPT !.pc = "unlock"]
      BY <1>1, <2>2, <3>1 DEF Increment, processor
    <3> QED
      BY <1>1, <1>2, <1>3, <3>1, <3>2 DEF ProcessorInv, HoldsLock, AtSession, ThreadRecord
  <2>3. CASE Lock("processor")
    <3>1. /\ processor.pc = "lock" /\ Alive(processor.conn) /\ session[processor.conn].tcp # 0
          /\ processor' = [processor EXCEPT !.pc = "send", !.then = "unlock"]
      BY <1>1, <2>3 DEF Lock, processor
    <3>2. processor.conn \in 1 .. accepted /\ session[processor.conn].tcp = processor.conn
      BY <3>1 DEF ProcessorInv, AtSession, Alive, TcpInv
    <3> QED
      BY <1>1, <1>2, <1>3, <3>1, <3>2 DEF ProcessorInv, HoldsLock, AtSession, ThreadRecord
  <2>4. CASE Unlock("processor")
    <3>1. processor' = Waiting
      BY <1>1, <2>4 DEF Unlock, processor
    <3> QED
      BY <3>1 DEF ProcessorInv, HoldsLock, AtSession, Waiting
  <2> QED
    BY <1>7, <2>1, <2>2, <2>3, <2>4 DEF Sending
<1> QED
  BY <1>4, <1>5, <1>6, <1>7, ProcessorSteps

LEMMA OriginNext ==
  ASSUME TypeOK, TableInv, TcpInv, ReactorInv, OriginInv, [Next]_vars
  PROVE  OriginInv'
<1>1. CASE Restart
  BY <1>1 DEF Restart, OriginInv
<1>2. CASE ~Restart
  <2>1. \A i \in DOMAIN sessions : i \in DOMAIN sessions'
    <3>1. CASE Accepts
      <4>1. PICK c \in Clients : Accept(c)
        BY <3>1 DEF Accepts
      <4>2. PICK i \in Connections, k \in Connections : TakesSlot(i, k)
        BY <4>1, AcceptFacts
      <4> QED
        BY <4>2 DEF TakesSlot
    <3> QED
      BY <1>2, <3>1, Frames DEF Framed, TableStep, DisconnectRemove, tableVars
  <2>2. reports \in Seq(Origin) /\ \A n \in DOMAIN reports : reports[n].slot \in DOMAIN sessions
    BY DEF TypeOK, OriginInv
  <2>3. ASSUME NEW o \in Origin, o.slot \in DOMAIN sessions
        PROVE  \A n \in DOMAIN Append(reports, o) : Append(reports, o)[n].slot \in DOMAIN sessions
    BY <2>2, <2>3
  <2>4. CASE AcceptMessage
    <3>1. PICK o \in Origin :
            /\ o.slot \in DOMAIN sessions
            /\ \/ orders' = orders \cup {o} /\ reports' = Append(reports, o)
               \/ UNCHANGED <<orders, reports>>
      BY <2>4, OriginFacts
    <3> QED
      BY <2>1, <2>3, <3>1 DEF OriginInv
  <2>5. CASE TakeReport
    <3>1. reports' = Tail(reports) /\ orders' = orders /\ reports # <<>>
      BY <2>5 DEF TakeReport
    <3>2. \A n \in DOMAIN Tail(reports) : Tail(reports)[n].slot \in DOMAIN sessions
      BY <2>2, <3>1
    <3> QED
      BY <2>1, <3>1, <3>2 DEF OriginInv
  <2>6. CASE Fills
    <3>1. PICK o \in orders : Fill(o)
      BY <2>6 DEF Fills
    <3>2. o \in Origin /\ o.slot \in DOMAIN sessions
      BY <3>1 DEF TypeOK, OriginInv
    <3>3. orders' \subseteq orders /\ reports' = Append(reports, o)
      BY <3>1 DEF Fill
    <3> QED
      BY <2>1, <2>3, <3>2, <3>3 DEF OriginInv
  <2>7. CASE UNCHANGED bookVars
    BY <2>1, <2>7 DEF OriginInv, bookVars
  <2> QED
    BY <1>2, <2>4, <2>5, <2>6, <2>7, Frames DEF Framed, BookStep
<1> QED
  BY <1>1, <1>2

(* Where the steps of the reactor lead *)
LEMMA ReactorPcs ==
  ASSUME TypeOK, ReactorInv
  PROVE  /\ Accepts => reactor'.pc = "initialise"
         /\ Initialise => reactor'.pc = "poll"
         /\ Reading => reactor'.pc = "process"
         /\ HangsUp => reactor'.pc = "disconnect"
         /\ Stop => reactor'.pc = "stopping"
         /\ StopSave => reactor'.pc \in {"stopping", "stopped"}
         /\ RefuseTarget \/ RefuseNumber => reactor'.pc = "disconnect"
         /\ DisconnectSave => reactor'.pc = "remove"
         /\ RejectMalformed \/ HandleLogon => reactor'.pc = "send" /\ reactor'.then \in {"next", "validate"}
         /\ DisconnectRemove => reactor'.pc \in {"process", "poll"}
         /\ AcceptMessage => \/ reactor'.pc \in {"process", "poll", "lock"}
                             \/ reactor'.pc = "send" /\ reactor'.then \in {"next", "disconnect"}
         /\ Sending("reactor") => reactor'.pc \in {"increment", "process", "poll", "validate", "disconnect",
                                                   "unlock", "send"}
<1>1. /\ thread \in [Threads -> ThreadRecord] /\ reactor \in ThreadRecord
      /\ "reactor" \in Threads /\ "processor" \in Threads
  BY DEF TypeOK, ThreadRecord, Threads, reactor
<1>2. Accepts => reactor'.pc = "initialise"
  BY <1>1 DEF Accepts, Accept, Connects, reactor, Waiting
<1>3. Initialise => reactor'.pc = "poll"
  BY <1>1 DEF Initialise, reactor, Waiting
<1>4. Reading => reactor'.pc = "process"
  BY <1>1 DEF Reading, HandleClient, reactor, Waiting
<1>5. HangsUp => reactor'.pc = "disconnect"
  BY <1>1 DEF HangsUp, HangUp, reactor, Waiting
<1>6. Stop => reactor'.pc = "stopping"
  BY <1>1 DEF Stop, reactor, Waiting
<1>7. StopSave => reactor'.pc \in {"stopping", "stopped"}
  BY <1>1 DEF StopSave, reactor, ThreadRecord
<1>8. RefuseTarget \/ RefuseNumber => reactor'.pc = "disconnect"
  BY <1>1 DEF RefuseTarget, RefuseNumber, CloseSession, reactor, ThreadRecord
<1>9. DisconnectSave => reactor'.pc = "remove"
  BY <1>1 DEF DisconnectSave, reactor, ThreadRecord
<1>10. RejectMalformed \/ HandleLogon => reactor'.pc = "send" /\ reactor'.then \in {"next", "validate"}
  BY <1>1 DEF RejectMalformed, HandleLogon, reactor, ThreadRecord
<1>11. Resume(reactor).pc \in {"process", "poll"}
  BY <1>1, ResumePc
<1>12. DisconnectRemove => reactor'.pc \in {"process", "poll"}
  BY <1>1, <1>11 DEF DisconnectRemove, reactor
<1>13. AcceptMessage => \/ reactor'.pc \in {"process", "poll", "lock"}
                        \/ reactor'.pc = "send" /\ reactor'.then \in {"next", "disconnect"}
  <2> SUFFICES ASSUME AcceptMessage
               PROVE  \/ reactor'.pc \in {"process", "poll", "lock"}
                      \/ reactor'.pc = "send" /\ reactor'.then \in {"next", "disconnect"}
    OBVIOUS
  <2>1. reactor' = Answer(reactor, Head(reactor.batch))
    BY <1>1 DEF AcceptMessage, reactor
  <2> QED
    BY <1>1, <1>11, <2>1 DEF Answer, ThreadRecord
<1>14. Sending("reactor") => reactor'.pc \in {"increment", "process", "poll", "validate", "disconnect",
                                             "unlock", "send"}
  <2>1. Transmit("reactor") => reactor'.pc = "increment"
    BY <1>1 DEF Transmit, reactor, ThreadRecord
  <2>2. Lock("reactor") => reactor'.pc = "send"
    BY <1>1 DEF Lock, reactor, ThreadRecord
  <2>3. Unlock("reactor") => reactor'.pc \in {"process", "poll"}
    BY <1>1, <1>11 DEF Unlock, reactor
  <2>4. ASSUME Increment("reactor")
        PROVE  reactor'.pc \in {"process", "poll", "validate", "disconnect", "unlock"}
    <3>1. /\ reactor.then \in {"next", "validate", "disconnect", "unlock"}
          /\ reactor' = IF reactor.then = "next" THEN Resume(reactor)
                        ELSE [reactor EXCEPT !.pc = reactor.then]
      BY <1>1, <2>4 DEF Increment, ReactorInv, reactor
    <3> QED
      BY <1>1, <1>11, <3>1 DEF ThreadRecord
  <2> QED
    BY <2>1, <2>2, <2>3, <2>4 DEF Sending
<1> QED
  BY <1>2, <1>3, <1>4, <1>5, <1>6, <1>7, <1>8, <1>9, <1>10, <1>12, <1>13, <1>14

(* What a session step does to the locks of session k *)
LEMMA LockSteps ==
  ASSUME TypeOK, [Next]_vars, NEW k \in Connections
  PROVE  /\ \/ session'[k].lock = session[k].lock
            \/ session[k].lock = "free"
            \/ \E t \in Threads : Unlock(t) /\ thread[t].conn = k
            \/ DisconnectRemove /\ sessions[reactor.slot] = k
         /\ \/ session'[k].sendLock = session[k].sendLock
            \/ session[k].sendLock = "free"
            \/ \E t \in Threads : Increment(t) /\ thread[t].conn = k
<1>1. session \in [Connections -> SessionRecord]
  BY DEF TypeOK, SessionRecord
<1>2. ASSUME NEW t \in Threads, Transmit(t)
      PROVE  /\ session'[k].lock = session[k].lock
             /\ session'[k].sendLock = session[k].sendLock \/ session[k].sendLock = "free"
  BY <1>1, <1>2 DEF Transmit, SessionRecord
<1>3. ASSUME NEW t \in Threads, Increment(t)
      PROVE  /\ session'[k].lock = session[k].lock
             /\ session'[k].sendLock = session[k].sendLock \/ thread[t].conn = k
  BY <1>1, <1>3 DEF Increment, SessionRecord
<1>4. ASSUME NEW t \in Threads, Lock(t)
      PROVE  /\ session'[k].lock = session[k].lock \/ session[k].lock = "free"
             /\ session'[k].sendLock = session[k].sendLock
  BY <1>1, <1>4 DEF Lock, SessionRecord
<1>5. ASSUME NEW t \in Threads, Unlock(t)
      PROVE  /\ session'[k].lock = session[k].lock \/ thread[t].conn = k
             /\ session'[k].sendLock = session[k].sendLock
  BY <1>1, <1>5 DEF Unlock, SessionRecord
<1>6. ASSUME Initialise \/ HandleLogon \/ AcceptMessage
      PROVE  session'[k].lock = session[k].lock /\ session'[k].sendLock = session[k].sendLock
  <2>1. CASE Initialise
    BY <1>1, <2>1 DEF Initialise, SessionRecord
  <2>2. CASE HandleLogon
    BY <1>1, <2>2 DEF HandleLogon, Restored, SessionRecord
  <2>3. CASE AcceptMessage
    BY <1>1, <2>3 DEF AcceptMessage, SessionRecord
  <2> QED
    BY <1>6, <2>1, <2>2, <2>3
<1>7. ASSUME DisconnectSave
      PROVE  /\ session'[k].lock = session[k].lock \/ session[k].lock = "free"
             /\ session'[k].sendLock = session[k].sendLock
  BY <1>1, <1>7 DEF DisconnectSave, SessionRecord
<1>8. ASSUME DisconnectRemove
      PROVE  /\ session'[k].lock = session[k].lock \/ sessions[reactor.slot] = k
             /\ session'[k].sendLock = session[k].sendLock
  BY <1>1, <1>8 DEF DisconnectRemove, SessionRecord, reactor
<1> QED
  BY <1>2, <1>3, <1>4, <1>5, <1>6, <1>7, <1>8, Frames DEF Framed, SessionStep, Sending, Threads

LEMMA LockNext ==
  ASSUME TypeOK, TableInv, FreshInv, TcpInv, ReactorInv, ProcessorInv, OriginInv, LockInv,
         [Next]_vars
  PROVE  LockInv'
<1>1. /\ thread \in [Threads -> ThreadRecord] /\ session \in [Connections -> SessionRecord]
      /\ "reactor" \in Threads /\ "processor" \in Threads /\ "reactor" # "processor"
  BY DEF TypeOK, ThreadRecord, SessionRecord, Threads
<1>2. ASSUME NEW t \in Threads, HoldsLock(thread[t]) \/ thread[t].pc \in AtSession
      PROVE  thread[t].conn \in Connections
  <2>1. CASE t = "reactor"
    <3>1. reactor.pc \in AtMessage
      BY <1>2, <2>1 DEF HoldsLock, AtMessage, AtSession, reactor
    <3> QED
      BY <2>1, <3>1, AtMessageFacts DEF reactor
  <2>2. CASE t = "processor"
    <3>1. processor.pc \in AtSession
      BY <1>2, <2>2 DEF HoldsLock, AtSession, processor
    <3>2. processor.conn \in 1 .. accepted
      BY <3>1 DEF ProcessorInv
    <3> QED
      BY <2>2, <3>2, SlotFacts DEF Connections, processor
  <2> QED
    BY <2>1, <2>2 DEF Threads
<1>3. ASSUME NEW t \in Threads, thread'[t] = thread[t]
      PROVE  /\ HoldsLock(thread'[t]) => session'[thread'[t].conn].lock = t
             /\ thread'[t].pc = "increment" => session'[thread'[t].conn].sendLock = t
  <2> DEFINE k == thread[t].conn
  <2>1. ASSUME HoldsLock(thread[t]) PROVE session'[k].lock = t
    <3>1. k \in Connections /\ session[k].lock = t /\ t # "free"
      BY <1>2, <2>1 DEF LockInv, Threads
    <3>2. ASSUME NEW u \in Threads, Unlock(u), thread[u].conn = k PROVE u = t
      BY <3>1, <3>2 DEF Unlock, LockInv, HoldsLock
    <3>3. ~Unlock(t)
      <4> SUFFICES ASSUME Unlock(t) PROVE FALSE
        OBVIOUS
      <4>1. thread[t].pc = "unlock" /\ thread'[t] = IF t = "reactor" THEN Resume(thread[t]) ELSE Waiting
        BY <1>1 DEF Unlock
      <4>2. thread'[t].pc # "unlock"
        BY <1>1, <4>1, ResumePc
      <4> QED
        BY <1>3, <4>1, <4>2
    <3>4. ~(DisconnectRemove /\ sessions[reactor.slot] = k)
      <4> SUFFICES ASSUME DisconnectRemove, sessions[reactor.slot] = k PROVE FALSE
        OBVIOUS
      <4>1. t = "reactor" /\ reactor.pc = "remove"
        BY <3>1 DEF DisconnectRemove, LockInv, reactor
      <4> QED
        BY <2>1, <4>1 DEF HoldsLock, reactor
    <3> QED
      BY <3>1, <3>2, <3>3, <3>4, LockSteps
  <2>2. ASSUME thread[t].pc = "increment" PROVE session'[k].sendLock = t
    <3>1. k \in Connections /\ session[k].sendLock = t /\ t # "free"
      BY <1>2, <2>2 DEF LockInv, Threads, AtSession
    <3>2. ASSUME NEW u \in Threads, Increment(u), thread[u].conn = k PROVE u = t
      BY <3>1, <3>2 DEF Increment, LockInv
    <3>3. ~Increment(t)
      <4> SUFFICES ASSUME Increment(t) PROVE FALSE
        OBVIOUS
      <4>1. thread'[t] = IF thread[t].then = "next" THEN Resume(thread[t])
                         ELSE [thread[t] EXCEPT !.pc = thread[t].then]
        BY <1>1 DEF Increment
      <4>2. thread[t].then # "increment"
        BY <2>2 DEF ReactorInv, ProcessorInv, reactor, processor, Threads
      <4>3. thread'[t].pc # "increment"
        BY <1>1, <4>1, <4>2, ResumePc DEF ThreadRecord
      <4> QED
        BY <1>3, <2>2, <4>3
    <3> QED
      BY <3>1, <3>2, <3>3, LockSteps
  <2> QED
    BY <1>3, <2>1, <2>2
<1>4. ASSUME NEW t \in Threads, Sending(t)
      PROVE  /\ HoldsLock(thread'[t]) => session'[thread'[t].conn].lock = t
             /\ thread'[t].pc = "increment" => session'[thread'[t].conn].sendLock = t
  <2> DEFINE k == thread[t].conn
  <2>1. k \in Connections
    BY <1>2, <1>4 DEF Sending, Transmit, Increment, Lock, Unlock, AtSession
  <2>2. CASE Transmit(t)
    <3>1. /\ thread[t].pc = "send" /\ thread'[t].pc = "increment"
          /\ thread'[t].conn = k /\ thread'[t].then = thread[t].then
      BY <1>1, <2>2 DEF Transmit, ThreadRecord
    <3>2. session'[k].sendLock = t /\ session'[k].lock = session[k].lock
      BY <1>1, <2>1, <2>2 DEF Transmit, SessionRecord
    <3> QED
      BY <3>1, <3>2 DEF LockInv, HoldsLock
  <2>3. CASE Increment(t)
    <3>1. /\ thread[t].pc = "increment"
          /\ thread'[t] = IF thread[t].then = "next" THEN Resume(thread[t])
                          ELSE [thread[t] EXCEPT !.pc = thread[t].then]
      BY <1>1, <2>3 DEF Increment
    <3>2. thread[t].then \in {"next", "validate", "disconnect", "unlock"}
      BY <3>1 DEF ReactorInv, ProcessorInv, reactor, processor, Threads
    <3>3. session'[k].lock = session[k].lock
      BY <1>1, <2>1, <2>3 DEF Increment, SessionRecord
    <3>4. CASE thread[t].then = "next"
      <4>1. thread'[t].pc \in {"process", "poll"}
        BY <1>1, <3>1, <3>4, ResumePc
      <4> QED
        BY <4>1 DEF HoldsLock
    <3>5. CASE thread[t].then # "next"
      <4>1. thread'[t] = [thread[t] EXCEPT !.pc = thread[t].then]
        BY <3>1, <3>5
      <4>2. thread'[t].conn = k /\ thread'[t].pc = thread[t].then
        BY <1>1, <4>1 DEF ThreadRecord
      <4> QED
        BY <3>1, <3>2, <3>3, <4>2 DEF LockInv, HoldsLock
    <3> QED
      BY <3>4, <3>5
  <2>4. CASE Lock(t)
    <3>1. thread'[t].pc = "send" /\ thread'[t].conn = k
      BY <1>1, <2>4 DEF Lock, ThreadRecord
    <3>2. session'[k].lock = t
      BY <1>1, <2>1, <2>4 DEF Lock, SessionRecord
    <3> QED
      BY <3>1, <3>2 DEF HoldsLock
  <2>5. CASE Unlock(t)
    <3>1. thread'[t] = IF t = "reactor" THEN Resume(thread[t]) ELSE Waiting
      BY <1>1, <2>5 DEF Unlock
    <3>2. thread'[t].pc \in {"process", "poll"}
      BY <1>1, <3>1, ResumePc
    <3> QED
      BY <3>2 DEF HoldsLock
  <2> QED
    BY <1>4, <2>2, <2>3, <2>4, <2>5 DEF Sending
<1>5. \A t \in Threads : \/ thread'[t] = thread[t]
                         \/ Sending(t)
                         \/ ~HoldsLock(thread'[t]) /\ thread'[t].pc # "increment"
  <2>1. processor' = processor \/ TakeReport \/ Sending("processor") \/ Failing \/ Restart
    BY ProcessorSteps
  <2>2. TakeReport => processor' = processor \/ processor'.pc = "lock"
    BY <1>1 DEF TakeReport, processor, Waiting
  <2>3. Failing \/ Restart => \A t \in Threads : thread'[t].pc \in {"poll", "failed"}
    BY DEF Failing, DisconnectNothing, UseUndefined, AcceptDuringLookup, Fail, Restart, Failed,
           Waiting
  <2>4. Accepts \/ Initialise \/ Failing \/ Restart \/ ReactorWorks \/ reactor' = reactor
    BY ReactorSteps
  <2>5. Accepts \/ Initialise \/ (ReactorWorks /\ ~Sending("reactor"))
        => ~HoldsLock(reactor') /\ reactor'.pc # "increment"
    BY ReactorPcs DEF ReactorWorks, HoldsLock
  <2> QED
    BY <2>1, <2>2, <2>3, <2>4, <2>5 DEF Threads, HoldsLock, reactor, processor
<1>6. reactor'.pc = "remove" => session'[sessions'[reactor'.slot]].lock = "reactor"
  <2>1. CASE DisconnectSave
    <3>1. reactor' = [reactor EXCEPT !.pc = "remove"] /\ sessions' = sessions
      BY <1>1, <2>1 DEF DisconnectSave, reactor, tableVars
    <3>2. reactor'.slot = reactor.slot /\ reactor.slot \in DOMAIN sessions
      BY <1>1, <2>1, <3>1 DEF ReactorInv, DisconnectSave, ThreadRecord, reactor
    <3>3. sessions[reactor.slot] \in Connections
      BY <3>2, SlotFacts
    <3>4. session' = [session EXCEPT ![sessions[reactor.slot]].lock = "reactor"]
      BY <2>1 DEF DisconnectSave, reactor
    <3> QED
      BY <1>1, <3>1, <3>2, <3>3, <3>4 DEF SessionRecord
  <2>2. ASSUME ~DisconnectSave, reactor'.pc = "remove"
        PROVE  session'[sessions'[reactor'.slot]].lock = "reactor"
    <3>1. reactor' = reactor /\ sessions' = sessions
      <4>1. ~(Accepts \/ Initialise \/ ReactorWorks \/ Failing \/ Restart)
        <5>1. Failing \/ Restart => reactor'.pc \in {"poll", "failed"}
          BY <1>1 DEF Failing, DisconnectNothing, UseUndefined, AcceptDuringLookup, Fail,
                      Restart, Failed, Waiting, reactor
        <5> QED
          BY <2>2, <5>1, ReactorPcs DEF ReactorWorks
      <4> QED
        BY <4>1, ReactorSteps, Frames DEF Framed, TableStep, tableVars, ReactorWorks
    <3>2. reactor.slot \in DOMAIN sessions /\ session[sessions[reactor.slot]].lock = "reactor"
      BY <2>2, <3>1 DEF ReactorInv, LockInv
    <3> DEFINE k == sessions[reactor.slot]
    <3>3. k \in Connections /\ session[k].lock = "reactor"
      BY <3>2, SlotFacts
    <3>4. ~\E t \in Threads : Unlock(t) /\ thread[t].conn = k
      <4> SUFFICES ASSUME NEW t \in Threads, Unlock(t), thread[t].conn = k PROVE FALSE
        OBVIOUS
      <4>1. t = "reactor" /\ thread[t].pc = "unlock"
        BY <3>3 DEF Unlock, LockInv, HoldsLock
      <4> QED
        BY <2>2, <3>1, <4>1 DEF reactor
    <3>5. ~DisconnectRemove
      BY <2>2, ReactorPcs
    <3> HIDE DEF k
    <3>6. session'[k].lock = "reactor"
      BY <3>3, <3>4, <3>5, LockSteps
    <3> QED
      BY <3>1, <3>6 DEF k
  <2> QED
    BY <2>1, <2>2
<1> QED
  BY <1>3, <1>4, <1>5, <1>6 DEF LockInv
-----------------------------------------------------------------------------
(* The invariant *)

LEMMA InvInit == Init => IInv
<1> SUFFICES ASSUME Init PROVE IInv
  OBVIOUS
<1>1. MaxConnections \in Nat /\ MaxFills \in Nat /\ MaxRestarts \in Nat
  BY ConstantsAssumption
<1>2. TypeOK
  <2>1. 0 \in 0 .. MaxConnections /\ 0 \in 0 .. MaxFills /\ 0 \in 0 .. MaxRestarts
    BY <1>1
  <2>2. Waiting \in ThreadRecord
    BY <2>1 DEF Waiting, ThreadRecord, Pcs
  <2>3. NewSession \in SessionRecord
    BY <2>1 DEF NewSession, SessionRecord
  <2>4. NoFile \in Numbers
    BY DEF NoFile, Numbers
  <2>5. session \in [Connections -> SessionRecord] /\ thread \in [Threads -> ThreadRecord]
    BY <2>2, <2>3 DEF Init
  <2>6. inbox \in [Connections -> Seq(Message)] /\ reports \in Seq(Origin)
    BY DEF Init
  <2>7. received \in [Clients -> [last : Nat, increasing : BOOLEAN, own : BOOLEAN]]
    BY DEF Init, NothingSeen
  <2>8. /\ peers \in Seq(Connections) /\ peerFlags \in Seq(BOOLEAN)
        /\ sessions \in Seq(Connections) /\ sessionFlags \in Seq(BOOLEAN)
    BY DEF Init
  <2> QED
    BY <2>1, <2>4, <2>5, <2>6, <2>7, <2>8 DEF Init, TypeOK, SessionRecord, ThreadRecord
<1>3. TableInv
  BY <1>1 DEF Init, TableInv
<1>4. FreshInv
  BY <1>1 DEF Init, FreshInv, Connections
<1>5. TcpInv /\ OriginInv
  BY DEF Init, TcpInv, OriginInv
<1>6. ReactorInv /\ ProcessorInv /\ LockInv
  BY DEF Init, ReactorInv, ProcessorInv, LockInv, HoldsLock, AtMessage, AtSession, Waiting, reactor,
         processor, Threads
<1> QED
  BY <1>2, <1>3, <1>4, <1>5, <1>6 DEF IInv

LEMMA InvNext == IInv /\ [Next]_vars => IInv'
  BY TypeNext, TableNext, FreshNext, TcpNext, ReactorNext, ProcessorNext, OriginNext, LockNext
     DEF IInv

(* The reactor and the processor stay within their types and within the    *)
(* tables, for any number of clients, connections and messages: the slot   *)
(* an order remembers never points outside of the session table.           *)
THEOREM TypeCorrect == Spec => []TypeOK
<1>1. IInv => TypeOK
  BY DEF IInv
<1> QED
  BY <1>1, InvInit, InvNext, PTL DEF Spec

(* TCPServer and FixServerReactor always agree on who is at which slot:    *)
(* what addPeer and addSession, removeSession and removePeer do one after  *)
(* the other never lets the two tables differ.                             *)
THEOREM TablesAgree == Spec => []SlotsAgree
<1>1. IInv => SlotsAgree
  <2> SUFFICES ASSUME IInv PROVE SlotsAgree
    OBVIOUS
  <2>1. peers = sessions /\ peerFlags = sessionFlags
    BY DEF IInv, TableInv
  <2>2. \A i \in DOMAIN sessions :
          \/ session[sessions[i]].tcp = peers[i]
          \/ session[sessions[i]].tcp = 0 /\ thread["reactor"].pc \in {"initialise", "failed"}
    BY <2>1 DEF IInv, TcpInv, reactor
  <2>3. ASSUME NEW k \in 1 .. accepted, open[k]
        PROVE  \E i \in DOMAIN peers : /\ peers[i] = k /\ peerFlags[i]
                                       /\ \A j \in DOMAIN peers : peers[j] = k => j = i
    <3>1. k \in Connections
      BY SlotFacts DEF IInv, Connections
    <3> QED
      BY <2>1, <2>3, <3>1 DEF IInv, TableInv
  <2> QED
    BY <2>1, <2>2, <2>3 DEF SlotsAgree
<1> QED
  BY <1>1, InvInit, InvNext, PTL DEF Spec

(* The reactor and the processor never have the same session locked, nor   *)
(* are they ever both between the transmission of a message over it and    *)
(* the increment of its number.                                            *)
SessionsExclusive ==
  thread["reactor"].conn = thread["processor"].conn =>
    /\ ~(HoldsLock(thread["reactor"]) /\ HoldsLock(thread["processor"]))
    /\ ~(thread["reactor"].pc = "increment" /\ thread["processor"].pc = "increment")

(* lock() and the send lock keep the two threads apart on every session,   *)
(* also while its slot is reused.                                          *)
THEOREM OneThreadAtATime == Spec => []SessionsExclusive
<1>1. IInv => SessionsExclusive
  BY DEF IInv, LockInv, SessionsExclusive, Threads
<1> QED
  BY <1>1, InvInit, InvNext, PTL DEF Spec
-----------------------------------------------------------------------------
(* Reports and their clients, when slots are reused only after the orders  *)
(* and the reports of their last client                                    *)

(* An order belongs to the client at the slot it remembers, or was sent    *)
(* before any LOGON.                                                       *)
Owned(o) == o.owner \in {NoClient, client[sessions[o.slot]]}

(* A session has the comp id of its client, or none before LOGON. *)
CompInv == \A k \in Connections : session[k].comp \in {NoClient, client[k]}

OwnerInv ==
  /\ CompInv
  /\ \A o \in orders : Owned(o)
  /\ \A n \in DOMAIN reports : Owned(reports[n])
  /\ processor.pc \in AtSession =>
       /\ processor.slot \in DOMAIN sessions
       /\ processor.conn = sessions[processor.slot]
       /\ processor.owner \in {NoClient, client[processor.conn]}
  /\ reactor.pc = "initialise" => Quiet(reactor.slot)
  /\ ReportsReachTheirClient

(* LOGON gives a session the comp id of its own client. *)
LEMMA CompSteps ==
  ASSUME IInv, [Next]_vars, NEW k \in Connections
  PROVE  \/ session'[k].comp = session[k].comp
         \/ HandleLogon /\ k = reactor.conn /\ session'[k].comp = client[k]
<1>1. session \in [Connections -> SessionRecord]
  BY DEF IInv, TypeOK, SessionRecord
<1>2. ASSUME NEW t \in Threads, Sending(t) PROVE session'[k].comp = session[k].comp
  <2>1. CASE Transmit(t)
    BY <1>1, <2>1 DEF Transmit, SessionRecord
  <2>2. CASE Increment(t)
    BY <1>1, <2>2 DEF Increment, SessionRecord
  <2>3. CASE Lock(t)
    BY <1>1, <2>3 DEF Lock, SessionRecord
  <2>4. CASE Unlock(t)
    BY <1>1, <2>4 DEF Unlock, SessionRecord
  <2> QED
    BY <1>2, <2>1, <2>2, <2>3, <2>4 DEF Sending
<1>3. CASE Initialise
  BY <1>1, <1>3 DEF Initialise, SessionRecord
<1>4. CASE DisconnectSave
  BY <1>1, <1>4 DEF DisconnectSave, SessionRecord
<1>5. CASE DisconnectRemove
  BY <1>1, <1>5 DEF DisconnectRemove, SessionRecord
<1>6. CASE HandleLogon
  <2>1. reactor.pc \in AtMessage
    BY <1>6 DEF HandleLogon, AtMessage, reactor
  <2>2. session[reactor.conn].tcp = reactor.conn
    BY <2>1, AtMessageFacts DEF IInv
  <2>3. session' = [session EXCEPT ![reactor.conn] = Restored(@, client[reactor.conn])]
    BY <1>6, <2>2 DEF HandleLogon, reactor
  <2> QED
    BY <1>1, <1>6, <2>3 DEF Restored, SessionRecord
<1>7. CASE AcceptMessage
  BY <1>1, <1>7 DEF AcceptMessage, SessionRecord
<1> QED
  BY <1>2, <1>3, <1>4, <1>5, <1>6, <1>7, Frames DEF Framed, SessionStep, Threads

(* The client at a slot in use by an order stays there. *)
LEMMA SlotKept ==
  ASSUME IInv, QuietReconnects, [Next]_vars, ~Restart, NEW i \in DOMAIN sessions, ~Quiet(i)
  PROVE  /\ i \in DOMAIN sessions' /\ sessions'[i] = sessions[i]
         /\ client'[sessions[i]] = client[sessions[i]]
<1>1. TypeOK /\ TableInv /\ sessions[i] \in Connections /\ sessions[i] \in 1 .. accepted
  BY SlotFacts DEF IInv
<1>2. CASE Accepts
  <2>1. PICK c \in Clients : Accept(c)
    BY <1>2 DEF Accepts
  <2>2. PICK j \in Connections, k \in Connections : TakesSlot(j, k)
    BY <1>1, <2>1, AcceptFacts
  <2>3. i # j
    BY <2>1, <2>2 DEF Accept, Connects, TakesSlot
  <2>4. sessions[i] # k /\ client' = [client EXCEPT ![k] = c]
    BY <1>1, <2>1, <2>2, SlotFacts DEF Accept, Connects, TakesSlot
  <2> QED
    BY <1>1, <2>2, <2>3, <2>4 DEF TakesSlot, TypeOK
<1> QED
  BY <1>2, Frames DEF Framed, TableStep, DisconnectRemove, tableVars

(* A session belongs to its client. *)
LEMMA CompNext ==
  ASSUME IInv, CompInv, [Next]_vars
  PROVE  CompInv'
<1> SUFFICES ASSUME NEW k \in Connections PROVE session'[k].comp \in {NoClient, client'[k]}
  BY DEF CompInv
<1>1. session[k].comp \in {NoClient, client[k]}
  BY DEF CompInv
<1>2. CASE Accepts
  <2>1. PICK c \in Clients : Accept(c)
    BY <1>2 DEF Accepts
  <2>2. session' = session /\ client' = [client EXCEPT ![accepted + 1] = c]
    BY <2>1 DEF Accept
  <2>3. CASE k = accepted + 1
    <3>1. k > accepted
      BY <2>3, SlotFacts DEF IInv
    <3>2. session[k] = NewSession
      BY <3>1 DEF IInv, FreshInv
    <3> QED
      BY <2>2, <3>2 DEF NewSession
  <2>4. CASE k # accepted + 1
    BY <1>1, <2>2, <2>4 DEF IInv, TypeOK
  <2> QED
    BY <2>3, <2>4
<1>3. CASE client' = client
  BY <1>1, <1>3, CompSteps
<1> QED
  BY <1>2, <1>3, Frames DEF Framed, TableStep, DisconnectRemove, Restart

(* An order belongs to the client of its slot. *)
LEMMA OwnedNext ==
  ASSUME IInv, OwnerInv, QuietReconnects, [Next]_vars
  PROVE  (\A o \in orders : Owned(o))' /\ (\A n \in DOMAIN reports : Owned(reports[n]))'
<1> DEFINE OwnedThen(o) == o.owner \in {NoClient, client'[sessions'[o.slot]]}
<1> SUFFICES /\ \A o \in orders' : OwnedThen(o)
             /\ \A n \in DOMAIN reports' : OwnedThen(reports'[n])
  BY DEF Owned
<1>1. /\ reports \in Seq(Origin)
      /\ \A o \in orders : Owned(o) /\ o.slot \in DOMAIN sessions
      /\ \A n \in DOMAIN reports : Owned(reports[n]) /\ reports[n].slot \in DOMAIN sessions
  BY DEF IInv, TypeOK, OriginInv, OwnerInv
<1>2. CASE Restart
  BY <1>2 DEF Restart
<1>3. CASE ~Restart
  <2>1. \A o \in orders : OwnedThen(o)
    BY <1>1, <1>3, SlotKept DEF Quiet, Owned
  <2>2. \A n \in DOMAIN reports : OwnedThen(reports[n])
    BY <1>1, <1>3, SlotKept DEF Quiet, Owned
  <2> HIDE DEF OwnedThen
  <2>3. ASSUME NEW o, OwnedThen(o)
        PROVE  \A n \in DOMAIN Append(reports, o) : OwnedThen(Append(reports, o)[n])
    <3>1. \A n \in DOMAIN Append(reports, o) :
            (n \in DOMAIN reports /\ Append(reports, o)[n] = reports[n]) \/ Append(reports, o)[n] = o
      BY <1>1
    <3> QED
      BY <2>2, <2>3, <3>1
  <2>4. CASE AcceptMessage
    <3>1. PICK o \in Origin :
            /\ o = [slot |-> reactor.slot, owner |-> session[reactor.conn].comp]
            /\ \/ orders' = orders \cup {o} /\ reports' = Append(reports, o)
               \/ UNCHANGED <<orders, reports>>
      BY <2>4, OriginFacts DEF IInv
    <3>2. reactor.pc \in AtMessage
      BY <2>4 DEF AcceptMessage, AtValidation, AtMessage, reactor
    <3>3. reactor.conn = sessions[reactor.slot] /\ reactor.conn \in Connections
      BY <3>2, AtMessageFacts DEF IInv
    <3>4. sessions' = sessions /\ client' = client
      BY <2>4 DEF AcceptMessage, tableVars, wireVars
    <3>5. OwnedThen(o)
      BY <3>1, <3>3, <3>4 DEF OwnedThen, OwnerInv, CompInv
    <3> QED
      BY <2>1, <2>2, <2>3, <3>1, <3>5
  <2>5. CASE TakeReport
    <3>1. reports' = Tail(reports) /\ orders' = orders /\ reports # <<>>
      BY <2>5 DEF TakeReport
    <3>2. \A n \in DOMAIN Tail(reports) : n + 1 \in DOMAIN reports /\ Tail(reports)[n] = reports[n + 1]
      BY <1>1, <3>1
    <3> QED
      BY <2>1, <2>2, <3>1, <3>2
  <2>6. CASE Fills
    <3>1. PICK o \in orders : Fill(o)
      BY <2>6 DEF Fills
    <3>2. orders' \subseteq orders /\ reports' = Append(reports, o)
      BY <3>1 DEF Fill
    <3> QED
      BY <2>1, <2>3, <3>1, <3>2
  <2>7. CASE UNCHANGED bookVars
    BY <2>1, <2>2, <2>7 DEF bookVars
  <2> QED
    BY <1>3, <2>4, <2>5, <2>6, <2>7, Frames DEF Framed, BookStep
<1> QED
  BY <1>2, <1>3

(* The processor has the session of its report, which stays in its slot. *)
LEMMA ProcessorOwns ==
  ASSUME IInv, OwnerInv, QuietReconnects, [Next]_vars
  PROVE  processor'.pc \in AtSession =>
           /\ processor'.slot \in DOMAIN sessions'
           /\ processor'.conn = sessions'[processor'.slot]
           /\ processor'.owner \in {NoClient, client'[processor'.conn]}
<1> DEFINE Owns == /\ processor'.slot \in DOMAIN sessions'
                   /\ processor'.conn = sessions'[processor'.slot]
                   /\ processor'.owner \in {NoClient, client'[processor'.conn]}
<1>1. /\ thread \in [Threads -> ThreadRecord] /\ processor \in ThreadRecord
      /\ "reactor" \in Threads /\ "processor" \in Threads
  BY DEF IInv, TypeOK, ThreadRecord, Threads, processor
<1>2. ASSUME processor.pc \in AtSession, ~Restart, processor'.slot = processor.slot,
             processor'.conn = processor.conn, processor'.owner = processor.owner
      PROVE  Owns
  <2>1. processor.slot \in DOMAIN sessions /\ ~Quiet(processor.slot)
    BY <1>2 DEF OwnerInv, Quiet, processor
  <2> QED
    BY <1>2, <2>1, SlotKept DEF OwnerInv
<1>3. CASE Failing \/ Restart
  <2>1. processor'.pc \in {"poll", "failed"}
    BY <1>1, <1>3 DEF Failing, DisconnectNothing, UseUndefined, AcceptDuringLookup, Fail,
                      Restart, processor, Waiting, Failed
  <2> QED
    BY <2>1 DEF AtSession
<1>4. CASE processor' = processor /\ ~Restart
  BY <1>2, <1>4
<1>5. CASE TakeReport /\ ~Restart
  <2> DEFINE o == Head(reports)
  <2>1. o \in Origin /\ o.slot \in DOMAIN sessions /\ Owned(o)
    <3>1. reports \in Seq(Origin) /\ reports # <<>>
      BY <1>5 DEF TakeReport, IInv, TypeOK
    <3>2. 1 \in DOMAIN reports /\ o = reports[1] /\ reports[1] \in Origin
      BY <3>1
    <3> HIDE DEF o
    <3>3. o.slot \in DOMAIN sessions
      BY <3>2 DEF IInv, OriginInv
    <3>4. Owned(o)
      BY <3>2 DEF OwnerInv
    <3> QED
      BY <3>2, <3>3, <3>4
  <2>2. sessions' = sessions /\ client' = client
    BY <1>5 DEF TakeReport, tableVars, wireVars
  <2>3. CASE thread' = thread
    BY <1>4, <1>5, <2>3 DEF processor
  <2>4. CASE thread' # thread
    <3>1. processor' = [Waiting EXCEPT !.pc = "lock", !.slot = o.slot, !.conn = sessions[o.slot],
                                       !.owner = o.owner]
      BY <1>1, <1>5, <2>4 DEF TakeReport, processor
    <3> QED
      BY <2>1, <2>2, <3>1 DEF Waiting, Owned
  <2> QED
    BY <2>3, <2>4
<1>6. CASE Sending("processor") /\ ~Restart
  <2>1. processor.pc \in AtSession
    BY <1>6 DEF Sending, Transmit, Increment, Lock, Unlock, AtSession, processor
  <2>2. \/ processor'.pc = "poll"
        \/ /\ processor'.slot = processor.slot /\ processor'.conn = processor.conn
           /\ processor'.owner = processor.owner
    <3>1. CASE Transmit("processor")
      BY <1>1, <3>1 DEF Transmit, processor, ThreadRecord
    <3>2. CASE Increment("processor")
      <4>1. processor.then = "unlock"
        BY <3>2 DEF Increment, IInv, ProcessorInv, processor
      <4> QED
        BY <1>1, <3>2, <4>1 DEF Increment, processor, ThreadRecord
    <3>3. CASE Lock("processor")
      BY <1>1, <3>3 DEF Lock, processor, ThreadRecord
    <3>4. CASE Unlock("processor")
      BY <1>1, <3>4 DEF Unlock, processor, Waiting
    <3> QED
      BY <1>6, <3>1, <3>2, <3>3, <3>4 DEF Sending
  <2> QED
    BY <1>2, <1>6, <2>1, <2>2 DEF AtSession
<1>7. TypeOK
  BY DEF IInv
<1> QED
  BY <1>3, <1>4, <1>5, <1>6, <1>7, ProcessorSteps

(* No order remembers the slot that is being initialised. *)
LEMMA QuietNext ==
  ASSUME IInv, OwnerInv, QuietReconnects, [Next]_vars
  PROVE  reactor'.pc = "initialise" => Quiet(reactor.slot)'
<1> SUFFICES ASSUME reactor'.pc = "initialise" PROVE Quiet(reactor.slot)'
  OBVIOUS
<1>1. /\ thread \in [Threads -> ThreadRecord] /\ processor \in ThreadRecord
      /\ "reactor" \in Threads /\ "processor" \in Threads /\ reports \in Seq(Origin)
  BY DEF IInv, TypeOK, ThreadRecord, Threads, processor
<1>2. CASE Accepts
  <2>1. PICK c \in Clients : Accept(c)
    BY <1>2 DEF Accepts
  <2>2. Quiet(FreeSlot(peerFlags)) /\ orders' = orders /\ reports' = reports
    BY <2>1 DEF Accept, Connects, bookVars
  <2>3. reactor'.slot = FreeSlot(peerFlags) /\ processor' = processor
    BY <1>1, <2>1 DEF Accept, Connects, reactor, processor, Waiting
  <2> QED
    BY <2>2, <2>3 DEF Quiet, processor
<1>3. CASE ~Accepts
  <2>1. reactor' = reactor /\ ~ReactorWorks /\ ~Initialise /\ ~Failing /\ ~Restart
    <3>1. Failing \/ Restart => reactor'.pc \in {"poll", "failed"}
      BY <1>1 DEF Failing, DisconnectNothing, UseUndefined, AcceptDuringLookup, Fail, Restart,
                  Failed, Waiting, reactor
    <3> QED
      BY <1>3, <3>1, ReactorPcs, ReactorSteps DEF IInv, ReactorWorks
  <2> DEFINE i == reactor.slot
  <2>2. /\ \A o \in orders : o.slot # i
        /\ \A n \in DOMAIN reports : reports[n].slot # i
        /\ processor.slot # i
    BY <2>1 DEF OwnerInv, Quiet, processor
  <2>3. i # 0
    BY <2>1, SlotFacts DEF IInv, ReactorInv, Connections
  <2> HIDE DEF i
  <2>4. /\ \A o \in orders' : o.slot # i
        /\ \A n \in DOMAIN reports' : reports'[n].slot # i
    <3>1. CASE TakeReport
      <4>1. reports' = Tail(reports) /\ orders' = orders /\ reports # <<>>
        BY <3>1 DEF TakeReport
      <4>2. \A n \in DOMAIN Tail(reports) : n + 1 \in DOMAIN reports /\ Tail(reports)[n] = reports[n + 1]
        BY <1>1, <4>1
      <4> QED
        BY <2>2, <4>1, <4>2
    <3>2. CASE Fills
      <4>1. PICK o \in orders : Fill(o)
        BY <3>2 DEF Fills
      <4>2. orders' \subseteq orders /\ reports' = Append(reports, o)
        BY <4>1 DEF Fill
      <4>3. \A n \in DOMAIN Append(reports, o) :
              (n \in DOMAIN reports /\ Append(reports, o)[n] = reports[n]) \/ Append(reports, o)[n] = o
        BY <1>1
      <4> QED
        BY <2>2, <4>1, <4>2, <4>3
    <3>3. CASE UNCHANGED bookVars
      BY <2>2, <3>3 DEF bookVars
    <3> QED
      BY <2>1, <3>1, <3>2, <3>3, Frames DEF Framed, BookStep, ReactorWorks
  <2>5. processor'.slot # i
    <3>1. CASE TakeReport
      <4>1. Head(reports).slot # i
        BY <1>1, <2>2, <3>1 DEF TakeReport
      <4>2. processor'.slot \in {processor.slot, Head(reports).slot}
        BY <1>1, <3>1 DEF TakeReport, processor, Waiting
      <4> QED
        BY <2>2, <4>1, <4>2
    <3>2. CASE Sending("processor")
      <4>1. processor'.slot \in {processor.slot, 0}
        <5>1. CASE Transmit("processor")
          BY <1>1, <5>1 DEF Transmit, processor, ThreadRecord
        <5>2. CASE Increment("processor")
          <6>1. processor.then = "unlock"
            BY <5>2 DEF Increment, IInv, ProcessorInv, processor
          <6> QED
            BY <1>1, <5>2, <6>1 DEF Increment, processor, ThreadRecord
        <5>3. CASE Lock("processor")
          BY <1>1, <5>3 DEF Lock, processor, ThreadRecord
        <5>4. CASE Unlock("processor")
          BY <1>1, <5>4 DEF Unlock, processor, Waiting
        <5> QED
          BY <3>2, <5>1, <5>2, <5>3, <5>4 DEF Sending
      <4> QED
        BY <2>2, <2>3, <4>1
    <3>3. CASE processor' = processor
      BY <2>2, <3>3
    <3>4. TypeOK
      BY DEF IInv
    <3> QED
      BY <2>1, <3>1, <3>2, <3>3, <3>4, ProcessorSteps
  <2>6. reactor'.slot = i
    BY <2>1 DEF i
  <2> QED
    BY <2>4, <2>5, <2>6 DEF Quiet, processor
<1> QED
  BY <1>2, <1>3

(* What is transmitted to a client is its own. *)
LEMMA OwnNext ==
  ASSUME IInv, OwnerInv, [Next]_vars
  PROVE  ReportsReachTheirClient'
<1>1. received \in [Clients -> [last : Nat, increasing : BOOLEAN, own : BOOLEAN]]
  BY DEF IInv, TypeOK
<1>2. \A c \in Clients : received[c].own
  BY DEF OwnerInv, ReportsReachTheirClient
<1>3. ASSUME NEW t \in Threads, Transmit(t) PROVE ReportsReachTheirClient'
  <2> DEFINE k == thread[t].conn
             c == client[k]
  <2>1. /\ session[k].tcp = k /\ thread[t].owner \in {NoClient, c}
    <3>1. CASE t = "reactor"
      <4>1. reactor.pc \in AtMessage
        BY <1>3, <3>1 DEF Transmit, AtMessage, AtSession, reactor
      <4> QED
        BY <3>1, <4>1, AtMessageFacts DEF IInv, ReactorInv, reactor
    <3>2. CASE t = "processor"
      <4>1. processor.pc = "send" /\ HoldsLock(processor)
        BY <1>3, <3>2 DEF Transmit, IInv, ProcessorInv, HoldsLock, processor
      <4> QED
        BY <3>2, <4>1 DEF IInv, ProcessorInv, OwnerInv, AtSession, processor
    <3> QED
      BY <3>1, <3>2 DEF Threads
  <2>2. \/ received' = received
        \/ received' = [received EXCEPT ![c] = Seen(@, c, session[k].out, thread[t].owner)]
    BY <1>3, <2>1 DEF Transmit
  <2> HIDE DEF k, c
  <2>3. ASSUME NEW x \in Clients PROVE received'[x].own
    BY <1>1, <1>2, <2>1, <2>2 DEF Seen
  <2> QED
    BY <2>3 DEF ReportsReachTheirClient
<1>4. CASE received' = received
  BY <1>2, <1>4 DEF ReportsReachTheirClient
<1> QED
  BY <1>3, <1>4, Frames DEF Framed, ReceivedStep, Threads

LEMMA OwnerNext ==
  ASSUME IInv, OwnerInv, QuietReconnects, [Next]_vars
  PROVE  OwnerInv'
  BY CompNext, OwnedNext, ProcessorOwns, QuietNext, OwnNext DEF OwnerInv

LEMMA OwnerInit == Init => OwnerInv
  BY DEF Init, OwnerInv, CompInv, ReportsReachTheirClient, NewSession, NothingSeen, Waiting, Threads, AtSession,
         reactor, processor

(* If no slot is used again while an order or a report remembers it, no    *)
(* client is ever sent the execution report of another one, whatever the   *)
(* clients send and whenever they come and go.                             *)
THEOREM ReportsStayPrivate ==
  ASSUME QuietReconnects
  PROVE  Spec => []ReportsReachTheirClient
<1>1. IInv /\ OwnerInv /\ [Next]_vars => (IInv /\ OwnerInv)'
  BY InvNext, OwnerNext
<1>2. OwnerInv => ReportsReachTheirClient
  BY DEF OwnerInv
<1> QED
  BY <1>1, <1>2, InvInit, OwnerInit, PTL DEF Spec
=============================================================================
