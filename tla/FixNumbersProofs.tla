-------------------------- MODULE FixNumbersProofs --------------------------
(***************************************************************************)
(* Proofs about the sequence numbers of module FixSessions: a client that  *)
(* behaves never receives a number twice and is never refused, for any     *)
(* number of clients, messages, connections, batches and restarts.         *)
(*                                                                         *)
(* The invariant follows one client c that is still clean. The messages    *)
(* the server has not counted yet are one sequence, Unread, of which the   *)
(* reactor holds the beginning and the socket the end.                     *)
(***************************************************************************)
EXTENDS FixSessionsProofs, SequenceTheorems

(* The connection of c is open on both sides; LOGON was processed over it. *)
Online(c) == link[c] # 0 /\ open[link[c]]
LoggedOn(c) == Online(c) /\ session[link[c]].comp = c

(* The reactor still answers clients. *)
Serving == reactor.pc \notin {"stopping", "stopped", "failed"}

(* The reactor has a batch of connection k. *)
Reads(k) == reactor.batch # <<>> /\ reactor.conn = k

(* The reactor answers a LOGON. *)
Welcoming(r) ==
  r.pc = "validate" \/ (r.pc \in {"send", "increment"} /\ r.then = "validate")

(* The first message of the batch is not counted yet. *)
AtHead(r) == r.pc = "process" \/ Welcoming(r)

(* The reactor answers a LOGOFF. *)
Leaving(r) ==
  r.pc \in {"disconnect", "remove"} \/ (r.pc \in {"send", "increment"} /\ r.then = "disconnect")

Uncounted(r) == IF AtHead(r) THEN r.batch ELSE Tail(r.batch)

Rest(r, k, box) == IF r.batch # <<>> /\ r.conn = k THEN Uncounted(r) \o box ELSE box

Unread(k) == Rest(reactor, k, inbox[k])

(* Reports the processor may still number in session k *)
Coming(k) ==
  IF processor.conn = k /\ processor.pc \in {"lock", "send", "increment"} THEN 1 ELSE 0

(* Session k of c is over. *)
Over(k, c) == session[k].comp = c /\ ~(link[c] = k /\ open[k])

(* The file has greater numbers than session k, or those of session k, but *)
(* for a report that was on its way when the client left.                  *)
Stale(k, c) == session[k].out + Coming(k) < store[c].out
Latest(k, c) ==
  /\ session[k].out >= store[c].out
  /\ session[k].in = store[c].in
  /\ session[k].out + Coming(k) <= store[c].out + 1
-----------------------------------------------------------------------------
(* Links are to accepted connections of the client. *)
LinkInv ==
  /\ \A c \in Clients : link[c] # 0 => link[c] \in 1 .. accepted /\ client[link[c]] = c
  /\ \A c \in Clients : link[c] = 0 <=> stage[c] = "away"
  /\ \A k \in refused : k <= accepted

(* The reactor has no batch while it waits. *)
IdleInv ==
  reactor.pc \notin AtMessage \cup {"disconnect", "remove"} => reactor.batch = <<>>

(* Nothing was sent over a connection that is not accepted yet. *)
BoxInv == \A k \in Connections : k > accepted => inbox[k] = <<>>

(* Both threads end in an undefined operation. *)
FailedInv == reactor.pc = "failed" => processor.pc = "failed"

(* The rest is about a clean client. The server closes a connection of c   *)
(* only after its LOGOFF.                                                  *)
ConnectionInv(c) ==
  /\ \A k \in Connections : client[k] = c /\ open[k] => link[c] = k
  /\ link[c] # 0 /\ ~open[link[c]] => stage[c] = "leaving"
  /\ \A i \in DOMAIN sessions :
       client[sessions[i]] = c /\ sessionFlags[i] => open[sessions[i]]

(* What is not counted yet: LOGON first, LOGOFF last; at is the stage of   *)
(* the client, on whether its LOGON was processed and welcomed whether it  *)
(* is being answered.                                                      *)
Ordered(q, at, on, welcomed) ==
  /\ \A j \in 1 .. Len(q) :
       /\ q[j].kind \notin {"MALFORMED", "WRONG_TARGET"}
       /\ q[j].kind = "LOGOFF" => j = Len(q) /\ at = "leaving"
       /\ q[j].kind = "LOGON" => j = 1 /\ (on => welcomed)
  /\ ~on => \/ at = "connected" /\ q = <<>>
            \/ at # "connected" /\ q # <<>> /\ q[1].kind = "LOGON"
  /\ at = "connected" => ~on

KindInv(c, q) == Ordered(q, stage[c], LoggedOn(c), Reads(link[c]) /\ Welcoming(reactor))

(* ... and consecutive numbers that end with the last one of the client    *)
NumberedFrom(q, n) == \A j \in 1 .. Len(q) : q[j].seq = n + j

Counted(c) == IF LoggedOn(c) THEN session[link[c]].in ELSE store[c].in

QueueInv(c) ==
  Online(c) /\ Serving =>
    /\ KindInv(c, Unread(link[c]))
    /\ NumberedFrom(Unread(link[c]), Counted(c))
    /\ Counted(c) + Len(Unread(link[c])) + 1 = clientOut[c]

(* What the reactor does for c *)
AnswerInv(c) ==
  /\ reactor.batch # <<>> /\ client[reactor.conn] = c =>
       /\ open[reactor.conn]
       /\ reactor.pc # "process" => session[reactor.conn].comp = c
       /\ Welcoming(reactor) => Head(reactor.batch).kind = "LOGON"
       /\ Leaving(reactor) => stage[c] = "leaving" /\ Unread(reactor.conn) = <<>>
  /\ reactor.pc \in {"disconnect", "remove"} /\ client[sessions[reactor.slot]] = c =>
       reactor.batch # <<>>

(* Before LOGON nobody else uses the session. *)
QuietInv(c) ==
  /\ Online(c) /\ ~LoggedOn(c) => \A i \in DOMAIN sessions : sessions[i] = link[c] => Quiet(i)
  /\ processor.pc \in AtSession /\ client[processor.conn] = c =>
       session[processor.conn].comp = c

(* The numbers the client has seen are behind those it will see. *)
Incrementing(k) == \E t \in Threads : thread[t].pc = "increment" /\ thread[t].conn = k

SeenInv(c) ==
  /\ \A t \in Threads : thread[t].pc = "increment" /\ client[thread[t].conn] = c =>
       thread[t].num = session[thread[t].conn].out
  /\ ~LoggedOn(c) => received[c].last < store[c].out
  /\ LoggedOn(c) /\ reactor.pc # "failed" =>
       /\ received[c].last <= session[link[c]].out
       /\ ~Incrementing(link[c]) => received[c].last < session[link[c]].out
  /\ received[c].increasing

(* The session is ahead of the file by the answers to LOGON and LOGOFF     *)
(* until it is saved.                                                      *)
Ahead(c) ==
  LET out == session[link[c]].out
  IN  Serving /\ LoggedOn(c) =>
        IF reactor.pc = "remove" /\ sessions[reactor.slot] = link[c]
        THEN store[c] = [out |-> out, in |-> session[link[c]].in]
        ELSE /\ out >= store[c].out
             /\ ~(Reads(link[c]) /\ Welcoming(reactor) /\ reactor.pc # "validate") =>
                  out >= store[c].out + 1
             /\ reactor.pc = "disconnect" /\ sessions[reactor.slot] = link[c] =>
                  out >= store[c].out + 2

(* Sessions of earlier connections have smaller numbers than the file, but *)
(* for the last one.                                                       *)
OverInv(c) ==
  /\ Serving \/ (~Online(c) /\ reactor.pc # "failed") =>
       /\ \A i \in DOMAIN sessions :
            Over(sessions[i], c) => Stale(sessions[i], c) \/ Latest(sessions[i], c)
       /\ \A i, j \in DOMAIN sessions :
            Over(sessions[i], c) /\ Over(sessions[j], c) /\ i # j =>
              Stale(sessions[i], c) \/ Stale(sessions[j], c)
       /\ reactor.pc = "remove" /\ client[sessions[reactor.slot]] = c =>
            \A i \in DOMAIN sessions : Over(sessions[i], c) => Stale(sessions[i], c)
  /\ ~Online(c) => store[c].in + 1 = clientOut[c]

CleanInv(c) ==
  /\ ConnectionInv(c) /\ QueueInv(c) /\ AnswerInv(c) /\ QuietInv(c)
  /\ SeenInv(c) /\ Ahead(c) /\ OverInv(c)
  /\ \A k \in refused : client[k] # c

NumbersInv ==
  /\ CompInv /\ IdleInv /\ LinkInv /\ BoxInv /\ FailedInv
  /\ \A c \in Clients : clean[c] => CleanInv(c)
-----------------------------------------------------------------------------
(* The client at the reactor *)

(* What concerns client c in a step after which it is still clean *)
LEMMA CleanKept ==
  ASSUME IInv, [Next]_vars, NEW c \in Clients, clean'[c]
  PROVE  /\ clean[c]
         /\ Accept(c) => Quiet(FreeSlot(peerFlags))
         /\ ClientLeaves(c) => ~open[link[c]] /\ stage[c] = "leaving"
         /\ \A kind : ClientSends(c, kind) => kind \notin {"MALFORMED", "WRONG_TARGET"}
         /\ Restart => (link[c] # 0 => ~open[link[c]]) /\ store'[c] = store[c]
<1>1. clean \in [Clients -> BOOLEAN] /\ open \in [Connections -> BOOLEAN]
  BY DEF IInv, TypeOK
<1>2. Accepts => clean[c] /\ (Accept(c) => Quiet(FreeSlot(peerFlags)))
  BY <1>1 DEF Accepts, Accept
<1>3. ASSUME NEW d \in Clients, ClientLeaves(d)
      PROVE  clean[c] /\ (d = c => ~open[link[c]] /\ stage[c] = "leaving")
  BY <1>1, <1>3 DEF ClientLeaves
<1>4. ASSUME NEW d \in Clients, NEW kind, ClientSends(d, kind)
      PROVE  clean[c] /\ (d = c => kind \notin {"MALFORMED", "WRONG_TARGET"})
  BY <1>1, <1>4 DEF ClientSends
<1>5. StopSave => clean[c]
  BY <1>1 DEF StopSave
<1>6. ASSUME Restart PROVE clean[c] /\ (link[c] # 0 => ~open[link[c]]) /\ store'[c] = store[c]
  <2>1. PICK lost : /\ store' = [d \in DOMAIN store |-> IF d \in lost THEN NoFile ELSE store[d]]
                    /\ clean' = [d \in Clients |-> clean[d] /\ d \notin lost
                                                    /\ (link[d] # 0 => ~open[link[d]])]
    BY <1>6 DEF Restart
  <2>2. DOMAIN store = Clients \cup {NoClient}
    BY DEF IInv, TypeOK
  <2>3. clean[c] /\ c \notin lost /\ (link[c] # 0 => ~open[link[c]])
    BY <1>1, <2>1
  <2> QED
    BY <2>1, <2>2, <2>3
<1>7. Accept(c) => Accepts
  BY DEF Accepts
<1>8. clean[c]
  BY <1>2, <1>3, <1>4, <1>5, <1>6, Frames DEF Framed, CleanStep, ClientStep, ClientMoves
<1> QED
  BY <1>2, <1>3, <1>4, <1>6, <1>7, <1>8

(* What is unread are messages. *)
LEMMA UnreadType ==
  ASSUME IInv, NEW k \in Connections
  PROVE  Unread(k) \in Seq(Message) /\ Len(Unread(k)) \in Nat
<1>1. reactor.batch \in Seq(Message) /\ inbox[k] \in Seq(Message)
  BY DEF IInv, TypeOK, Threads, reactor
<1>2. CASE Reads(k)
  <2> DEFINE b == Uncounted(reactor)
             x == inbox[k]
  <2>1. b \in Seq(Message)
    BY <1>1, <1>2 DEF Uncounted, Reads
  <2>2. Unread(k) = b \o x /\ x \in Seq(Message)
    BY <1>1, <1>2 DEF Unread, Rest, Reads
  <2> HIDE DEF b, x
  <2>3. b \o x \in Seq(Message)
    BY <2>1, <2>2
  <2> QED
    BY <2>2, <2>3
<1>3. CASE ~Reads(k)
  BY <1>1, <1>3 DEF Unread, Rest, Reads
<1> QED
  BY <1>2, <1>3

(* The reactor works on the open connection of a clean client. *)
LEMMA HeadFacts ==
  ASSUME IInv, NumbersInv, NEW c \in Clients, clean[c],
         reactor.batch # <<>>, client[reactor.conn] = c
  PROVE  /\ reactor.conn \in Connections /\ link[c] = reactor.conn /\ Online(c) /\ Reads(link[c])
         /\ reactor.slot \in DOMAIN sessions /\ sessions[reactor.slot] = reactor.conn
         /\ reactor.pc \in AtMessage \cup {"disconnect", "remove"} /\ Serving
         /\ reactor.batch \in Seq(Message) /\ inbox[link[c]] \in Seq(Message)
         /\ AtHead(reactor) => /\ Unread(link[c]) = reactor.batch \o inbox[link[c]]
                               /\ Len(Unread(link[c])) >= 1
                               /\ Unread(link[c])[1] = Head(reactor.batch)
         /\ ~AtHead(reactor) => Unread(link[c]) = Tail(reactor.batch) \o inbox[link[c]]
<1>1. reactor \in ThreadRecord
  BY DEF IInv, TypeOK, Threads, reactor, ThreadRecord
<1>2. /\ reactor.slot \in DOMAIN sessions /\ reactor.conn = sessions[reactor.slot]
      /\ reactor.conn \in Connections
  BY SlotFacts DEF IInv, ReactorInv
<1>3. open[reactor.conn] /\ link[c] = reactor.conn
  BY <1>2 DEF NumbersInv, CleanInv, AnswerInv, ConnectionInv
<1>4. Online(c) /\ Reads(link[c])
  BY <1>2, <1>3, ConstantsAssumption DEF Online, Reads, Connections
<1>5. reactor.pc \in AtMessage \cup {"disconnect", "remove"} /\ Serving
  BY DEF NumbersInv, IdleInv, AtMessage, AtSession, Serving
<1>6. reactor.batch \in Seq(Message) /\ inbox[link[c]] \in Seq(Message)
  BY <1>1, <1>2, <1>3 DEF ThreadRecord, IInv, TypeOK
<1>7. Unread(link[c]) = Uncounted(reactor) \o inbox[link[c]]
  BY <1>3 DEF Unread, Rest
<1>8. ASSUME AtHead(reactor)
      PROVE  /\ Unread(link[c]) = reactor.batch \o inbox[link[c]]
             /\ Len(Unread(link[c])) >= 1
             /\ Unread(link[c])[1] = Head(reactor.batch)
  <2>1. Unread(link[c]) = reactor.batch \o inbox[link[c]]
    BY <1>7, <1>8 DEF Uncounted
  <2>2. Len(reactor.batch) >= 1 /\ Len(inbox[link[c]]) >= 0
    BY <1>6
  <2> DEFINE b == reactor.batch
             x == inbox[link[c]]
  <2>3. b \in Seq(Message) /\ x \in Seq(Message) /\ Len(b) >= 1 /\ Len(x) >= 0
    BY <1>6, <2>2
  <2> HIDE DEF b, x
  <2>4. Len(b \o x) >= 1 /\ (b \o x)[1] = Head(b)
    BY <2>3
  <2> QED
    BY <2>1, <2>4 DEF b, x
<1>9. ~AtHead(reactor) => Unread(link[c]) = Tail(reactor.batch) \o inbox[link[c]]
  BY <1>7 DEF Uncounted
<1> QED
  BY <1>2, <1>3, <1>4, <1>5, <1>6, <1>8, <1>9

(* The message at hand is the next one, and its sender has logged on. *)
LEMMA ValidHead ==
  ASSUME IInv, NumbersInv, NEW c \in Clients, clean[c],
         reactor.batch # <<>>, client[reactor.conn] = c, AtHead(reactor)
  PROVE  /\ Head(reactor.batch).kind \notin {"MALFORMED", "WRONG_TARGET"}
         /\ Head(reactor.batch).kind = "LOGOFF" =>
              stage[c] = "leaving" /\ Len(Unread(link[c])) = 1
         /\ Head(reactor.batch).kind = "LOGON" /\ reactor.pc = "process" => ~LoggedOn(c)
         /\ AtValidation => /\ LoggedOn(c) /\ stage[c] # "connected"
                            /\ Head(reactor.batch).seq = session[reactor.conn].in + 1
                            /\ ValidSequenceNumber(reactor.conn, Head(reactor.batch))
<1> DEFINE q == Unread(link[c])
           m == Head(reactor.batch)
<1>1. /\ link[c] = reactor.conn /\ Online(c) /\ Serving /\ Len(q) >= 1 /\ q[1] = m
  BY HeadFacts
<1>2. /\ KindInv(c, q) /\ NumberedFrom(q, Counted(c))
  BY <1>1 DEF NumbersInv, CleanInv, QueueInv
<1>0. Len(q) \in Nat
  BY HeadFacts, UnreadType
<1> HIDE DEF q
<1>3. 1 \in 1 .. Len(q)
  BY <1>0, <1>1
<1>4. /\ m.kind \notin {"MALFORMED", "WRONG_TARGET"}
      /\ m.kind = "LOGOFF" => stage[c] = "leaving" /\ Len(q) = 1
      /\ m.kind = "LOGON" /\ reactor.pc = "process" => ~LoggedOn(c)
  BY <1>1, <1>2, <1>3 DEF KindInv, Ordered, Welcoming
<1>5. ASSUME AtValidation
      PROVE  LoggedOn(c) /\ stage[c] # "connected" /\ m.seq = session[reactor.conn].in + 1
  <2>1. LoggedOn(c)
    <3>1. CASE reactor.pc = "validate"
      <4>1. session[reactor.conn].comp = c
        BY <3>1 DEF NumbersInv, CleanInv, AnswerInv
      <4> QED
        BY <1>1, <4>1 DEF LoggedOn
    <3>2. CASE reactor.pc = "process"
      <4>1. m.kind # "LOGON"
        BY <1>5, <3>2 DEF AtValidation, reactor
      <4>2. q[1].kind # "LOGON" /\ q # <<>>
        BY <1>1, <1>3, <4>1
      <4> QED
        BY <1>2, <4>2 DEF KindInv, Ordered
    <3> QED
      BY <1>5, <3>1, <3>2 DEF AtValidation, reactor
  <2>2. m.seq = Counted(c) + 1
    BY <1>1, <1>2, <1>3 DEF NumberedFrom
  <2> QED
    BY <1>1, <1>2, <2>1, <2>2 DEF Counted, KindInv, Ordered
<1> QED
  BY <1>1, <1>4, <1>5 DEF ValidSequenceNumber, q

(* Who is refused was not clean. *)
LEMMA NeverRefused ==
  ASSUME IInv, NumbersInv, RefuseTarget \/ RefuseNumber \/ RejectMalformed,
         NEW c \in Clients, clean[c]
  PROVE  /\ reactor.batch # <<>> /\ reactor.conn \in Connections /\ reactor.conn \in 1 .. accepted
         /\ client[reactor.conn] # c
<1>1. reactor.pc \in AtMessage /\ AtHead(reactor)
  BY DEF RefuseTarget, RefuseNumber, RejectMalformed, AtValidation, AtMessage, AtHead, Welcoming, reactor
<1>2. reactor.batch # <<>> /\ reactor.conn \in Connections /\ reactor.conn \in 1 .. accepted
  BY <1>1, AtMessageFacts DEF IInv
<1>3. client[reactor.conn] # c
  BY <1>1, <1>2, ValidHead DEF RefuseTarget, RefuseNumber, RejectMalformed, reactor
<1> QED
  BY <1>2, <1>3
-----------------------------------------------------------------------------
(* Where the steps of the reactor lead *)

LEMMA ReactorMoves ==
  ASSUME IInv
  PROVE  /\ \A c \in Clients : Accept(c) =>
              reactor' = [Waiting EXCEPT !.pc = "initialise", !.slot = FreeSlot(peerFlags)]
         /\ Initialise \/ Restart => reactor' = Waiting
         /\ Failing => reactor' = Failed
         /\ Stop => reactor' = [Waiting EXCEPT !.pc = "stopping", !.slot = 1]
         /\ \A i \in DOMAIN peers : HangUp(i) =>
              reactor' = [Waiting EXCEPT !.pc = "disconnect", !.slot = i]
         /\ \A i \in DOMAIN peers : HandleClient(i) =>
              \E n \in 1 .. BatchSize :
                /\ n <= Len(inbox[peers[i]])
                /\ inbox' = [inbox EXCEPT ![peers[i]] = SubSeq(@, n + 1, Len(@))]
                /\ reactor' = [Waiting EXCEPT !.pc = "process", !.slot = i, !.conn = sessions[i],
                                              !.batch = SubSeq(inbox[peers[i]], 1, n)]
         /\ RejectMalformed => reactor' = [reactor EXCEPT !.pc = "send", !.then = "next"]
         /\ HandleLogon => reactor' = [reactor EXCEPT !.pc = "send", !.then = "validate"]
         /\ RefuseTarget \/ RefuseNumber => reactor' = [reactor EXCEPT !.pc = "disconnect"]
         /\ AcceptMessage => reactor' = Answer(reactor, Head(reactor.batch))
         /\ DisconnectSave => reactor' = [reactor EXCEPT !.pc = "remove"]
         /\ DisconnectRemove \/ Unlock("reactor") => reactor' = Resume(reactor)
         /\ StopSave => \/ reactor' = [reactor EXCEPT !.slot = reactor.slot + 1]
                        \/ reactor' = [reactor EXCEPT !.pc = "stopped"]
         /\ Transmit("reactor") =>
              reactor' = [reactor EXCEPT !.pc = "increment", !.num = session[reactor.conn].out]
         /\ Increment("reactor") =>
              reactor' = IF reactor.then = "next" THEN Resume(reactor)
                         ELSE [reactor EXCEPT !.pc = reactor.then]
         /\ Lock("reactor") => reactor' = [reactor EXCEPT !.pc = "send", !.then = "unlock"]
<1>1. /\ thread \in [Threads -> ThreadRecord] /\ "reactor" \in Threads
  BY DEF IInv, TypeOK, ThreadRecord, Threads
<1>2. /\ \A c \in Clients : Accept(c) =>
              reactor' = [Waiting EXCEPT !.pc = "initialise", !.slot = FreeSlot(peerFlags)]
      /\ Initialise \/ Restart => reactor' = Waiting
      /\ Failing => reactor' = Failed
  BY <1>1 DEF Accept, Connects, Initialise, Restart, Failing, DisconnectNothing, UseUndefined,
              AcceptDuringLookup, Fail, reactor
<1>3. /\ Stop => reactor' = [Waiting EXCEPT !.pc = "stopping", !.slot = 1]
      /\ \A i \in DOMAIN peers : HangUp(i) =>
           reactor' = [Waiting EXCEPT !.pc = "disconnect", !.slot = i]
      /\ StopSave => \/ reactor' = [reactor EXCEPT !.slot = reactor.slot + 1]
                     \/ reactor' = [reactor EXCEPT !.pc = "stopped"]
  BY <1>1 DEF Stop, HangUp, StopSave, reactor
<1>4. ASSUME NEW i \in DOMAIN peers, HandleClient(i)
      PROVE  \E n \in 1 .. BatchSize :
               /\ n <= Len(inbox[peers[i]])
               /\ inbox' = [inbox EXCEPT ![peers[i]] = SubSeq(@, n + 1, Len(@))]
               /\ reactor' = [Waiting EXCEPT !.pc = "process", !.slot = i, !.conn = sessions[i],
                                             !.batch = SubSeq(inbox[peers[i]], 1, n)]
  BY <1>1, <1>4 DEF HandleClient, reactor
<1>5. /\ RejectMalformed => reactor' = [reactor EXCEPT !.pc = "send", !.then = "next"]
      /\ HandleLogon => reactor' = [reactor EXCEPT !.pc = "send", !.then = "validate"]
      /\ RefuseTarget \/ RefuseNumber => reactor' = [reactor EXCEPT !.pc = "disconnect"]
  BY <1>1 DEF RejectMalformed, HandleLogon, RefuseTarget, RefuseNumber, CloseSession, reactor
<1>6. AcceptMessage => reactor' = Answer(reactor, Head(reactor.batch))
  BY <1>1 DEF AcceptMessage, reactor
<1>7. /\ DisconnectSave => reactor' = [reactor EXCEPT !.pc = "remove"]
      /\ DisconnectRemove \/ Unlock("reactor") => reactor' = Resume(reactor)
  BY <1>1 DEF DisconnectSave, DisconnectRemove, Unlock, reactor
<1>8. /\ Transmit("reactor") =>
           reactor' = [reactor EXCEPT !.pc = "increment", !.num = session[reactor.conn].out]
      /\ Increment("reactor") =>
           reactor' = IF reactor.then = "next" THEN Resume(reactor)
                      ELSE [reactor EXCEPT !.pc = reactor.then]
      /\ Lock("reactor") => reactor' = [reactor EXCEPT !.pc = "send", !.then = "unlock"]
  BY <1>1 DEF Transmit, Increment, Lock, reactor
<1> QED
  BY <1>2, <1>3, <1>4, <1>5, <1>6, <1>7, <1>8

LEMMA IdleNext ==
  ASSUME IInv, IdleInv, [Next]_vars
  PROVE  IdleInv'
<1> USE DEF AtMessage, AtSession
<1>1. reactor \in ThreadRecord /\ TypeOK /\ ReactorInv
  BY DEF IInv, TypeOK, ThreadRecord, Threads, reactor
<1>2. Waiting.batch = <<>> /\ Failed.batch = <<>>
  BY DEF Waiting, Failed
<1>3. Resume(reactor).batch = <<>> \/ Resume(reactor).pc = "process"
  BY <1>1, <1>2, ResumeFacts DEF ThreadRecord
<1>4. CASE Accepts \/ Initialise \/ Restart \/ Failing \/ Stop
  <2>1. \/ reactor' = Waiting \/ reactor' = Failed
        \/ reactor' = [Waiting EXCEPT !.pc = "stopping", !.slot = 1]
        \/ \E c \in Clients : Accept(c)
    BY <1>4, ReactorMoves DEF Accepts
  <2>2. \A i : [Waiting EXCEPT !.pc = "initialise", !.slot = i].batch = <<>>
    BY DEF Waiting
  <2>3. [Waiting EXCEPT !.pc = "stopping", !.slot = 1].batch = <<>>
    BY DEF Waiting
  <2>4. (\E c \in Clients : Accept(c)) => reactor'.batch = <<>>
    BY <2>2, ReactorMoves
  <2>5. reactor'.batch = <<>>
    BY <1>2, <2>1, <2>3, <2>4
  <2> QED
    BY <2>5 DEF IdleInv
<1>5. CASE Reading \/ HangsUp \/ RejectMalformed \/ HandleLogon \/ RefuseTarget \/ RefuseNumber
           \/ DisconnectSave
  <2>1. reactor'.pc \in {"process", "disconnect", "send", "remove"}
    BY <1>1, <1>5, ReactorPcs
  <2> QED
    BY <2>1 DEF IdleInv
<1>6. CASE AcceptMessage
  <2>1. reactor' = Answer(reactor, Head(reactor.batch))
    BY <1>6, ReactorMoves
  <2>2. reactor' = Resume(reactor) \/ reactor'.pc \in {"send", "lock"}
    BY <1>1, <2>1 DEF Answer, ThreadRecord
  <2> QED
    BY <1>3, <2>2 DEF IdleInv
<1>7. CASE DisconnectRemove \/ Unlock("reactor")
  BY <1>3, <1>7, ReactorMoves DEF IdleInv
<1>8. CASE Transmit("reactor") \/ Lock("reactor")
  <2>1. reactor'.pc \in {"increment", "send"}
    BY <1>1, <1>8, ReactorMoves DEF ThreadRecord
  <2> QED
    BY <2>1 DEF IdleInv
<1>9. CASE Increment("reactor")
  <2>1. reactor.then \in {"next", "validate", "disconnect", "unlock"}
    BY <1>1, <1>9 DEF Increment, ReactorInv, reactor
  <2>2. reactor' = Resume(reactor) \/ reactor'.pc \in {"validate", "disconnect", "unlock"}
    BY <1>1, <1>9, <2>1, ReactorMoves DEF ThreadRecord
  <2> QED
    BY <1>3, <2>2 DEF IdleInv
<1>10. CASE StopSave
  <2>1. reactor.pc = "stopping"
    BY <1>10 DEF StopSave, reactor
  <2>2. reactor.batch = <<>>
    BY <2>1 DEF IdleInv
  <2>3. reactor'.batch = <<>>
    BY <1>1, <1>10, <2>2, ReactorMoves DEF ThreadRecord
  <2> QED
    BY <2>3 DEF IdleInv
<1>11. CASE reactor' = reactor
  BY <1>11 DEF IdleInv
<1> QED
  BY <1>1, <1>4, <1>5, <1>6, <1>7, <1>8, <1>9, <1>10, <1>11, ReactorSteps DEF ReactorWorks, Sending
-----------------------------------------------------------------------------
(* Connections *)

LEMMA ClientKept ==
  ASSUME IInv, [Next]_vars
  PROVE  /\ accepted \in Nat /\ accepted' \in Nat /\ accepted <= accepted'
         /\ \A k \in 1 .. accepted : client'[k] = client[k]
<1>1. CASE Accepts
  <2>1. PICK c \in Clients : Accept(c)
    BY <1>1 DEF Accepts
  <2>2. /\ accepted' = accepted + 1 /\ client' = [client EXCEPT ![accepted + 1] = c]
        /\ accepted \in Nat
    BY <2>1, SlotFacts DEF Accept, Connects, IInv
  <2> QED
    BY <2>2 DEF IInv, TypeOK
<1>2. CASE accepted' = accepted /\ client' = client
  BY <1>2, SlotFacts DEF IInv
<1> QED
  BY <1>1, <1>2, Frames DEF Framed, TableStep, DisconnectRemove, Restart

LEMMA LinkNext ==
  ASSUME IInv, LinkInv, [Next]_vars
  PROVE  LinkInv'
<1>1. /\ accepted \in Nat /\ accepted' \in Nat /\ accepted <= accepted'
      /\ \A k \in 1 .. accepted : client'[k] = client[k]
  BY ClientKept
<1>2. link \in [Clients -> 0 .. MaxConnections]
      /\ stage \in [Clients -> {"away", "connected", "active", "leaving"}]
  BY DEF IInv, TypeOK
<1>3. ASSUME NEW c \in Clients
      PROVE  /\ link'[c] # 0 => link'[c] \in 1 .. accepted' /\ client'[link'[c]] = c
             /\ link'[c] = 0 <=> stage'[c] = "away"
  <2>1. /\ link[c] # 0 => link[c] \in 1 .. accepted /\ client[link[c]] = c
        /\ link[c] = 0 <=> stage[c] = "away"
    BY DEF LinkInv
  <2>2. CASE link'[c] = link[c] /\ (stage'[c] = "away" <=> stage[c] = "away")
    BY <1>1, <2>1, <2>2
  <2>3. ASSUME NEW d \in Clients, Accept(d)
        PROVE  /\ link'[c] # 0 => link'[c] \in 1 .. accepted' /\ client'[link'[c]] = c
               /\ link'[c] = 0 <=> stage'[c] = "away"
    <3>1. /\ link' = [link EXCEPT ![d] = accepted + 1] /\ stage' = [stage EXCEPT ![d] = "connected"]
          /\ accepted' = accepted + 1 /\ client' = [client EXCEPT ![accepted + 1] = d]
          /\ accepted + 1 \in Connections
      BY <1>1, <2>3, SlotFacts DEF Accept, Connects, IInv, Connections
    <3>2. CASE c = d
      BY <1>1, <1>2, <3>1, <3>2 DEF IInv, TypeOK
    <3>3. CASE c # d
      BY <1>2, <2>2, <3>1, <3>3
    <3> QED
      BY <3>2, <3>3
  <2>4. ASSUME NEW d \in Clients, ClientLeaves(d)
        PROVE  /\ link'[c] # 0 => link'[c] \in 1 .. accepted' /\ client'[link'[c]] = c
               /\ link'[c] = 0 <=> stage'[c] = "away"
    <3>1. link' = [link EXCEPT ![d] = 0] /\ stage' = [stage EXCEPT ![d] = "away"]
      BY <2>4 DEF ClientLeaves
    <3> QED
      BY <1>2, <2>2, <3>1
  <2>5. ASSUME NEW d \in Clients, NEW kind, ClientSends(d, kind)
        PROVE  link'[c] = link[c] /\ (stage'[c] = "away" <=> stage[c] = "away")
    <3>1. /\ link' = link /\ stage' = [stage EXCEPT ![d] = StageAfter(kind)]
          /\ stage[d] \in {"connected", "active"}
      BY <2>5 DEF ClientSends, Legal
    <3> QED
      BY <1>2, <3>1 DEF StageAfter
  <2> QED
    BY <2>2, <2>3, <2>4, <2>5, Frames DEF Framed, ClientStep, Accepts, ClientMoves
<1>4. \A k \in refused' : k <= accepted'
  <2>1. CASE RefuseNumber
    <3>1. reactor.pc \in AtMessage
      BY <2>1 DEF RefuseNumber, AtValidation, AtMessage, reactor
    <3>2. session[reactor.conn].tcp = reactor.conn /\ reactor.conn \in 1 .. accepted
      BY <3>1, AtMessageFacts DEF IInv
    <3>3. refused' = refused \cup {reactor.conn}
      BY <2>1, <3>2 DEF RefuseNumber, reactor
    <3>4. \A k \in refused : k \in Nat
      BY ConstantsAssumption DEF IInv, TypeOK, Connections
    <3> QED
      BY <1>1, <3>2, <3>3, <3>4 DEF LinkInv
  <2>2. CASE refused' = refused
    <3>1. \A k \in refused : k \in Nat
      BY ConstantsAssumption DEF IInv, TypeOK, Connections
    <3> QED
      BY <1>1, <2>2, <3>1 DEF LinkInv
  <2> QED
    BY <2>1, <2>2, Frames DEF Framed
<1> QED
  BY <1>3, <1>4 DEF LinkInv

LEMMA BoxNext ==
  ASSUME IInv, LinkInv, BoxInv, [Next]_vars
  PROVE  BoxInv'
<1>1. /\ accepted \in Nat /\ accepted' \in Nat /\ accepted <= accepted'
      /\ inbox \in [Connections -> Seq(Message)] /\ link \in [Clients -> 0 .. MaxConnections]
  BY ClientKept DEF IInv, TypeOK
<1>2. \A i \in DOMAIN peers : peers[i] \in 1 .. accepted
  BY SlotFacts DEF IInv, TableInv
<1>3. ASSUME NEW k \in Connections, k > accepted PROVE inbox'[k] = <<>>
  <2>1. inbox[k] = <<>> /\ k \in Nat
    BY <1>3, ConstantsAssumption DEF BoxInv, Connections
  <2>2. CASE ClientMoves
    <3>1. CASE \E d \in Clients : ClientLeaves(d)
      BY <2>1, <3>1 DEF ClientLeaves, wireVars
    <3>2. ASSUME NEW d \in Clients, NEW kind, ClientSends(d, kind) PROVE inbox'[k] = <<>>
      <4>1. link[d] # 0
        BY <3>2 DEF ClientSends, Legal, LinkInv
      <4>2. link[d] # k
        BY <1>1, <1>3, <2>1, <4>1 DEF LinkInv
      <4> QED
        BY <1>1, <2>1, <3>2, <4>2 DEF ClientSends
    <3> QED
      BY <2>2, <3>1, <3>2 DEF ClientMoves
  <2>3. CASE Reading
    <3>1. PICK i \in DOMAIN peers : HandleClient(i)
      BY <2>3 DEF Reading
    <3>2. PICK n : inbox' = [inbox EXCEPT ![peers[i]] = SubSeq(@, n + 1, Len(@))]
      BY <3>1 DEF HandleClient
    <3> QED
      BY <1>1, <1>2, <1>3, <2>1, <3>2
  <2>4. CASE DisconnectRemove
    <3>1. reactor.slot \in DOMAIN peers
      BY <2>4 DEF DisconnectRemove, IInv, ReactorInv, TableInv, reactor
    <3> QED
      BY <1>1, <1>2, <1>3, <2>1, <2>4, <3>1 DEF DisconnectRemove, reactor
  <2>5. CASE Restart
    BY <2>5 DEF Restart
  <2>6. CASE inbox' = inbox
    BY <2>1, <2>6
  <2> QED
    BY <2>2, <2>3, <2>4, <2>5, <2>6, Frames DEF Framed, InboxStep
<1>4. \A k \in Connections : k > accepted' => k > accepted
  BY <1>1, ConstantsAssumption DEF Connections
<1> QED
  BY <1>3, <1>4 DEF BoxInv

LEMMA FailedNext ==
  ASSUME IInv, FailedInv, [Next]_vars
  PROVE  FailedInv'
<1>1. /\ thread \in [Threads -> ThreadRecord] /\ reactor \in ThreadRecord /\ TypeOK /\ ReactorInv
  BY DEF IInv, TypeOK, ThreadRecord, Threads, reactor
<1>2. CASE Failing
  BY <1>2 DEF Failing, DisconnectNothing, UseUndefined, AcceptDuringLookup, Fail, FailedInv, Failed, Waiting, Threads,
              processor
<1>3. CASE Restart
  BY <1>3 DEF Restart, FailedInv, Waiting, Threads, reactor
<1>4. CASE Accepts \/ Initialise \/ Reading \/ HangsUp \/ Stop \/ StopSave \/ RejectMalformed
           \/ HandleLogon \/ RefuseTarget \/ RefuseNumber \/ AcceptMessage \/ DisconnectSave
           \/ DisconnectRemove \/ Sending("reactor")
  <2>1. reactor'.pc # "failed"
    BY <1>1, <1>4, ReactorPcs
  <2> QED
    BY <2>1 DEF FailedInv
<1>5. CASE reactor' = reactor
  <2>1. CASE processor' = processor
    BY <1>5, <2>1 DEF FailedInv
  <2>2. CASE TakeReport \/ Sending("processor")
    BY <1>5, <2>2 DEF TakeReport, Sending, Transmit, Increment, Lock, Unlock, FailedInv, processor
  <2> QED
    BY <1>1, <1>2, <1>3, <2>1, <2>2, ProcessorSteps
<1> QED
  BY <1>1, <1>2, <1>3, <1>4, <1>5, ReactorSteps DEF ReactorWorks

(* What a step that keeps c clean does to the connection of c *)
LEMMA ConnectionNext ==
  ASSUME IInv, NumbersInv, [Next]_vars, NEW c \in Clients, clean'[c]
  PROVE  ConnectionInv(c)'
<1>1. clean[c] /\ ConnectionInv(c) /\ AnswerInv(c)
  BY CleanKept DEF NumbersInv, CleanInv
<1>2. /\ \A k \in Connections : client[k] = c /\ open[k] => link[c] = k
      /\ link[c] # 0 /\ ~open[link[c]] => stage[c] = "leaving"
      /\ \A i \in DOMAIN sessions :
           client[sessions[i]] = c /\ sessionFlags[i] => open[sessions[i]]
  BY <1>1 DEF ConnectionInv
<1>3. /\ open \in [Connections -> BOOLEAN] /\ client \in [Connections -> Clients \cup {NoClient}]
      /\ link \in [Clients -> 0 .. MaxConnections] /\ accepted \in Nat
      /\ stage \in [Clients -> {"away", "connected", "active", "leaving"}]
  BY SlotFacts DEF IInv, TypeOK
<1>4. \A i \in DOMAIN sessions : sessions[i] \in Connections /\ sessions[i] \in 1 .. accepted
  BY SlotFacts DEF IInv
<1>5. link[c] # 0 => link[c] \in 1 .. accepted /\ link[c] \in Connections /\ client[link[c]] = c
  BY SlotFacts DEF NumbersInv, LinkInv, IInv, Connections
<1>6. ASSUME NEW d \in Clients, Accept(d) PROVE ConnectionInv(c)'
  <2>1. PICK i \in Connections, k \in Connections : TakesSlot(i, k)
    BY <1>6, AcceptFacts DEF IInv
  <2>2. /\ k = accepted + 1 /\ link[d] = 0
        /\ client' = [client EXCEPT ![k] = d] /\ open' = [open EXCEPT ![k] = TRUE]
        /\ link' = [link EXCEPT ![d] = k] /\ stage' = [stage EXCEPT ![d] = "connected"]
    BY <1>6, <2>1 DEF Accept, Connects, TakesSlot
  <2>3. \A x \in Connections : client'[x] = c /\ open'[x] => link'[c] = x
    <3> TAKE x \in Connections
    <3>1. x # 0
      BY ConstantsAssumption DEF Connections
    <3> QED
      BY <1>2, <1>3, <2>2, <3>1
  <2>4. link'[c] # 0 /\ ~open'[link'[c]] => stage'[c] = "leaving"
    <3>1. link[c] # k
      BY <1>3, <1>5, <2>1, <2>2
    <3> QED
      BY <1>2, <1>3, <1>5, <2>2, <3>1
  <2>5. \A j \in DOMAIN sessions' :
          client'[sessions'[j]] = c /\ sessionFlags'[j] => open'[sessions'[j]]
    <3> TAKE j \in DOMAIN sessions'
    <3>1. CASE j = i
      BY <1>3, <2>1, <2>2, <3>1 DEF TakesSlot
    <3>2. CASE j # i
      <4>1. j \in DOMAIN sessions /\ sessions'[j] = sessions[j] /\ sessionFlags'[j] = sessionFlags[j]
        BY <2>1, <3>2 DEF TakesSlot
      <4>2. sessions[j] # k
        BY <1>3, <1>4, <2>2, <4>1
      <4> QED
        BY <1>2, <1>3, <1>4, <2>2, <4>1, <4>2
    <3> QED
      BY <3>1, <3>2
  <2> QED
    BY <2>3, <2>4, <2>5 DEF ConnectionInv
<1>7. ASSUME NEW d \in Clients, ClientLeaves(d) PROVE ConnectionInv(c)'
  <2>1. /\ client' = client /\ open' = open /\ sessions' = sessions /\ sessionFlags' = sessionFlags
        /\ link' = [link EXCEPT ![d] = 0] /\ stage' = [stage EXCEPT ![d] = "away"]
    BY <1>7 DEF ClientLeaves, wireVars, tableVars
  <2>2. d = c => ~open[link[c]]
    BY <1>7, CleanKept
  <2>3. \A x \in Connections : client'[x] = c /\ open'[x] => link'[c] = x
    BY <1>2, <1>3, <2>1, <2>2
  <2>4. link'[c] # 0 /\ ~open'[link'[c]] => stage'[c] = "leaving"
    BY <1>2, <1>3, <2>1
  <2> QED
    BY <1>2, <2>1, <2>3, <2>4 DEF ConnectionInv
<1>8. ASSUME NEW d \in Clients, NEW kind, ClientSends(d, kind) PROVE ConnectionInv(c)'
  <2>1. /\ client' = client /\ open' = open /\ sessions' = sessions /\ sessionFlags' = sessionFlags
        /\ link' = link /\ stage' = [stage EXCEPT ![d] = StageAfter(kind)]
        /\ stage[d] \in {"connected", "active"}
    BY <1>8 DEF ClientSends, Legal, tableVars
  <2>2. link'[c] # 0 /\ ~open'[link'[c]] => stage'[c] = "leaving"
    BY <1>2, <1>3, <2>1
  <2> QED
    BY <1>2, <2>1, <2>2 DEF ConnectionInv
<1>9. CASE RefuseTarget \/ RefuseNumber
  <2>1. reactor.conn \in Connections /\ client[reactor.conn] # c
    BY <1>1, <1>9, NeverRefused
  <2>2. reactor.pc \in AtMessage
    BY <1>9 DEF RefuseTarget, RefuseNumber, AtValidation, AtMessage, reactor
  <2>3. session[reactor.conn].tcp = reactor.conn
    BY <2>2, AtMessageFacts DEF IInv
  <2>4. /\ open' = [open EXCEPT ![reactor.conn] = FALSE] /\ client' = client /\ link' = link
        /\ stage' = stage /\ sessions' = sessions /\ sessionFlags' = sessionFlags
    BY <1>9, <2>3 DEF RefuseTarget, RefuseNumber, CloseSession, reactor, tableVars, clientVars
  <2>5. \A x \in Connections : client[x] = c => open'[x] = open[x]
    BY <1>3, <2>1, <2>4
  <2> QED
    BY <1>2, <1>4, <1>5, <2>4, <2>5 DEF ConnectionInv
<1>10. CASE DisconnectRemove
  <2> DEFINE i == reactor.slot
             k == sessions[reactor.slot]
  <2>1. reactor.pc = "remove" /\ i \in DOMAIN sessions
    BY <1>10 DEF DisconnectRemove, IInv, ReactorInv, reactor
  <2>2. k \in Connections /\ session[k].tcp = k /\ peers[i] = k
    BY <1>4, <2>1 DEF IInv, TcpInv, TableInv
  <2>3. /\ sessionFlags' = [sessionFlags EXCEPT ![i] = FALSE] /\ sessions' = sessions
        /\ open' = [open EXCEPT ![k] = FALSE] /\ client' = client /\ link' = link /\ stage' = stage
    BY <1>3, <1>10, <2>2 DEF DisconnectRemove, reactor, clientVars
  <2>4. ASSUME client[k] = c PROVE stage[c] = "leaving"
    <3>1. reactor.batch # <<>>
      BY <1>1, <2>1, <2>4 DEF AnswerInv
    <3>2. reactor.conn = k
      BY <3>1 DEF IInv, ReactorInv
    <3> QED
      BY <1>1, <2>1, <2>4, <3>1, <3>2 DEF AnswerInv, Leaving
  <2>5. DOMAIN sessionFlags = DOMAIN sessions
    BY SlotFacts DEF IInv
  <2>6. \A j \in DOMAIN sessions : j # i => sessions[j] # k /\ sessionFlags'[j] = sessionFlags[j]
    BY <2>1, <2>3, <2>5 DEF IInv, TableInv
  <2>7. ~sessionFlags'[i]
    BY <2>1, <2>3, <2>5
  <2> HIDE DEF i, k
  <2>8. \A x \in Connections : open'[x] = IF x = k THEN FALSE ELSE open[x]
    BY <1>3, <2>2, <2>3
  <2>9. \A x \in Connections : client'[x] = c /\ open'[x] => link'[c] = x
    BY <1>2, <2>3, <2>8
  <2>10. link'[c] # 0 /\ ~open'[link'[c]] => stage'[c] = "leaving"
    BY <1>2, <1>5, <2>3, <2>4, <2>8
  <2>11. \A j \in DOMAIN sessions' :
          client'[sessions'[j]] = c /\ sessionFlags'[j] => open'[sessions'[j]]
    BY <1>2, <1>4, <2>3, <2>6, <2>7, <2>8
  <2> QED
    BY <2>9, <2>10, <2>11 DEF ConnectionInv
<1>11. CASE Restart
  <2>1. /\ link' = link /\ stage' = stage /\ open' = [k \in Connections |-> FALSE]
        /\ sessions' = <<>>
    BY <1>11 DEF Restart
  <2>2. link[c] # 0 => stage[c] = "leaving"
    BY <1>2, <1>11, CleanKept
  <2> QED
    BY <2>1, <2>2 DEF ConnectionInv
<1>12. CASE UNCHANGED <<client, open, link, stage, sessions, sessionFlags>>
  BY <1>2, <1>12 DEF ConnectionInv
<1> QED
  BY <1>6, <1>7, <1>8, <1>9, <1>10, <1>11, <1>12, Frames
     DEF Framed, TableStep, OpenStep, ClientStep, Accepts, ClientMoves, tableVars

(* No connection of c is refused. *)
LEMMA RefusedNext ==
  ASSUME IInv, NumbersInv, [Next]_vars, NEW c \in Clients, clean'[c]
  PROVE  \A k \in refused' : client'[k] # c
<1>1. /\ clean[c] /\ accepted \in Nat
      /\ \A k \in refused : client[k] # c /\ k <= accepted /\ k \in Connections /\ k \in Nat
  <2>1. clean[c] /\ accepted \in Nat
    BY CleanKept, SlotFacts DEF IInv
  <2>2. \A k \in refused : client[k] # c /\ k <= accepted
    BY <2>1 DEF NumbersInv, CleanInv, LinkInv
  <2>3. \A k \in refused : k \in Connections /\ k \in Nat
    BY ConstantsAssumption DEF IInv, TypeOK, Connections
  <2> QED
    BY <2>1, <2>2, <2>3
<1>2. CASE RefuseNumber
  <2>1. reactor.pc \in AtMessage
    BY <1>2 DEF RefuseNumber, AtValidation, AtMessage, reactor
  <2>2. session[reactor.conn].tcp = reactor.conn /\ client[reactor.conn] # c
    BY <1>1, <1>2, <2>1, AtMessageFacts, NeverRefused DEF IInv
  <2>3. refused' = refused \cup {reactor.conn} /\ client' = client
    BY <1>2, <2>2 DEF RefuseNumber, CloseSession, reactor
  <2> QED
    BY <1>1, <2>2, <2>3
<1>3. CASE Accepts
  <2>1. PICK d \in Clients : /\ client' = [client EXCEPT ![accepted + 1] = d] /\ refused' = refused
    BY <1>3 DEF Accepts, Accept
  <2> QED
    BY <1>1, <2>1 DEF IInv, TypeOK
<1>4. CASE refused' = refused /\ client' = client
  BY <1>1, <1>4
<1> QED
  BY <1>2, <1>3, <1>4, Frames DEF Framed, TableStep, Accepts, Accept, Connects, DisconnectRemove, Restart
-----------------------------------------------------------------------------
(* What is unread *)

LEMMA Joining ==
  ASSUME NEW b \in Seq(Message), NEW x \in Seq(Message)
  PROVE  /\ b \o x \in Seq(Message) /\ <<>> \o x = x
         /\ \A m \in Message : b \o Append(x, m) = Append(b \o x, m)
         /\ b # <<>> => Tail(b \o x) = Tail(b) \o x
         /\ \A n \in 1 .. Len(x) : SubSeq(x, 1, n) \o SubSeq(x, n + 1, Len(x)) = x
<1>1. b \o x \in Seq(Message) /\ <<>> \o x = x
  BY ConcatProperties, ConcatEmptySeq
<1>2. ASSUME NEW m \in Message PROVE b \o Append(x, m) = Append(b \o x, m)
  <2>1. Append(x, m) = x \o <<m>> /\ Append(b \o x, m) = (b \o x) \o <<m>> /\ <<m>> \in Seq(Message)
    BY <1>1, AppendIsConcat
  <2> QED
    BY <2>1, ConcatAssociative
<1>3. ASSUME b # <<>> PROVE Tail(b \o x) = Tail(b) \o x
  <2> DEFINE y == b \o x
             z == Tail(b) \o x
  <2>1. Len(b) \in Nat /\ Len(x) \in Nat /\ Len(b) >= 1 /\ Tail(b) \in Seq(Message)
        /\ Len(Tail(b)) = Len(b) - 1 /\ \A i \in 1 .. Len(Tail(b)) : Tail(b)[i] = b[i + 1]
    BY <1>3, HeadTailProperties
  <2>2. /\ y \in Seq(Message) /\ Len(y) = Len(b) + Len(x)
        /\ \A i \in 1 .. Len(b) + Len(x) : y[i] = IF i <= Len(b) THEN b[i] ELSE x[i - Len(b)]
    BY ConcatProperties
  <2>3. /\ z \in Seq(Message) /\ Len(z) = Len(b) - 1 + Len(x)
        /\ \A i \in 1 .. Len(b) - 1 + Len(x) :
             z[i] = IF i <= Len(b) - 1 THEN b[i + 1] ELSE x[i - (Len(b) - 1)]
    <3>1. /\ z \in Seq(Message) /\ Len(z) = Len(Tail(b)) + Len(x)
          /\ \A i \in 1 .. Len(Tail(b)) + Len(x) :
               z[i] = IF i <= Len(Tail(b)) THEN Tail(b)[i] ELSE x[i - Len(Tail(b))]
      BY <2>1, ConcatProperties
    <3> HIDE DEF z
    <3> QED
      BY <2>1, <3>1
  <2>4. y # <<>>
    <3> HIDE DEF y
    <3> QED
      BY <2>1, <2>2
  <2>5. Tail(y) \in Seq(Message) /\ Len(Tail(y)) = Len(y) - 1
        /\ \A i \in 1 .. Len(Tail(y)) : Tail(y)[i] = y[i + 1]
    BY <2>2, <2>4, HeadTailProperties
  <2> HIDE DEF y, z
  <2>6. Len(Tail(y)) = Len(z)
    BY <2>1, <2>2, <2>3, <2>5
  <2>7. ASSUME NEW i \in 1 .. Len(z) PROVE Tail(y)[i] = z[i]
    <3>1. i \in Nat /\ i \in 1 .. Len(b) - 1 + Len(x) /\ i + 1 \in 1 .. Len(b) + Len(x)
      BY <2>1, <2>3
    <3>2. Tail(y)[i] = y[i + 1]
      BY <2>5, <2>6
    <3>3. (i + 1) - Len(b) = i - (Len(b) - 1) /\ (i + 1 <= Len(b) <=> i <= Len(b) - 1)
      BY <2>1, <3>1
    <3>4. y[i + 1] = IF i <= Len(b) - 1 THEN b[i + 1] ELSE x[i - (Len(b) - 1)]
      BY <2>2, <3>1, <3>3
    <3> QED
      BY <2>3, <3>1, <3>2, <3>4
  <2>8. Tail(y) = z
    BY <2>3, <2>5, <2>6, <2>7, SeqEqual
  <2> QED
    BY <2>8 DEF y, z
<1>4. ASSUME NEW n \in 1 .. Len(x) PROVE SubSeq(x, 1, n) \o SubSeq(x, n + 1, Len(x)) = x
  <2>1. Len(x) \in Nat /\ n \in 0 .. Len(x) /\ 1 \in 1 .. Len(x) + 1 /\ Len(x) \in n .. Len(x)
    OBVIOUS
  <2>2. SubSeq(x, 1, n) \o SubSeq(x, n + 1, Len(x)) = SubSeq(x, 1, Len(x))
    BY <2>1, ConcatAdjacentSubSeq
  <2> QED
    BY <2>2, SubSeqFull
<1> QED
  BY <1>1, <1>2, <1>3, <1>4

(* Resume takes the first message off the batch. *)
LEMMA RestOfResume ==
  ASSUME NEW r \in ThreadRecord, r.batch # <<>>, NEW k, NEW box \in Seq(Message)
  PROVE  Rest(Resume(r), k, box) = IF r.conn = k THEN Tail(r.batch) \o box ELSE box
<1>1. r.batch \in Seq(Message)
  BY DEF ThreadRecord
<1>2. CASE Len(r.batch) > 1
  <2>1. /\ Resume(r).batch = Tail(r.batch) /\ Resume(r).conn = r.conn /\ Resume(r).pc = "process"
    BY <1>2 DEF Resume, ThreadRecord
  <2>2. Tail(r.batch) # <<>>
    <3> DEFINE t == Tail(r.batch)
               n == Len(r.batch)
    <3>1. n > 1 /\ n \in Nat /\ Len(t) = n - 1 /\ t \in Seq(Message)
      BY <1>1, <1>2
    <3> HIDE DEF t, n
    <3>2. t # <<>>
      BY <3>1
    <3> QED
      BY <3>2 DEF t
  <2> QED
    BY <2>1, <2>2 DEF Rest, Uncounted, AtHead
<1>3. CASE ~(Len(r.batch) > 1)
  <2>1. Resume(r).batch = <<>>
    BY <1>3 DEF Resume, Waiting
  <2>2. Tail(r.batch) = <<>>
    <3> DEFINE t == Tail(r.batch)
               n == Len(r.batch)
    <3>1. ~(n > 1) /\ n \in Nat /\ n >= 1 /\ Len(t) = n - 1 /\ t \in Seq(Message)
      BY <1>1, <1>3
    <3> HIDE DEF t, n
    <3>2. t = <<>>
      BY <3>1
    <3> QED
      BY <3>2 DEF t
  <2> QED
    BY <1>1, <2>1, <2>2, Joining DEF Rest
<1> QED
  BY <1>2, <1>3

(* A counted message is taken off the unread ones. *)
LEMMA AcceptUnread ==
  ASSUME IInv, AcceptMessage, NEW k \in Connections
  PROVE  /\ Reads(k) => Unread(k)' = Tail(Unread(k))
         /\ ~Reads(k) => Unread(k)' = Unread(k)
<1>1. /\ reactor \in ThreadRecord /\ reactor.batch \in Seq(Message) /\ inbox[k] \in Seq(Message)
  BY DEF IInv, TypeOK, ThreadRecord, Threads, reactor
<1>2. Unread(k)' = Rest(reactor', k, inbox'[k])
  BY DEF Unread, Rest, Uncounted, AtHead, Welcoming
<1>3. /\ inbox' = inbox /\ reactor.pc \in AtMessage /\ AtHead(reactor)
      /\ reactor' = Answer(reactor, Head(reactor.batch))
  BY ReactorMoves DEF AcceptMessage, AtValidation, AtMessage, AtHead, Welcoming, wireVars, reactor
<1>4. reactor.batch # <<>> /\ reactor.conn = sessions[reactor.slot]
  BY <1>3, AtMessageFacts DEF IInv
<1>5. Unread(k)' = IF reactor.conn = k THEN Tail(reactor.batch) \o inbox[k] ELSE inbox[k]
  <2>1. CASE reactor' = Resume(reactor)
    <3>1. Unread(k)' = Rest(Resume(reactor), k, inbox[k])
      BY <1>2, <1>3, <2>1
    <3>2. Rest(Resume(reactor), k, inbox[k]) =
            IF reactor.conn = k THEN Tail(reactor.batch) \o inbox[k] ELSE inbox[k]
      BY <1>1, <1>4, RestOfResume
    <3> QED
      BY <3>1, <3>2
  <2>2. CASE reactor' # Resume(reactor)
    <3>1. /\ reactor'.batch = reactor.batch /\ reactor'.conn = reactor.conn
          /\ \/ reactor'.pc = "send" /\ reactor'.then \in {"next", "disconnect"}
             \/ reactor'.pc = "lock"
      BY <1>1, <1>3, <1>4, <2>2 DEF Answer, ThreadRecord
    <3>2. ~AtHead(reactor')
      BY <3>1 DEF AtHead, Welcoming
    <3> QED
      BY <1>2, <1>3, <1>4, <3>1, <3>2 DEF Rest, Uncounted
  <2> QED
    BY <2>1, <2>2
<1>6. ASSUME Reads(k) PROVE Unread(k)' = Tail(Unread(k))
  <2>1. Unread(k) = reactor.batch \o inbox[k]
    BY <1>3, <1>6 DEF Unread, Rest, Reads, Uncounted
  <2>2. Tail(reactor.batch \o inbox[k]) = Tail(reactor.batch) \o inbox[k]
    BY <1>1, <1>4, Joining
  <2>3. Unread(k)' = Tail(reactor.batch) \o inbox[k]
    BY <1>5, <1>6 DEF Reads
  <2> QED
    BY <2>1, <2>2, <2>3
<1>7. ASSUME ~Reads(k) PROVE Unread(k)' = Unread(k)
  <2>1. Unread(k) = inbox[k] /\ reactor.conn # k
    BY <1>4, <1>7 DEF Unread, Rest, Reads
  <2> QED
    BY <1>5, <2>1
<1> QED
  BY <1>6, <1>7

(* What a client sends is unread. *)
LEMMA SendUnread ==
  ASSUME IInv, NEW d \in Clients, NEW kind \in SentKinds, ClientSends(d, kind), NEW k \in Connections
  PROVE  /\ link[d] = k => Unread(k)' = Append(Unread(k), [kind |-> kind, seq |-> clientOut[d]])
         /\ link[d] # k => Unread(k)' = Unread(k)
<1> DEFINE m == [kind |-> kind, seq |-> clientOut[d]]
<1>1. /\ reactor.batch \in Seq(Message) /\ inbox \in [Connections -> Seq(Message)]
      /\ inbox[k] \in Seq(Message) /\ m \in Message
  BY ConstantsAssumption DEF IInv, TypeOK, Threads, reactor, Message
<1>2. Unread(k)' = Rest(reactor', k, inbox'[k])
  BY DEF Unread, Rest, Uncounted, AtHead, Welcoming
<1>3. reactor' = reactor /\ inbox' = [inbox EXCEPT ![link[d]] = Append(@, m)]
  BY DEF ClientSends, reactor
<1> HIDE DEF m
<1>4. CASE link[d] # k
  BY <1>1, <1>2, <1>3, <1>4 DEF Unread
<1>5. CASE link[d] = k
  <2>1. inbox'[k] = Append(inbox[k], m)
    BY <1>1, <1>3, <1>5
  <2>2. CASE Reads(k)
    <3>1. Uncounted(reactor) \in Seq(Message)
      BY <1>1, <2>2 DEF Uncounted, Reads
    <3>2. Unread(k)' = Uncounted(reactor) \o Append(inbox[k], m)
      BY <1>2, <1>3, <2>1, <2>2 DEF Rest, Reads
    <3>3. Unread(k) = Uncounted(reactor) \o inbox[k]
      BY <2>2 DEF Unread, Rest, Reads
    <3> QED
      BY <1>1, <1>5, <3>1, <3>2, <3>3, Joining DEF m
  <2>3. CASE ~Reads(k)
    <3>1. Unread(k) = inbox[k] /\ Unread(k)' = Append(inbox[k], m)
      BY <1>2, <1>3, <2>1, <2>3 DEF Unread, Rest, Reads
    <3> QED
      BY <1>5, <3>1 DEF m
  <2> QED
    BY <2>2, <2>3
<1> QED
  BY <1>4, <1>5

(* Other steps leave the unread messages of connection k. *)
LEMMA UnreadKept ==
  ASSUME IInv, IdleInv, [Next]_vars, ~Restart, ~Failing, NEW k \in Connections,
         Reads(k) => ~(RejectMalformed \/ RefuseTarget \/ RefuseNumber),
         ~(DisconnectRemove /\ sessions[reactor.slot] = k),
         \A d \in Clients, kind \in SentKinds : ~(ClientSends(d, kind) /\ link[d] = k),
         ~(AcceptMessage /\ Reads(k))
  PROVE  Unread(k)' = Unread(k)
<1>0. /\ \A d \in Clients, kind \in SentKinds : ClientSends(d, kind) => link[d] # k
      /\ AcceptMessage => ~Reads(k)
  OBVIOUS
<1>1. /\ TypeOK /\ reactor \in ThreadRecord /\ inbox \in [Connections -> Seq(Message)]
      /\ reactor.batch \in Seq(Message) /\ inbox[k] \in Seq(Message)
  BY DEF IInv, TypeOK, ThreadRecord, Threads, reactor
<1>2. Unread(k)' = Rest(reactor', k, inbox'[k])
  BY DEF Unread, Rest, Uncounted, AtHead, Welcoming
<1>3. \A r : r.batch = <<>> => Rest(r, k, inbox[k]) = inbox[k]
  BY DEF Rest
<1>4. ~Reads(k) => Unread(k) = inbox[k]
  BY DEF Unread, Rest, Reads
<1>5. Reads(k) => Unread(k) = Uncounted(reactor) \o inbox[k]
  BY DEF Unread, Rest, Reads
<1>6. CASE ClientMoves
  <2>1. CASE \E d \in Clients, kind \in SentKinds : ClientSends(d, kind)
    BY <1>0, <2>1, SendUnread
  <2>2. CASE \E d \in Clients : ClientLeaves(d)
    <3>1. reactor' = reactor /\ inbox' = inbox
      BY <2>2 DEF ClientLeaves, wireVars, reactor
    <3> QED
      BY <1>2, <3>1 DEF Unread
  <2> QED
    BY <1>6, <2>1, <2>2 DEF ClientMoves
<1>7. CASE Reading
  <2>1. PICK i \in DOMAIN peers : HandleClient(i)
    BY <1>7 DEF Reading
  <2>2. PICK n \in 1 .. BatchSize :
          /\ n <= Len(inbox[peers[i]])
          /\ inbox' = [inbox EXCEPT ![peers[i]] = SubSeq(@, n + 1, Len(@))]
          /\ reactor' = [Waiting EXCEPT !.pc = "process", !.slot = i, !.conn = sessions[i],
                                        !.batch = SubSeq(inbox[peers[i]], 1, n)]
    BY <2>1, ReactorMoves
  <2>3. reactor.pc = "poll"
    BY <2>1 DEF HandleClient, reactor
  <2>4. Unread(k) = inbox[k]
    BY <1>4, <2>3 DEF IdleInv, AtMessage, AtSession, Reads
  <2>5. sessions[i] = peers[i] /\ peers[i] \in Connections
    BY <2>1, SlotFacts DEF IInv, TableInv
  <2>6. /\ reactor'.conn = peers[i] /\ reactor'.batch = SubSeq(inbox[peers[i]], 1, n)
        /\ reactor'.pc = "process"
    BY <2>2, <2>5 DEF Waiting
  <2>7. CASE k = peers[i]
    <3> DEFINE x == inbox[k]
               b == SubSeq(x, 1, n)
               y == SubSeq(x, n + 1, Len(x))
    <3>1. x \in Seq(Message) /\ n \in 1 .. Len(x)
      BY <1>1, <2>2, <2>7, ConstantsAssumption
    <3>2. b \o y = x
      BY <3>1, Joining
    <3>3. inbox'[k] = y /\ reactor'.batch = b /\ reactor'.conn = k
      BY <1>1, <2>2, <2>6, <2>7
    <3>4. b # <<>>
      <4>1. Len(b) = n /\ n # 0
        BY <3>1
      <4> HIDE DEF b
      <4> QED
        BY <4>1
    <3> HIDE DEF b, y
    <3>5. Unread(k)' = b \o y
      BY <1>2, <2>6, <3>3, <3>4 DEF Rest, Uncounted, AtHead
    <3> QED
      BY <2>4, <3>2, <3>5
  <2>8. CASE k # peers[i]
    <3>1. inbox'[k] = inbox[k]
      BY <1>1, <2>2, <2>8
    <3> QED
      BY <1>2, <2>4, <2>6, <2>8, <3>1 DEF Rest
  <2> QED
    BY <2>7, <2>8
<1>8. CASE inbox'[k] = inbox[k] /\ reactor.batch = <<>> /\ reactor'.batch = <<>>
  BY <1>2, <1>3, <1>4, <1>8 DEF Reads
<1>9. CASE /\ inbox'[k] = inbox[k] /\ reactor'.batch = reactor.batch /\ reactor'.conn = reactor.conn
           /\ AtHead(reactor') <=> AtHead(reactor)
  BY <1>2, <1>9 DEF Unread, Rest, Uncounted
<1>10. CASE /\ inbox'[k] = inbox[k] /\ reactor.batch # <<>> /\ ~AtHead(reactor)
            /\ reactor' = Resume(reactor)
  <2>1. Unread(k)' = IF reactor.conn = k THEN Tail(reactor.batch) \o inbox[k] ELSE inbox[k]
    BY <1>1, <1>2, <1>10, RestOfResume
  <2> QED
    BY <1>4, <1>5, <1>10, <2>1 DEF Uncounted, Reads
<1>11. CASE AcceptMessage
  BY <1>0, <1>11, AcceptUnread
<1>12. CASE RejectMalformed \/ RefuseTarget \/ RefuseNumber
  <2>1. /\ inbox' = inbox /\ reactor'.batch = reactor.batch /\ reactor'.conn = reactor.conn
    <3>1. inbox' = inbox
      BY <1>12 DEF RejectMalformed, RefuseTarget, RefuseNumber, CloseSession, wireVars
    <3> QED
      BY <1>1, <1>12, <3>1, ReactorMoves DEF ThreadRecord
  <2>2. ~Reads(k)
    BY <1>12
  <2> QED
    BY <1>2, <1>4, <2>1, <2>2 DEF Rest, Reads
<1>13. CASE Accepts \/ Initialise \/ Stop \/ StopSave
  <2>1. inbox' = inbox /\ reactor.pc \in {"poll", "initialise", "stopping"}
    BY <1>13 DEF Accepts, Accept, Connects, Initialise, Stop, StopSave, wireVars, reactor
  <2>2. reactor'.pc \in {"initialise", "poll", "stopping", "stopped"}
    BY <1>1, <1>13, ReactorPcs DEF IInv
  <2>3. reactor.batch = <<>>
    BY <2>1 DEF IdleInv, AtMessage, AtSession
  <2>4. reactor'.batch = <<>>
    BY <2>2, IdleNext DEF IdleInv, AtMessage, AtSession
  <2> QED
    BY <1>8, <2>1, <2>3, <2>4
<1>14. CASE HangsUp
  <2>1. PICK i \in DOMAIN peers : HangUp(i)
    BY <1>14 DEF HangsUp
  <2>2. inbox' = inbox /\ reactor.pc = "poll"
    BY <2>1 DEF HangUp, wireVars, reactor
  <2>3. reactor.batch = <<>>
    BY <2>2 DEF IdleInv, AtMessage, AtSession
  <2>4. reactor' = [Waiting EXCEPT !.pc = "disconnect", !.slot = i]
    BY <2>1, ReactorMoves
  <2>5. reactor'.batch = <<>>
    BY <2>4 DEF Waiting
  <2> QED
    BY <1>8, <2>2, <2>3, <2>5
<1>15. CASE HandleLogon \/ DisconnectSave
  <2>1. inbox' = inbox /\ reactor.pc \in {"process", "disconnect"}
        /\ (HandleLogon => reactor.pc = "process") /\ (DisconnectSave => reactor.pc = "disconnect")
    BY <1>15 DEF HandleLogon, DisconnectSave, wireVars, reactor
  <2>2. /\ reactor'.batch = reactor.batch /\ reactor'.conn = reactor.conn
        /\ HandleLogon => reactor'.pc = "send" /\ reactor'.then = "validate"
        /\ DisconnectSave => reactor'.pc = "remove"
    BY <1>1, <1>15, ReactorMoves DEF ThreadRecord
  <2>3. AtHead(reactor') <=> AtHead(reactor)
    BY <1>15, <2>1, <2>2 DEF AtHead, Welcoming
  <2> QED
    BY <1>9, <2>1, <2>2, <2>3
<1>16. CASE DisconnectRemove
  <2>1. reactor.pc = "remove" /\ reactor.slot \in DOMAIN sessions
    BY <1>16 DEF DisconnectRemove, IInv, ReactorInv, reactor
  <2>2. sessions[reactor.slot] # k /\ peers[reactor.slot] # k
    BY <1>16, <2>1 DEF IInv, TableInv
  <2>3. inbox'[k] = inbox[k]
    BY <1>1, <1>16, <2>2 DEF DisconnectRemove, reactor
  <2>4. reactor' = Resume(reactor) /\ ~AtHead(reactor)
    BY <1>16, <2>1, ReactorMoves DEF AtHead, Welcoming
  <2>5. CASE reactor.batch # <<>>
    BY <1>10, <2>3, <2>4, <2>5
  <2>6. CASE reactor.batch = <<>>
    <3>1. reactor' = Waiting
      BY <2>4, <2>6 DEF Resume
    <3> QED
      BY <1>8, <2>3, <2>6, <3>1 DEF Waiting
  <2> QED
    BY <2>5, <2>6
<1>17. CASE Sending("reactor")
  <2>1. inbox' = inbox /\ reactor.pc \in AtMessage
    BY <1>17 DEF Sending, Transmit, Increment, Lock, Unlock, AtMessage, AtSession, wireVars, reactor
  <2>2. reactor.batch # <<>>
    BY <2>1, AtMessageFacts DEF IInv
  <2>3. CASE Transmit("reactor")
    <3>1. reactor.pc = "send"
      BY <2>3 DEF Transmit, reactor
    <3>2. /\ reactor'.batch = reactor.batch /\ reactor'.conn = reactor.conn
          /\ reactor'.pc = "increment" /\ reactor'.then = reactor.then
      BY <1>1, <2>3, ReactorMoves DEF ThreadRecord
    <3> QED
      BY <1>9, <2>1, <3>1, <3>2 DEF AtHead, Welcoming
  <2>4. CASE Lock("reactor")
    <3>1. reactor.pc = "lock"
      BY <2>4 DEF Lock, reactor
    <3>2. /\ reactor'.batch = reactor.batch /\ reactor'.conn = reactor.conn
          /\ reactor'.pc = "send" /\ reactor'.then = "unlock"
      BY <1>1, <2>4, ReactorMoves DEF ThreadRecord
    <3> QED
      BY <1>9, <2>1, <3>1, <3>2 DEF AtHead, Welcoming
  <2>5. CASE Unlock("reactor")
    <3>1. reactor.pc = "unlock"
      BY <2>5 DEF Unlock, reactor
    <3> QED
      BY <1>10, <2>1, <2>2, <2>5, <3>1, ReactorMoves DEF AtHead, Welcoming
  <2>6. CASE Increment("reactor")
    <3>1. reactor.pc = "increment" /\ reactor.then \in {"next", "validate", "disconnect", "unlock"}
      BY <2>6 DEF Increment, IInv, ReactorInv, reactor
    <3>2. CASE reactor.then = "next"
      BY <1>10, <2>1, <2>2, <2>6, <3>1, <3>2, ReactorMoves DEF AtHead, Welcoming
    <3>3. CASE reactor.then # "next"
      <4>1. /\ reactor'.batch = reactor.batch /\ reactor'.conn = reactor.conn
            /\ reactor'.pc = reactor.then
        BY <1>1, <2>6, <3>3, ReactorMoves DEF ThreadRecord
      <4> QED
        BY <1>9, <2>1, <3>1, <3>3, <4>1 DEF AtHead, Welcoming
    <3> QED
      BY <3>2, <3>3
  <2> QED
    BY <1>17, <2>3, <2>4, <2>5, <2>6 DEF Sending
<1>18. CASE inbox' = inbox /\ reactor' = reactor
  BY <1>9, <1>18
<1>19. \/ ClientMoves \/ Accepts \/ Initialise \/ ReactorWorks
       \/ inbox' = inbox /\ reactor' = reactor
  BY <1>1, Frames, ReactorSteps DEF Framed, InboxStep, ReactorWorks
<1> QED
  BY <1>6, <1>7, <1>11, <1>12, <1>13, <1>14, <1>15, <1>16, <1>17, <1>18, <1>19 DEF ReactorWorks
-----------------------------------------------------------------------------
(* What a step does to a clean client *)

(* A thread at a session of c comes after LOGON. *)
LEMMA UserFacts ==
  ASSUME IInv, NumbersInv, NEW c \in Clients, clean[c],
         NEW t \in Threads, thread[t].pc \in AtSession, client[thread[t].conn] = c
  PROVE  /\ thread[t].conn \in Connections /\ thread[t].conn \in 1 .. accepted
         /\ session[thread[t].conn].comp = c
<1>1. CASE t = "reactor"
  <2>1. reactor.pc \in AtMessage /\ reactor.pc # "process" /\ client[reactor.conn] = c
    BY <1>1 DEF AtMessage, AtSession, reactor
  <2>2. reactor.batch # <<>> /\ reactor.conn \in Connections /\ reactor.conn \in 1 .. accepted
    BY <2>1, AtMessageFacts DEF IInv
  <2>3. session[reactor.conn].comp = c
    BY <2>1, <2>2 DEF NumbersInv, CleanInv, AnswerInv
  <2> QED
    BY <1>1, <2>2, <2>3 DEF reactor
<1>2. CASE t = "processor"
  <2>1. processor.pc \in AtSession /\ client[processor.conn] = c
    BY <1>2 DEF processor
  <2>2. processor.conn \in 1 .. accepted /\ session[processor.conn].comp = c
    BY <2>1 DEF IInv, ProcessorInv, NumbersInv, CleanInv, QuietInv
  <2>3. processor.conn \in Connections
    BY <2>2, SlotFacts DEF IInv, Connections
  <2> QED
    BY <1>2, <2>2, <2>3 DEF processor
<1> QED
  BY <1>1, <1>2 DEF Threads

(* Only LOGON and the messages that are counted change the numbers of a    *)
(* session, and the increments of its senders.                             *)
LEMMA NumberSteps ==
  ASSUME IInv, [Next]_vars, NEW k \in Connections
  PROVE  /\ \/ session'[k].in = session[k].in
            \/ HandleLogon /\ k = reactor.conn
            \/ AcceptMessage /\ k = reactor.conn
         /\ \/ session'[k].out = session[k].out
            \/ HandleLogon /\ k = reactor.conn
            \/ \E t \in Threads : Increment(t) /\ thread[t].conn = k
         /\ HandleLogon /\ k = reactor.conn =>
              session'[k].out = store[client[k]].out /\ session'[k].in = store[client[k]].in
         /\ AcceptMessage /\ k = reactor.conn => session'[k].in = Head(reactor.batch).seq
<1>1. session \in [Connections -> SessionRecord]
  BY DEF IInv, TypeOK, SessionRecord
<1> DEFINE Kept == session'[k].in = session[k].in /\ session'[k].out = session[k].out
<1>2. ASSUME NEW t \in Threads, Sending(t)
      PROVE  /\ session'[k].in = session[k].in
             /\ session'[k].out = session[k].out \/ (Increment(t) /\ thread[t].conn = k)
  <2>1. CASE Transmit(t)
    BY <1>1, <2>1 DEF Transmit, SessionRecord
  <2>2. CASE Increment(t)
    <3> DEFINE x == thread[t].conn
    <3>1. PICK n : session' = [session EXCEPT ![x].out = n + 1, ![x].sendLock = "free"]
      BY <2>2 DEF Increment
    <3>2. x # k => session'[k] = session[k]
      BY <1>1, <3>1
    <3>3. x = k => session'[k].in = session[k].in
      <4> HIDE DEF x
      <4> QED
        BY <1>1, <3>1 DEF SessionRecord
    <3> QED
      BY <2>2, <3>2, <3>3
  <2>3. CASE Lock(t)
    BY <1>1, <2>3 DEF Lock, SessionRecord
  <2>4. CASE Unlock(t)
    BY <1>1, <2>4 DEF Unlock, SessionRecord
  <2> QED
    BY <1>2, <2>1, <2>2, <2>3, <2>4 DEF Sending
<1>3. Initialise => Kept
  BY <1>1 DEF Initialise, SessionRecord
<1>4. DisconnectSave => Kept
  BY <1>1 DEF DisconnectSave, SessionRecord
<1>5. DisconnectRemove => Kept
  BY <1>1 DEF DisconnectRemove, SessionRecord
<1>6. ASSUME HandleLogon
      PROVE  /\ k = reactor.conn => /\ session'[k].out = store[client[k]].out
                                    /\ session'[k].in = store[client[k]].in
             /\ k # reactor.conn => Kept
  <2>1. reactor.pc \in AtMessage
    BY <1>6 DEF HandleLogon, AtMessage, reactor
  <2>2. session[reactor.conn].tcp = reactor.conn
    BY <2>1, AtMessageFacts DEF IInv
  <2>3. session' = [session EXCEPT ![reactor.conn] = Restored(@, client[reactor.conn])]
    BY <1>6, <2>2 DEF HandleLogon, reactor
  <2> QED
    BY <1>1, <2>3 DEF Restored, SessionRecord
<1>7. ASSUME AcceptMessage
      PROVE  /\ session'[k].out = session[k].out
             /\ k = reactor.conn => session'[k].in = Head(reactor.batch).seq
             /\ k # reactor.conn => session'[k].in = session[k].in
  BY <1>1, <1>7 DEF AcceptMessage, SessionRecord, reactor
<1>8. session' = session => Kept
  OBVIOUS
<1>9. \/ \E t \in Threads : Sending(t)
      \/ Initialise \/ DisconnectSave \/ DisconnectRemove \/ HandleLogon \/ AcceptMessage
      \/ session' = session
  BY Frames DEF Framed, SessionStep, Threads
<1> HIDE DEF Kept
<1>10. CASE \E t \in Threads : Sending(t)
  BY <1>2, <1>6, <1>7, <1>10
<1>11. CASE HandleLogon
  BY <1>6, <1>7, <1>11 DEF Kept
<1>12. CASE AcceptMessage
  BY <1>6, <1>7, <1>12
<1>13. CASE Kept
  BY <1>6, <1>7, <1>13 DEF Kept
<1> QED
  BY <1>3, <1>4, <1>5, <1>8, <1>9, <1>10, <1>11, <1>12, <1>13

(* A number sent to c is counted once. *)
LEMMA ExactIncrement ==
  ASSUME IInv, NumbersInv, NEW c \in Clients, clean[c],
         NEW t \in Threads, Increment(t), client[thread[t].conn] = c
  PROVE  session'[thread[t].conn].out = session[thread[t].conn].out + 1
<1>1. thread[t].pc = "increment" /\ thread[t].conn \in Connections
  BY UserFacts DEF Increment, AtSession
<1>2. thread[t].num = session[thread[t].conn].out
  BY <1>1 DEF NumbersInv, CleanInv, SeenInv
<1>3. session \in [Connections -> SessionRecord]
  BY DEF IInv, TypeOK, SessionRecord
<1> DEFINE k == thread[t].conn
<1>4. session' = [session EXCEPT ![k].out = session[k].out + 1, ![k].sendLock = "free"]
  BY <1>2 DEF Increment
<1> HIDE DEF k
<1>5. k \in Connections => session'[k].out = session[k].out + 1
  BY <1>3, <1>4 DEF SessionRecord
<1> QED
  BY <1>1, <1>5 DEF k

(* The reactor disconnects a clean client only after its LOGOFF. *)
LEMMA LeavingFacts ==
  ASSUME IInv, NumbersInv, NEW c \in Clients, clean[c],
         reactor.pc \in {"disconnect", "remove"}, client[sessions[reactor.slot]] = c
  PROVE  /\ reactor.batch # <<>> /\ reactor.conn = sessions[reactor.slot]
         /\ link[c] = reactor.conn /\ LoggedOn(c) /\ Serving
         /\ link[c] \in Connections
         /\ stage[c] = "leaving" /\ Unread(link[c]) = <<>>
<1>1. reactor.batch # <<>>
  BY DEF NumbersInv, CleanInv, AnswerInv
<1>2. reactor.conn = sessions[reactor.slot]
  BY <1>1 DEF IInv, ReactorInv
<1>3. link[c] = reactor.conn /\ Online(c) /\ Serving /\ reactor.conn \in Connections
  BY <1>1, <1>2, HeadFacts
<1>4. session[reactor.conn].comp = c /\ stage[c] = "leaving" /\ Unread(reactor.conn) = <<>>
  BY <1>1, <1>2 DEF NumbersInv, CleanInv, AnswerInv, Leaving
<1> QED
  BY <1>1, <1>2, <1>3, <1>4 DEF LoggedOn

(* The file of c gets the numbers of a session of c. *)
LEMMA StoreSteps ==
  ASSUME IInv, NumbersInv, [Next]_vars, NEW c \in Clients, clean'[c]
  PROVE  \/ store'[c] = store[c]
         \/ /\ DisconnectSave \/ StopSave
            /\ reactor.slot \in DOMAIN sessions
            /\ session[sessions[reactor.slot]].comp = c
            /\ client[sessions[reactor.slot]] = c
            /\ store'[c] = [out |-> session[sessions[reactor.slot]].out,
                            in |-> session[sessions[reactor.slot]].in]
            /\ StopSave => session[sessions[reactor.slot]].out >= store[c].out
<1>1. /\ store \in [Clients \cup {NoClient} -> Numbers] /\ clean \in [Clients -> BOOLEAN]
      /\ c # NoClient
  BY ConstantsAssumption DEF IInv, TypeOK
<1> DEFINE k == sessions[reactor.slot]
<1>2. ASSUME reactor.slot \in DOMAIN sessions, session[k].comp = c PROVE client[k] = c
  BY <1>1, <1>2, SlotFacts DEF NumbersInv, CompInv, IInv
<1>3. CASE DisconnectSave
  <2>1. reactor.slot \in DOMAIN sessions
    BY <1>3 DEF DisconnectSave, IInv, ReactorInv, reactor
  <2>2. store' = [store EXCEPT ![session[k].comp] = [out |-> session[k].out, in |-> session[k].in]]
        /\ ~StopSave
    BY <1>3 DEF DisconnectSave, StopSave, Save, reactor
  <2> QED
    BY <1>1, <1>2, <1>3, <2>1, <2>2
<1>4. CASE StopSave
  <2>1. CASE store' = store
    BY <2>1
  <2>2. CASE store' # store
    <3>1. /\ reactor.slot <= Len(sessions)
          /\ store' = [store EXCEPT ![session[k].comp] = [out |-> session[k].out, in |-> session[k].in]]
          /\ clean' = [d \in Clients |-> clean[d] /\ (session[k].comp = d => session[k].out >= store[d].out)]
      BY <1>4, <2>2 DEF StopSave, Save, reactor
    <3>2. reactor.pc = "stopping"
      BY <1>4 DEF StopSave, reactor
    <3>3. reactor.slot \in DOMAIN sessions
      <4>1. reactor.slot >= 1 /\ reactor.slot \in Nat
        BY <3>2 DEF IInv, ReactorInv, TypeOK, Threads, reactor
      <4> QED
        BY <3>1, <4>1, SlotFacts DEF IInv
    <3>4. session[k].comp = c => session[k].out >= store[c].out
      BY <3>1
    <3> QED
      BY <1>1, <1>2, <1>4, <3>1, <3>3, <3>4
  <2> QED
    BY <2>1, <2>2
<1>5. CASE Restart
  BY <1>5, CleanKept
<1> QED
  BY <1>3, <1>4, <1>5, Frames DEF Framed, StoreStep

(* The reactor serves again after a restart only. *)
LEMMA ServingKept ==
  ASSUME IInv, [Next]_vars, ~Restart
  PROVE  /\ Serving' => Serving
         /\ reactor'.pc # "failed" => reactor.pc # "failed" /\ ~Failing
<1>1. TypeOK /\ ReactorInv
  BY DEF IInv
<1>2. CASE Failing
  <2>1. reactor'.pc = "failed"
    BY <1>2, ReactorMoves DEF Failed, Waiting
  <2> QED
    BY <2>1 DEF Serving
<1>3. CASE reactor' = reactor /\ ~Failing
  BY <1>3 DEF Serving
<1>4. CASE Accepts \/ Initialise \/ Reading \/ HangsUp \/ Stop \/ RejectMalformed \/ HandleLogon
           \/ RefuseTarget \/ RefuseNumber \/ AcceptMessage \/ DisconnectSave \/ DisconnectRemove
  <2>1. reactor.pc \in {"poll", "initialise", "process", "validate", "disconnect", "remove"}
    BY <1>4 DEF Accepts, Accept, Connects, Initialise, Reading, HandleClient, HangsUp, HangUp, Stop,
                RejectMalformed, HandleLogon, RefuseTarget, RefuseNumber, AcceptMessage,
                AtValidation, DisconnectSave, DisconnectRemove, reactor
  <2> QED
    BY <1>2, <2>1 DEF Serving
<1>5. CASE Sending("reactor")
  <2>1. reactor.pc \in AtSession
    BY <1>5 DEF Sending, Transmit, Increment, Lock, Unlock, AtSession, reactor
  <2> QED
    BY <1>2, <2>1 DEF Serving, AtSession
<1>6. CASE StopSave
  <2>1. reactor.pc = "stopping" /\ reactor'.pc \in {"stopping", "stopped"}
    BY <1>1, <1>6, ReactorPcs DEF StopSave, reactor
  <2> QED
    BY <1>2, <2>1 DEF Serving
<1> QED
  BY <1>1, <1>2, <1>3, <1>4, <1>5, <1>6, ReactorSteps DEF ReactorWorks

(* A clean client comes with Accept and goes when its session is removed. *)
LEMMA OnlineSteps ==
  ASSUME IInv, NumbersInv, [Next]_vars, NEW c \in Clients, clean'[c]
  PROVE  /\ Online(c)' /\ ~Online(c) => Accept(c)
         /\ Online(c) /\ Online(c)' => link'[c] = link[c]
         /\ Online(c) /\ ~Online(c)' => DisconnectRemove /\ sessions[reactor.slot] = link[c]
         /\ Accept(c) => /\ ~Online(c) /\ link'[c] = accepted + 1 /\ accepted + 1 \in Connections
                         /\ session'[accepted + 1] = NewSession
                         /\ inbox'[accepted + 1] = <<>>
         /\ DisconnectRemove /\ sessions[reactor.slot] = link[c] => ~Online(c)'
<1>1. /\ clean[c] /\ open \in [Connections -> BOOLEAN] /\ accepted \in Nat
      /\ link \in [Clients -> 0 .. MaxConnections]
  BY CleanKept, SlotFacts DEF IInv, TypeOK
<1>2. link[c] # 0 => link[c] \in 1 .. accepted /\ link[c] \in Connections /\ client[link[c]] = c
  BY SlotFacts DEF NumbersInv, LinkInv, IInv, Connections
<1>3. ASSUME Accept(c)
      PROVE  /\ ~Online(c) /\ link'[c] = accepted + 1 /\ accepted + 1 \in Connections
             /\ session'[accepted + 1] = NewSession
             /\ inbox'[accepted + 1] = <<>>
  <2>1. /\ link[c] = 0 /\ link' = [link EXCEPT ![c] = accepted + 1] /\ session' = session
        /\ inbox' = inbox /\ accepted < MaxConnections
    BY <1>3 DEF Accept, Connects
  <2>2. accepted + 1 \in Connections /\ accepted + 1 > accepted
    BY <1>1, <2>1, ConstantsAssumption DEF Connections
  <2>3. session[accepted + 1] = NewSession /\ inbox[accepted + 1] = <<>>
    BY <2>2 DEF IInv, FreshInv, NumbersInv, BoxInv
  <2> QED
    BY <1>1, <2>1, <2>2, <2>3 DEF Online
<1>4. Online(c)' <=> link'[c] # 0 /\ open'[link'[c]]
  BY DEF Online
<1>5. ASSUME DisconnectRemove
      PROVE  /\ sessions[reactor.slot] = link[c] => ~Online(c)'
             /\ sessions[reactor.slot] # link[c] => (Online(c)' <=> Online(c))
             /\ link'[c] = link[c]
  <2> DEFINE k == sessions[reactor.slot]
  <2>1. reactor.pc = "remove" /\ reactor.slot \in DOMAIN sessions
    BY <1>5 DEF DisconnectRemove, IInv, ReactorInv, reactor
  <2>2. k \in Connections /\ session[k].tcp = k /\ peers[reactor.slot] = k
    BY <2>1, SlotFacts DEF IInv, TcpInv, TableInv
  <2>3. open' = [open EXCEPT ![k] = FALSE] /\ link' = link
    BY <1>1, <1>5, <2>2 DEF DisconnectRemove, reactor, clientVars
  <2> QED
    BY <1>1, <1>2, <1>4, <2>2, <2>3 DEF Online
<1>6. ASSUME RefuseTarget \/ RefuseNumber
      PROVE  (Online(c)' <=> Online(c)) /\ link'[c] = link[c]
  <2>1. reactor.conn \in Connections /\ client[reactor.conn] # c
    BY <1>1, <1>6, NeverRefused
  <2>2. reactor.pc \in AtMessage
    BY <1>6 DEF RefuseTarget, RefuseNumber, AtValidation, AtMessage, reactor
  <2>3. session[reactor.conn].tcp = reactor.conn
    BY <2>2, AtMessageFacts DEF IInv
  <2>4. open' = [open EXCEPT ![reactor.conn] = FALSE] /\ link' = link
    BY <1>6, <2>3 DEF RefuseTarget, RefuseNumber, CloseSession, reactor, clientVars
  <2> QED
    BY <1>1, <1>2, <1>4, <2>1, <2>4 DEF Online
<1>7. ASSUME NEW d \in Clients, Accept(d), d # c
      PROVE  (Online(c)' <=> Online(c)) /\ link'[c] = link[c]
  <2>1. open' = [open EXCEPT ![accepted + 1] = TRUE] /\ link' = [link EXCEPT ![d] = accepted + 1]
    BY <1>7 DEF Accept
  <2> QED
    BY <1>1, <1>2, <1>4, <1>7, <2>1 DEF Online
<1>8. ASSUME NEW d \in Clients, ClientLeaves(d)
      PROVE  (Online(c)' <=> Online(c)) /\ (Online(c) => link'[c] = link[c])
  <2>1. open' = open /\ link' = [link EXCEPT ![d] = 0]
    BY <1>8 DEF ClientLeaves, wireVars
  <2>2. d = c => ~open[link[c]]
    BY <1>8, CleanKept
  <2> QED
    BY <1>1, <1>4, <2>1, <2>2 DEF Online
<1>9. Restart => ~Online(c) /\ ~Online(c)' /\ link' = link
  <2>1. Restart => open' = [k \in Connections |-> FALSE] /\ link' = link
    BY DEF Restart
  <2>2. Restart => ~Online(c)
    BY CleanKept DEF Online
  <2> QED
    BY <1>2, <1>4, <2>1, <2>2
<1>10. UNCHANGED <<open, link>> => (Online(c)' <=> Online(c)) /\ link'[c] = link[c]
  BY <1>4 DEF Online
<1>11. \A d \in Clients, kind \in SentKinds : ClientSends(d, kind) => UNCHANGED <<open, link>>
  BY DEF ClientSends
<1>12. \/ \E d \in Clients : Accept(d) \/ ClientLeaves(d)
       \/ RefuseTarget \/ RefuseNumber \/ DisconnectRemove \/ Restart
       \/ UNCHANGED <<open, link>>
  BY <1>11, Frames DEF Framed, OpenStep, TableStep, ClientStep, ClientMoves, Accepts
<1>13. Accept(c) => ~DisconnectRemove
  BY DEF Accept, Connects, DisconnectRemove
<1> QED
  BY <1>3, <1>5, <1>6, <1>7, <1>8, <1>9, <1>10, <1>12, <1>13

(* A clean client logs on once in a connection. *)
LEMMA LogonSteps ==
  ASSUME IInv, NumbersInv, [Next]_vars, NEW c \in Clients, clean'[c]
  PROVE  /\ LoggedOn(c)' /\ ~LoggedOn(c) =>
              /\ HandleLogon /\ reactor.conn = link[c] /\ Online(c) /\ link'[c] = link[c]
              /\ session'[link[c]].out = store[c].out /\ session'[link[c]].in = store[c].in
         /\ LoggedOn(c) /\ LoggedOn(c)' => link'[c] = link[c]
         /\ LoggedOn(c) /\ ~LoggedOn(c)' => DisconnectRemove /\ sessions[reactor.slot] = link[c]
         /\ HandleLogon /\ client[reactor.conn] = c =>
              ~LoggedOn(c) /\ LoggedOn(c)' /\ reactor.conn = link[c] /\ Reads(link[c])
<1>1. /\ clean[c] /\ c # NoClient /\ accepted \in Nat
  BY CleanKept, SlotFacts, ConstantsAssumption DEF IInv
<1>2. link[c] # 0 => link[c] \in 1 .. accepted /\ link[c] \in Connections /\ client[link[c]] = c
  BY SlotFacts DEF NumbersInv, LinkInv, IInv, Connections
<1>3. LoggedOn(c)' <=> Online(c)' /\ session'[link'[c]].comp = c
  BY DEF LoggedOn, Online
<1>4. /\ Online(c)' /\ ~Online(c) => Accept(c)
      /\ Online(c) /\ Online(c)' => link'[c] = link[c]
      /\ Online(c) /\ ~Online(c)' => DisconnectRemove /\ sessions[reactor.slot] = link[c]
      /\ Accept(c) => link'[c] = accepted + 1 /\ session'[accepted + 1] = NewSession
  BY OnlineSteps
<1>5. ASSUME LoggedOn(c)', ~LoggedOn(c)
      PROVE  /\ HandleLogon /\ reactor.conn = link[c] /\ Online(c) /\ link'[c] = link[c]
             /\ session'[link[c]].out = store[c].out /\ session'[link[c]].in = store[c].in
  <2>1. Online(c) /\ link'[c] = link[c]
    BY <1>1, <1>3, <1>4, <1>5 DEF NewSession
  <2>2. link[c] \in Connections /\ session[link[c]].comp # c /\ session'[link[c]].comp = c
    BY <1>2, <1>3, <1>5, <2>1 DEF Online, LoggedOn
  <2>3. HandleLogon /\ reactor.conn = link[c]
    BY <2>2, CompSteps
  <2> QED
    BY <1>2, <2>1, <2>2, <2>3, NumberSteps DEF Online
<1>6. ASSUME LoggedOn(c)
      PROVE  /\ LoggedOn(c)' => link'[c] = link[c]
             /\ ~LoggedOn(c)' => DisconnectRemove /\ sessions[reactor.slot] = link[c]
  <2>1. Online(c) /\ session[link[c]].comp = c /\ link[c] \in Connections /\ client[link[c]] = c
    BY <1>2, <1>6 DEF Online, LoggedOn
  <2>2. session'[link[c]].comp = c
    BY <2>1, CompSteps
  <2> QED
    BY <1>3, <1>4, <2>1, <2>2
<1>7. ASSUME HandleLogon, client[reactor.conn] = c
      PROVE  ~LoggedOn(c) /\ LoggedOn(c)' /\ reactor.conn = link[c] /\ Reads(link[c])
  <2>1. reactor.pc = "process" /\ Head(reactor.batch).kind = "LOGON"
    BY <1>7 DEF HandleLogon, reactor
  <2>2. reactor.batch # <<>> /\ AtHead(reactor)
    BY <2>1 DEF IInv, ReactorInv, AtMessage, AtHead
  <2>3. link[c] = reactor.conn /\ Online(c) /\ Reads(link[c]) /\ reactor.conn \in Connections
    BY <1>1, <1>7, <2>2, HeadFacts
  <2>4. ~LoggedOn(c)
    BY <1>1, <1>7, <2>1, <2>2, ValidHead
  <2>5. ~DisconnectRemove
    BY <2>1 DEF DisconnectRemove, reactor
  <2>6. Online(c)' /\ link'[c] = link[c]
    BY <1>4, <2>3, <2>5
  <2>7. session'[reactor.conn].comp = c
    <3>1. session \in [Connections -> SessionRecord]
      BY DEF IInv, TypeOK, SessionRecord
    <3>2. session[reactor.conn].tcp = reactor.conn
      BY <2>1, AtMessageFacts DEF IInv, AtMessage
    <3>3. session' = [session EXCEPT ![reactor.conn] = Restored(@, c)]
      BY <1>7, <3>2 DEF HandleLogon, reactor
    <3> QED
      BY <2>3, <3>1, <3>3 DEF Restored, SessionRecord
  <2> QED
    BY <1>3, <2>3, <2>4, <2>6, <2>7
<1> QED
  BY <1>5, <1>6, <1>7

(* The answer to LOGON ends when the LOGON is counted. *)
LEMMA WelcomingSteps ==
  ASSUME IInv, NumbersInv, [Next]_vars, NEW c \in Clients, clean[c], ~Restart, ~Failing,
         reactor.batch # <<>>, client[reactor.conn] = c, Welcoming(reactor), ~AcceptMessage
  PROVE  /\ reactor'.batch = reactor.batch /\ reactor'.conn = reactor.conn /\ Welcoming(reactor')
         /\ \/ reactor'.pc = "validate" <=> reactor.pc = "validate"
            \/ Increment("reactor")
<1>1. reactor \in ThreadRecord /\ TypeOK
  BY DEF IInv, TypeOK, ThreadRecord, Threads, reactor
<1>2. reactor.pc \in {"validate", "send", "increment"}
  BY DEF Welcoming
<1>3. ~(RefuseTarget \/ RefuseNumber \/ RejectMalformed)
  BY NeverRefused
<1>4. CASE reactor' = reactor
  BY <1>4
<1>5. CASE Transmit("reactor")
  <2>1. reactor' = [reactor EXCEPT !.pc = "increment", !.num = session[reactor.conn].out]
        /\ reactor.pc = "send"
    BY <1>5, ReactorMoves DEF Transmit, reactor
  <2> QED
    BY <1>1, <2>1 DEF Welcoming, ThreadRecord
<1>6. CASE Increment("reactor")
  <2>1. reactor.pc = "increment" /\ reactor.then = "validate"
    BY <1>6 DEF Increment, Welcoming, reactor
  <2>2. reactor' = [reactor EXCEPT !.pc = "validate"]
    BY <1>6, <2>1, ReactorMoves
  <2> QED
    BY <1>1, <1>6, <2>2 DEF Welcoming, ThreadRecord
<1>7. ~(Lock("reactor") \/ Unlock("reactor"))
  BY <1>2 DEF Lock, Unlock, reactor
<1>8. ~(Accepts \/ Initialise \/ Reading \/ HangsUp \/ Stop \/ StopSave \/ HandleLogon
        \/ DisconnectSave \/ DisconnectRemove)
  BY <1>2 DEF Accepts, Accept, Connects, Initialise, Reading, HandleClient, HangsUp, HangUp, Stop, StopSave,
              HandleLogon, DisconnectSave, DisconnectRemove, reactor
<1> QED
  BY <1>1, <1>3, <1>4, <1>5, <1>6, <1>7, <1>8, ReactorSteps DEF ReactorWorks, Sending

LEMMA StageSteps ==
  ASSUME IInv, [Next]_vars, NEW c \in Clients
  PROVE  /\ \/ stage'[c] = stage[c] /\ clientOut'[c] = clientOut[c]
            \/ Accept(c) \/ ClientLeaves(c) \/ \E kind \in SentKinds : ClientSends(c, kind)
         /\ clientOut'[c] = clientOut[c] \/ \E kind \in SentKinds : ClientSends(c, kind)
<1>1. /\ stage \in [Clients -> {"away", "connected", "active", "leaving"}]
      /\ clientOut \in [Clients -> Nat]
  BY DEF IInv, TypeOK
<1>2. ASSUME NEW d \in Clients, Accept(d) \/ ClientLeaves(d)
      PROVE  /\ d # c => stage'[c] = stage[c]
             /\ clientOut' = clientOut
  BY <1>1, <1>2 DEF Accept, Connects, ClientLeaves
<1>3. ASSUME NEW d \in Clients, NEW kind, ClientSends(d, kind), d # c
      PROVE  stage'[c] = stage[c] /\ clientOut'[c] = clientOut[c]
  BY <1>1, <1>3 DEF ClientSends
<1> QED
  BY <1>2, <1>3, Frames DEF Framed, ClientStep, Accepts, ClientMoves
-----------------------------------------------------------------------------
(* The unread messages of a clean client have the numbers that are due. *)

LEMMA NumberedSteps ==
  ASSUME NEW q \in Seq(Message), NEW n \in Nat, NumberedFrom(q, n)
  PROVE  /\ \A m \in Message : m.seq = n + Len(q) + 1 => NumberedFrom(Append(q, m), n)
         /\ q # <<>> => NumberedFrom(Tail(q), n + 1)
<1>1. Len(q) \in Nat /\ \A j \in 1 .. Len(q) : q[j].seq = n + j
  BY DEF NumberedFrom
<1>2. ASSUME NEW m \in Message, m.seq = n + Len(q) + 1 PROVE NumberedFrom(Append(q, m), n)
  <2> DEFINE p == Append(q, m)
  <2>1. /\ Len(p) = Len(q) + 1 /\ p[Len(q) + 1] = m
        /\ \A j \in 1 .. Len(q) : p[j] = q[j]
    OBVIOUS
  <2> HIDE DEF p
  <2>2. ASSUME NEW j \in 1 .. Len(p) PROVE p[j].seq = n + j
    <3>1. CASE j = Len(q) + 1
      BY <1>1, <1>2, <2>1, <3>1
    <3>2. CASE j # Len(q) + 1
      <4>1. j \in 1 .. Len(q)
        BY <1>1, <2>1, <3>2
      <4> QED
        BY <1>1, <2>1, <4>1
    <3> QED
      BY <3>1, <3>2
  <2>3. NumberedFrom(p, n)
    BY <2>2 DEF NumberedFrom
  <2> QED
    BY <2>3 DEF p
<1>3. ASSUME q # <<>> PROVE NumberedFrom(Tail(q), n + 1)
  <2> DEFINE p == Tail(q)
  <2>1. /\ Len(p) = Len(q) - 1 /\ \A j \in 1 .. Len(p) : p[j] = q[j + 1]
    BY <1>3, HeadTailProperties
  <2> HIDE DEF p
  <2>2. ASSUME NEW j \in 1 .. Len(p) PROVE p[j].seq = (n + 1) + j
    <3>1. j + 1 \in 1 .. Len(q) /\ n + (j + 1) = (n + 1) + j
      BY <1>1, <2>1
    <3> QED
      BY <1>1, <2>1, <3>1
  <2>3. NumberedFrom(p, n + 1)
    BY <2>2 DEF NumberedFrom
  <2> QED
    BY <2>3 DEF p
<1> QED
  BY <1>2, <1>3

(* The connection of c stays open: what else stays *)
LEMMA StaysOnline ==
  ASSUME IInv, NumbersInv, [Next]_vars, NEW c \in Clients, clean'[c], Online(c), Online(c)',
         reactor'.pc # "failed"
  PROVE  /\ link[c] \in Connections /\ client[link[c]] = c /\ link'[c] = link[c]
         /\ ~Restart /\ ~Failing /\ reactor.pc # "failed" /\ (Serving' => Serving)
         /\ Reads(link[c]) => ~(RejectMalformed \/ RefuseTarget \/ RefuseNumber)
         /\ ~(DisconnectRemove /\ sessions[reactor.slot] = link[c])
         /\ ~ClientLeaves(c) /\ ~Accept(c)
<1>1. clean[c]
  BY CleanKept
<1>2. link[c] \in Connections /\ client[link[c]] = c
  BY SlotFacts DEF Online, NumbersInv, LinkInv, IInv, Connections
<1>3. link'[c] = link[c] /\ ~(DisconnectRemove /\ sessions[reactor.slot] = link[c]) /\ ~Accept(c)
  BY OnlineSteps
<1>4. ~Restart /\ ~ClientLeaves(c)
  BY CleanKept DEF Online
<1>5. ~Failing /\ reactor.pc # "failed" /\ (Serving' => Serving)
  BY <1>4, ServingKept
<1>6. Reads(link[c]) => ~(RejectMalformed \/ RefuseTarget \/ RefuseNumber)
  BY <1>1, <1>2, NeverRefused DEF Reads
<1> QED
  BY <1>2, <1>3, <1>4, <1>5, <1>6

(* The messages of the client that are counted *)
LEMMA CountedSteps ==
  ASSUME IInv, NumbersInv, [Next]_vars, NEW c \in Clients, clean'[c], Online(c), Online(c)', Serving'
  PROVE  /\ ~(AcceptMessage /\ Reads(link[c])) => Counted(c)' = Counted(c)
         /\ AcceptMessage /\ Reads(link[c]) =>
              LoggedOn(c) /\ LoggedOn(c)' /\ Counted(c)' = Counted(c) + 1 /\ stage[c] # "connected"
         /\ Counted(c) \in Nat
<1> DEFINE k == link[c]
<1>0. reactor'.pc # "failed"
  BY DEF Serving
<1>1. clean[c] /\ k \in Connections /\ client[k] = c /\ link'[c] = k /\ Serving
  BY <1>0, CleanKept, StaysOnline
<1>2. /\ session \in [Connections -> SessionRecord] /\ store[c] \in Numbers
  BY DEF IInv, TypeOK, SessionRecord
<1>3. Counted(c)' = IF LoggedOn(c)' THEN session'[k].in ELSE store'[c].in
  BY <1>1 DEF Counted
<1>4. Counted(c) \in Nat
  BY <1>1, <1>2 DEF Counted, SessionRecord, Numbers
<1>5. ASSUME AcceptMessage, Reads(k)
      PROVE  LoggedOn(c) /\ LoggedOn(c)' /\ Counted(c)' = Counted(c) + 1 /\ stage[c] # "connected"
  <2>1. /\ reactor.batch # <<>> /\ reactor.conn = k /\ AtHead(reactor) /\ AtValidation
        /\ ~DisconnectRemove
    BY <1>5 DEF AcceptMessage, AtValidation, AtHead, Welcoming, Reads, DisconnectRemove, reactor
  <2>2. LoggedOn(c) /\ Head(reactor.batch).seq = session[k].in + 1 /\ stage[c] # "connected"
    BY <1>1, <2>1, ValidHead
  <2>3. LoggedOn(c)'
    BY <2>1, <2>2, LogonSteps
  <2>4. session'[k].in = session[k].in + 1
    BY <1>1, <1>5, <2>1, <2>2, NumberSteps
  <2> QED
    BY <1>3, <2>2, <2>3, <2>4 DEF Counted
<1>6. ASSUME ~(AcceptMessage /\ Reads(k)) PROVE Counted(c)' = Counted(c)
  <2>1. ~(AcceptMessage /\ k = reactor.conn)
    <3>1. AcceptMessage => reactor.pc \in AtMessage
      BY DEF AcceptMessage, AtValidation, AtMessage, reactor
    <3> QED
      BY <1>6, <3>1 DEF IInv, ReactorInv, Reads
  <2>2. CASE ~LoggedOn(c) /\ LoggedOn(c)'
    BY <1>1, <1>3, <2>2, LogonSteps DEF Counted
  <2>3. CASE LoggedOn(c) /\ LoggedOn(c)'
    <3>1. ~(HandleLogon /\ k = reactor.conn)
      BY <1>1, <2>3, LogonSteps
    <3>2. session'[k].in = session[k].in
      BY <1>1, <2>1, <3>1, NumberSteps
    <3> QED
      BY <1>3, <2>3, <3>2 DEF Counted
  <2>4. CASE ~LoggedOn(c) /\ ~LoggedOn(c)'
    <3>1. ~StopSave
      BY <1>1 DEF StopSave, Serving, reactor
    <3>2. ASSUME DisconnectSave, client[sessions[reactor.slot]] = c PROVE FALSE
      <4>1. reactor.pc = "disconnect"
        BY <3>2 DEF DisconnectSave, reactor
      <4> QED
        BY <1>1, <2>4, <3>2, <4>1, LeavingFacts
    <3>3. store'[c] = store[c]
      BY <3>1, <3>2, StoreSteps
    <3> QED
      BY <1>3, <2>4, <3>3 DEF Counted
  <2>5. CASE LoggedOn(c) /\ ~LoggedOn(c)'
    BY <1>0, <2>5, LogonSteps, StaysOnline
  <2> QED
    BY <2>2, <2>3, <2>4, <2>5
<1> QED
  BY <1>4, <1>5, <1>6

LEMMA OrderedSteps ==
  ASSUME NEW q \in Seq(Message), NEW at, NEW on \in BOOLEAN, NEW welcomed \in BOOLEAN,
         Ordered(q, at, on, welcomed)
  PROVE  /\ \A m \in Message :
              /\ m.kind \notin {"MALFORMED", "WRONG_TARGET"}
              /\ IF at = "connected" THEN m.kind = "LOGON" ELSE at = "active" /\ m.kind # "LOGON"
              => Ordered(Append(q, m), StageAfter(m.kind), on, welcomed)
         /\ q # <<>> /\ on => \A b : Ordered(Tail(q), at, on, b)
         /\ q # <<>> => Ordered(q, at, TRUE, TRUE)
         /\ \A b : (on /\ welcomed => b) => Ordered(q, at, on, b)
<1>1. /\ Len(q) \in Nat
      /\ \A j \in 1 .. Len(q) :
           /\ q[j].kind \notin {"MALFORMED", "WRONG_TARGET"}
           /\ q[j].kind = "LOGOFF" => j = Len(q) /\ at = "leaving"
           /\ q[j].kind = "LOGON" => j = 1 /\ (on => welcomed)
      /\ ~on => \/ at = "connected" /\ q = <<>>
                \/ at # "connected" /\ q # <<>> /\ q[1].kind = "LOGON"
      /\ at = "connected" => ~on
  BY DEF Ordered
<1>2. ASSUME NEW m \in Message, m.kind \notin {"MALFORMED", "WRONG_TARGET"},
             IF at = "connected" THEN m.kind = "LOGON" ELSE at = "active" /\ m.kind # "LOGON"
      PROVE  Ordered(Append(q, m), StageAfter(m.kind), on, welcomed)
  <2> DEFINE p == Append(q, m)
  <2>1. /\ p \in Seq(Message) /\ Len(p) = Len(q) + 1 /\ p[Len(q) + 1] = m
        /\ \A j \in 1 .. Len(q) : p[j] = q[j]
    OBVIOUS
  <2>2. q = <<>> => Len(q) = 0
    OBVIOUS
  <2>3. q # <<>> => Len(q) > 0
    OBVIOUS
  <2> HIDE DEF p
  <2>4. ASSUME NEW j \in 1 .. Len(p)
        PROVE  /\ p[j].kind \notin {"MALFORMED", "WRONG_TARGET"}
               /\ p[j].kind = "LOGOFF" => j = Len(p) /\ StageAfter(m.kind) = "leaving"
               /\ p[j].kind = "LOGON" => j = 1 /\ (on => welcomed)
    <3>1. CASE j = Len(q) + 1
      BY <1>1, <1>2, <2>1, <2>2, <3>1 DEF StageAfter
    <3>2. CASE j # Len(q) + 1
      <4>1. j \in 1 .. Len(q) /\ p[j] = q[j]
        BY <1>1, <2>1, <3>2
      <4>2. at # "leaving"
        BY <1>2
      <4> QED
        BY <1>1, <4>1, <4>2
    <3> QED
      BY <3>1, <3>2
  <2>5. p # <<>>
    BY <1>1, <2>1
  <2>6. StageAfter(m.kind) # "connected"
    BY DEF StageAfter
  <2>7. ~on => p[1].kind = "LOGON"
    <3>1. CASE q = <<>>
      <4>1. p[1] = m
        BY <2>1, <2>2, <3>1
      <4> QED
        BY <1>1, <1>2, <3>1, <4>1
    <3>2. CASE q # <<>>
      <4>1. p[1] = q[1]
        BY <1>1, <2>1, <2>3, <3>2
      <4> QED
        BY <1>1, <3>2, <4>1
    <3> QED
      BY <3>1, <3>2
  <2>8. Ordered(p, StageAfter(m.kind), on, welcomed)
    BY <2>4, <2>5, <2>6, <2>7 DEF Ordered
  <2> QED
    BY <2>8 DEF p
<1>3. ASSUME q # <<>>, on, NEW b PROVE Ordered(Tail(q), at, on, b)
  <2> DEFINE p == Tail(q)
  <2>1. /\ Len(p) = Len(q) - 1 /\ \A j \in 1 .. Len(p) : p[j] = q[j + 1]
    BY <1>3, HeadTailProperties
  <2> HIDE DEF p
  <2>2. ASSUME NEW j \in 1 .. Len(p)
        PROVE  /\ p[j].kind \notin {"MALFORMED", "WRONG_TARGET"}
               /\ p[j].kind = "LOGOFF" => j = Len(p) /\ at = "leaving"
               /\ p[j].kind # "LOGON"
    <3>1. j + 1 \in 1 .. Len(q) /\ j + 1 # 1 /\ (j + 1 = Len(q) => j = Len(p))
      BY <1>1, <2>1
    <3> QED
      BY <1>1, <2>1, <3>1
  <2>3. Ordered(p, at, on, b)
    BY <1>1, <1>3, <2>2 DEF Ordered
  <2> QED
    BY <2>3 DEF p
<1>4. ASSUME q # <<>> PROVE Ordered(q, at, TRUE, TRUE)
  <2>1. at # "connected"
    BY <1>1, <1>4
  <2> QED
    BY <1>1, <1>4, <2>1 DEF Ordered
<1>5. ASSUME NEW b, on /\ welcomed => b PROVE Ordered(q, at, on, b)
  BY <1>1, <1>5 DEF Ordered
<1> QED
  BY <1>2, <1>3, <1>4, <1>5

LEMMA QueueNext ==
  ASSUME IInv, NumbersInv, [Next]_vars, NEW c \in Clients, clean'[c]
  PROVE  QueueInv(c)'
<1> SUFFICES ASSUME Online(c)', Serving'
             PROVE  /\ KindInv(c, Unread(link[c]))'
                    /\ NumberedFrom(Unread(link[c])', Counted(c)')
                    /\ Counted(c)' + Len(Unread(link[c])') + 1 = clientOut'[c]
  BY DEF QueueInv, NumberedFrom
<1> DEFINE w2 == (Reads(link[c]) /\ Welcoming(reactor))'
<1>1. clean[c] /\ reactor'.pc # "failed"
  BY CleanKept DEF Serving
<1>2. KindInv(c, Unread(link[c]))' = Ordered(Unread(link[c])', stage'[c], LoggedOn(c)', w2)
  BY DEF KindInv, Ordered
<1>3. CASE ~Online(c)
  <2>1. /\ Accept(c) /\ link'[c] = accepted + 1 /\ session'[accepted + 1] = NewSession
        /\ inbox'[accepted + 1] = <<>>
    BY <1>3, OnlineSteps
  <2>2. /\ stage'[c] = "connected" /\ store' = store /\ clientOut' = clientOut
        /\ reactor' = [Waiting EXCEPT !.pc = "initialise", !.slot = FreeSlot(peerFlags)]
    BY <2>1, ReactorMoves DEF Accept, Connects, IInv, TypeOK
  <2>3. reactor'.batch = <<>>
    BY <2>2 DEF Waiting
  <2>4. Unread(link[c])' = <<>>
    BY <2>1, <2>3 DEF Unread, Rest
  <2>5. ~LoggedOn(c)'
    BY <2>1, ConstantsAssumption DEF LoggedOn, NewSession
  <2>6. Counted(c)' = store[c].in
    BY <2>2, <2>5 DEF Counted
  <2>7. store[c].in + 1 = clientOut[c] /\ store[c].in \in Nat
    BY <1>1, <1>3 DEF NumbersInv, CleanInv, OverInv, IInv, TypeOK, Numbers
  <2>8. Ordered(<<>>, "connected", LoggedOn(c)', w2)
    BY <2>5 DEF Ordered
  <2>9. NumberedFrom(<<>>, Counted(c)') /\ Len(<<>>) = 0
    BY DEF NumberedFrom
  <2> QED
    BY <1>2, <2>2, <2>4, <2>6, <2>7, <2>8, <2>9
<1>4. CASE Online(c)
  <2>0. PICK k \in Connections : k = link[c]
    BY <1>1, <1>4, StaysOnline
  <2> DEFINE q == Unread(k)
             w == Reads(k) /\ Welcoming(reactor)
  <2>1. /\ k \in Connections /\ client[k] = c /\ link'[c] = k /\ Serving
        /\ ~Restart /\ ~Failing
        /\ Reads(k) => ~(RejectMalformed \/ RefuseTarget \/ RefuseNumber)
        /\ ~(DisconnectRemove /\ sessions[reactor.slot] = k)
        /\ ~ClientLeaves(c) /\ ~Accept(c)
    BY <1>1, <1>4, <2>0, StaysOnline
  <2>2. /\ q \in Seq(Message) /\ Len(q) \in Nat
    BY <2>1, UnreadType
  <2>3. Unread(link[c])' = Unread(k)'
    BY <2>1 DEF Unread, Rest, Uncounted, AtHead, Welcoming
  <2>4. /\ Ordered(q, stage[c], LoggedOn(c), w) /\ NumberedFrom(q, Counted(c))
        /\ Counted(c) + Len(q) + 1 = clientOut[c]
    BY <1>1, <1>4, <2>0, <2>1 DEF NumbersInv, CleanInv, QueueInv, KindInv
  <2>5. LoggedOn(c) \in BOOLEAN /\ w \in BOOLEAN /\ Counted(c) \in Nat
    BY <1>4, CountedSteps DEF LoggedOn, Online, Reads, Welcoming
  <2>6. w2 = (reactor'.batch # <<>> /\ reactor'.conn = k /\ Welcoming(reactor'))
    BY <2>1 DEF Reads, Welcoming
  <2> HIDE DEF q, w, w2
  <2>7. CASE AcceptMessage /\ Reads(k)
    <3>1. Unread(k)' = Tail(q) /\ q # <<>>
      <4>1. Unread(k)' = Tail(q)
        BY <2>1, <2>7, AcceptUnread DEF q
      <4>2. reactor.batch # <<>> /\ reactor.conn = k /\ AtHead(reactor)
        BY <2>7 DEF AcceptMessage, AtValidation, AtHead, Welcoming, Reads, reactor
      <4>3. Len(q) >= 1
        BY <2>0, <1>1, <2>1, <4>2, HeadFacts DEF q
      <4> QED
        BY <2>2, <4>1, <4>3
    <3>2. LoggedOn(c) /\ LoggedOn(c)' /\ Counted(c)' = Counted(c) + 1
      BY <2>0, <1>4, <2>7, CountedSteps
    <3>3. stage'[c] = stage[c] /\ clientOut'[c] = clientOut[c]
      <4>1. UNCHANGED <<stage, clientOut>>
        BY <2>7 DEF AcceptMessage, clientVars
      <4> QED
        BY <4>1
    <3>4. Ordered(Tail(q), stage[c], TRUE, w2)
      BY <2>2, <2>4, <2>5, <3>1, <3>2, OrderedSteps
    <3>5. NumberedFrom(Tail(q), Counted(c) + 1) /\ Len(Tail(q)) = Len(q) - 1
      BY <2>2, <2>4, <2>5, <3>1, NumberedSteps
    <3>6. Counted(c) + 1 + Len(Tail(q)) + 1 = clientOut[c]
      <4> DEFINE n == Len(q)
                 t == Len(Tail(q))
                 x == Counted(c)
      <4>1. n \in Nat /\ x \in Nat /\ t = n - 1 /\ x + n + 1 = clientOut[c]
        BY <2>2, <2>4, <2>5, <3>5
      <4> HIDE DEF n, t, x
      <4>2. x + 1 + t + 1 = clientOut[c]
        BY <4>1
      <4> QED
        BY <4>2 DEF t, x
    <3>7. LoggedOn(c)' = TRUE
      BY <3>2 DEF LoggedOn, Online
    <3> QED
      BY <1>2, <2>3, <3>1, <3>2, <3>3, <3>4, <3>5, <3>6, <3>7
  <2>8. ASSUME NEW kind \in SentKinds, ClientSends(c, kind)
        PROVE  /\ KindInv(c, Unread(link[c]))'
               /\ NumberedFrom(Unread(link[c])', Counted(c)')
               /\ Counted(c)' + Len(Unread(link[c])') + 1 = clientOut'[c]
    <3> DEFINE m == [kind |-> kind, seq |-> clientOut[c]]
    <3>1. /\ m \in Message /\ m.kind = kind /\ m.seq = clientOut[c]
      BY ConstantsAssumption DEF IInv, TypeOK, Message
    <3>2. Unread(k)' = Append(q, m)
      BY <2>0, <2>1, <2>8, SendUnread DEF q
    <3> HIDE DEF m
    <3>3. /\ kind \notin {"MALFORMED", "WRONG_TARGET"}
          /\ IF stage[c] = "connected" THEN kind = "LOGON" ELSE stage[c] = "active" /\ kind # "LOGON"
      BY <2>8, CleanKept DEF ClientSends, Legal
    <3>4. /\ stage'[c] = StageAfter(kind) /\ clientOut'[c] = clientOut[c] + 1
          /\ reactor' = reactor /\ session' = session /\ open' = open /\ link' = link
      BY <2>8 DEF ClientSends, IInv, TypeOK, reactor
    <3>5. ~AcceptMessage
      BY <2>8 DEF ClientSends, AcceptMessage, IInv, TypeOK, clientVars
    <3>6. Counted(c)' = Counted(c)
      BY <1>4, <3>5, CountedSteps
    <3>7. LoggedOn(c)' = LoggedOn(c) /\ w2 = w
      BY <2>6, <3>4 DEF LoggedOn, Online, w, Reads
    <3>8. Ordered(Append(q, m), StageAfter(kind), LoggedOn(c), w)
      BY <2>2, <2>4, <2>5, <3>1, <3>3, OrderedSteps
    <3>9. NumberedFrom(Append(q, m), Counted(c)) /\ Len(Append(q, m)) = Len(q) + 1
      BY <2>2, <2>4, <2>5, <3>1, NumberedSteps
    <3>10. Counted(c) + Len(Append(q, m)) + 1 = clientOut[c] + 1
      BY <2>2, <2>4, <2>5, <3>9
    <3> QED
      BY <1>2, <2>3, <3>2, <3>4, <3>6, <3>7, <3>8, <3>9, <3>10
  <2>9. CASE /\ ~(AcceptMessage /\ Reads(k))
             /\ \A kind \in SentKinds : ~ClientSends(c, kind)
    <3>1. Unread(k)' = q
      <4>1. \A d \in Clients, kind \in SentKinds : ~(ClientSends(d, kind) /\ link[d] = k)
        <5>1. \A d \in Clients : link[d] = k => d = c
          BY <2>0, <1>4, <2>1 DEF NumbersInv, LinkInv, Online
        <5> QED
          BY <2>9, <5>1
      <4>2. IdleInv
        BY DEF NumbersInv
      <4> QED
        BY <2>1, <2>9, <4>1, <4>2, UnreadKept DEF q
    <3>2. Counted(c)' = Counted(c)
      BY <2>0, <1>4, <2>9, CountedSteps
    <3>3. stage'[c] = stage[c] /\ clientOut'[c] = clientOut[c]
      BY <2>1, <2>9, StageSteps
    <3>4. Ordered(q, stage[c], LoggedOn(c)', w2)
      <4>1. CASE ~LoggedOn(c) /\ LoggedOn(c)'
        <5>1. HandleLogon /\ reactor.conn = k
          BY <2>0, <4>1, LogonSteps
        <5>2. Reads(k)
          BY <2>0, <2>1, <5>1, LogonSteps
        <5>3. reactor' = [reactor EXCEPT !.pc = "send", !.then = "validate"]
          BY <5>1, ReactorMoves
        <5>4. reactor'.batch = reactor.batch /\ reactor'.conn = reactor.conn /\ Welcoming(reactor')
          BY <5>3 DEF Welcoming, IInv, TypeOK, Threads, reactor
        <5>5. w2
          BY <2>6, <5>2, <5>4 DEF Reads
        <5>6. q # <<>>
          <6>1. reactor.batch # <<>> /\ AtHead(reactor)
            BY <5>1, <5>2 DEF HandleLogon, AtHead, Reads, reactor
          <6>2. Len(q) >= 1
            BY <2>0, <1>1, <2>1, <5>1, <6>1, HeadFacts DEF q
          <6> QED
            BY <2>2, <6>2
        <5>7. Ordered(q, stage[c], TRUE, TRUE)
          BY <2>2, <2>4, <2>5, <5>6, OrderedSteps
        <5>8. LoggedOn(c)' = TRUE /\ w2 = TRUE
          BY <4>1, <5>5 DEF LoggedOn, Online, w2, Reads, Welcoming
        <5> QED
          BY <5>7, <5>8
      <4>2. CASE LoggedOn(c) /\ LoggedOn(c)'
        <5>1. LoggedOn(c)' = LoggedOn(c)
          BY <4>2 DEF LoggedOn, Online
        <5>2. w => w2
          <6>1. ASSUME w PROVE w2
            <7>1. reactor.batch # <<>> /\ reactor.conn = k /\ Welcoming(reactor)
              BY <6>1 DEF w, Reads
            <7>2. ~AcceptMessage
              BY <2>9, <7>1 DEF Reads
            <7>3. reactor'.batch = reactor.batch /\ reactor'.conn = reactor.conn /\ Welcoming(reactor')
              BY <1>1, <2>1, <7>1, <7>2, WelcomingSteps
            <7> QED
              BY <2>6, <7>1, <7>3
          <6> QED
            BY <6>1
        <5>3. Ordered(q, stage[c], LoggedOn(c), w2)
          BY <2>2, <2>4, <2>5, <5>2, OrderedSteps
        <5> QED
          BY <5>1, <5>3
      <4>3. CASE ~LoggedOn(c) /\ ~LoggedOn(c)'
        <5>1. LoggedOn(c)' = LoggedOn(c)
          BY <4>3 DEF LoggedOn, Online
        <5>2. Ordered(q, stage[c], LoggedOn(c), w2)
          BY <2>2, <2>4, <2>5, <4>3, OrderedSteps
        <5> QED
          BY <5>1, <5>2
      <4>4. ~(LoggedOn(c) /\ ~LoggedOn(c)')
        BY <2>0, <2>1, LogonSteps
      <4> QED
        BY <4>1, <4>2, <4>3, <4>4
    <3> QED
      BY <1>2, <2>3, <2>4, <3>1, <3>2, <3>3, <3>4
  <2> QED
    BY <2>7, <2>8, <2>9
<1> QED
  BY <1>3, <1>4
-----------------------------------------------------------------------------
(* What the threads do for a clean client *)

(* Where a step of the reactor on a batch leads *)
LEMMA BatchSteps ==
  ASSUME IInv, NumbersInv, [Next]_vars, reactor'.batch # <<>>
  PROVE  \/ /\ Reading /\ reactor'.pc = "process"
            /\ reactor'.conn \in Connections /\ open[reactor'.conn] /\ open' = open
         \/ /\ reactor'.pc = "process" /\ reactor.pc # "process"
            /\ reactor.batch # <<>> /\ reactor'.conn = reactor.conn
            /\ DisconnectRemove \/ open' = open
         \/ /\ reactor.batch # <<>> /\ reactor'.conn = reactor.conn /\ AcceptMessage
         \/ /\ reactor'.batch = reactor.batch /\ reactor'.conn = reactor.conn
            /\ ~AcceptMessage /\ ~DisconnectRemove
<1>1. reactor \in ThreadRecord /\ TypeOK
  BY DEF IInv, TypeOK, ThreadRecord, Threads, reactor
<1>2. Waiting.batch = <<>> /\ Failed.batch = <<>>
  BY DEF Waiting, Failed
<1>3. ASSUME reactor' = Resume(reactor)
      PROVE  /\ reactor'.pc = "process" /\ reactor.batch # <<>> /\ reactor'.conn = reactor.conn
  <2>1. /\ Len(reactor.batch) > 1 /\ Tail(reactor.batch) # <<>>
        /\ Resume(reactor) = [reactor EXCEPT !.pc = "process", !.batch = Tail(@), !.num = 0,
                                             !.then = "poll"]
    BY <1>1, <1>2, <1>3, ResumeFacts
  <2>2. reactor.batch # <<>>
    BY <2>1
  <2> QED
    BY <1>1, <1>3, <2>1, <2>2 DEF ThreadRecord
<1>4. CASE Reading
  <2>1. PICK i \in DOMAIN peers : HandleClient(i)
    BY <1>4 DEF Reading
  <2>2. reactor'.pc = "process" /\ reactor'.conn = sessions[i]
    BY <2>1, ReactorMoves DEF Waiting
  <2>3. sessions[i] = peers[i] /\ sessions[i] \in Connections
    BY SlotFacts DEF IInv, TableInv
  <2>4. open[peers[i]] /\ open' = open
    BY <2>1 DEF HandleClient
  <2> QED
    BY <1>4, <2>2, <2>3, <2>4
<1>5. CASE DisconnectRemove
  <2>1. reactor.pc = "remove"
    BY <1>5 DEF DisconnectRemove, reactor
  <2> QED
    BY <1>3, <1>5, <2>1, ReactorMoves
<1>6. CASE Unlock("reactor")
  <2>1. reactor.pc = "unlock" /\ open' = open
    BY <1>6 DEF Unlock, reactor, wireVars
  <2> QED
    BY <1>3, <1>6, <2>1, ReactorMoves
<1>7. CASE Increment("reactor")
  <2>1. reactor.pc = "increment" /\ open' = open /\ ~AcceptMessage /\ ~DisconnectRemove
    BY <1>7 DEF Increment, AcceptMessage, AtValidation, DisconnectRemove, reactor, wireVars
  <2>2. CASE reactor.then = "next"
    BY <1>3, <1>7, <2>1, <2>2, ReactorMoves
  <2>3. CASE reactor.then # "next"
    BY <1>1, <1>7, <2>1, <2>3, ReactorMoves DEF ThreadRecord
  <2> QED
    BY <2>2, <2>3
<1>8. CASE AcceptMessage
  <2>1. reactor.pc \in AtMessage
    BY <1>8 DEF AcceptMessage, AtValidation, AtMessage, reactor
  <2>2. reactor.batch # <<>> /\ reactor.conn = sessions[reactor.slot]
    BY <2>1, AtMessageFacts DEF IInv
  <2>3. reactor' = Answer(reactor, Head(reactor.batch))
    BY <1>8, ReactorMoves
  <2>4. reactor' = Resume(reactor) \/ reactor'.conn = reactor.conn
    BY <1>1, <2>2, <2>3 DEF Answer, ThreadRecord
  <2> QED
    BY <1>3, <1>8, <2>2, <2>4
<1>9. CASE Transmit("reactor") \/ Lock("reactor") \/ RejectMalformed \/ HandleLogon
           \/ RefuseTarget \/ RefuseNumber \/ DisconnectSave
  <2>1. reactor'.batch = reactor.batch /\ reactor'.conn = reactor.conn
    BY <1>1, <1>9, ReactorMoves DEF ThreadRecord
  <2> QED
    BY <1>5, <1>8, <2>1
<1>10. ~(Accepts \/ Initialise \/ Failing \/ Restart \/ Stop \/ HangsUp)
  <2>1. Accepts => reactor'.batch = <<>>
    <3>1. \A i : [Waiting EXCEPT !.pc = "initialise", !.slot = i].batch = <<>>
      BY DEF Waiting
    <3> QED
      BY <3>1, ReactorMoves DEF Accepts
  <2>2. HangsUp => reactor'.batch = <<>>
    <3>1. \A i : [Waiting EXCEPT !.pc = "disconnect", !.slot = i].batch = <<>>
      BY DEF Waiting
    <3> QED
      BY <3>1, ReactorMoves DEF HangsUp
  <2>3. [Waiting EXCEPT !.pc = "stopping", !.slot = 1].batch = <<>>
    BY DEF Waiting
  <2>4. Stop \/ Initialise \/ Restart \/ Failing => reactor'.batch = <<>>
    BY <1>2, <2>3, ReactorMoves
  <2> QED
    BY <2>1, <2>2, <2>4
<1>11. CASE StopSave
  <2>1. reactor'.batch = reactor.batch /\ reactor'.conn = reactor.conn
    BY <1>1, <1>11, ReactorMoves DEF ThreadRecord
  <2> QED
    BY <1>5, <1>8, <2>1
<1>12. CASE reactor' = reactor
  BY <1>5, <1>8, <1>12
<1> QED
  BY <1>1, <1>4, <1>5, <1>6, <1>7, <1>8, <1>9, <1>10, <1>11, <1>12, ReactorSteps
     DEF ReactorWorks, Sending

(* How the reactor comes to answer, to welcome and to disconnect *)
LEMMA PhaseSteps ==
  ASSUME IInv, [Next]_vars
  PROVE  /\ reactor.pc = "process" /\ reactor'.pc # "process" =>
              \/ HandleLogon \/ RejectMalformed \/ RefuseTarget \/ RefuseNumber \/ AcceptMessage
              \/ Failing \/ Restart
         /\ Welcoming(reactor') /\ ~Welcoming(reactor) => HandleLogon
         /\ Leaving(reactor') /\ ~Leaving(reactor) =>
              \/ AcceptMessage /\ Head(reactor.batch).kind = "LOGOFF"
              \/ RefuseTarget \/ RefuseNumber \/ HangsUp
         /\ reactor'.pc \in {"disconnect", "remove"} =>
              \/ HangsUp
              \/ /\ reactor'.batch = reactor.batch /\ reactor'.slot = reactor.slot
                 /\ reactor.pc \in AtMessage /\ reactor'.pc = "disconnect"
                 /\ \/ RefuseTarget \/ RefuseNumber
                    \/ /\ Increment("reactor")
                       /\ reactor.pc = "increment" /\ reactor.then = "disconnect"
              \/ /\ reactor'.batch = reactor.batch /\ reactor'.slot = reactor.slot
                 /\ reactor.pc \in {"disconnect", "remove"}
                 /\ reactor'.pc = reactor.pc \/ DisconnectSave
<1>1. reactor \in ThreadRecord /\ TypeOK /\ ReactorInv
  BY DEF IInv, TypeOK, ThreadRecord, Threads, reactor
<1> USE DEF Welcoming, Leaving
<1>2. CASE reactor' = reactor
  BY <1>2
<1>3. CASE Accepts \/ Initialise \/ Stop \/ StopSave
  <2>1. reactor.pc \in {"poll", "initialise", "stopping"}
        /\ reactor'.pc \in {"initialise", "poll", "stopping", "stopped"}
    BY <1>1, <1>3, ReactorPcs DEF Accepts, Accept, Connects, Initialise, Stop, StopSave, reactor
  <2> QED
    BY <2>1
<1>4. CASE HangsUp
  <2>1. reactor.pc = "poll" /\ reactor'.pc = "disconnect"
    BY <1>1, <1>4, ReactorPcs DEF HangsUp, HangUp, reactor
  <2> QED
    BY <1>4, <2>1
<1>5. CASE Reading
  <2>1. reactor.pc = "poll" /\ reactor'.pc = "process"
    BY <1>1, <1>5, ReactorPcs DEF Reading, HandleClient, reactor
  <2> QED
    BY <2>1
<1>6. CASE Failing \/ Restart
  <2>1. reactor' = Failed \/ reactor' = Waiting
    BY <1>6, ReactorMoves
  <2>2. reactor'.pc \in {"failed", "poll"}
    BY <1>1, <2>1, ResumePc
  <2> QED
    BY <1>6, <2>2
<1>7. CASE HandleLogon \/ RejectMalformed
  <2>1. reactor.pc = "process" /\ reactor'.pc = "send" /\ reactor'.then \in {"next", "validate"}
        /\ (RejectMalformed => reactor'.then = "next")
    <3>1. reactor.pc = "process"
      BY <1>7 DEF HandleLogon, RejectMalformed, reactor
    <3>2. RejectMalformed => reactor'.then = "next"
      BY <1>1, ReactorMoves DEF ThreadRecord
    <3> QED
      BY <1>1, <1>7, <3>1, <3>2, ReactorPcs
  <2> QED
    BY <1>7, <2>1
<1>8. CASE RefuseTarget \/ RefuseNumber
  <2>1. reactor.pc \in AtMessage /\ reactor.pc \in {"process", "validate"}
    BY <1>8 DEF RefuseTarget, RefuseNumber, AtValidation, AtMessage, reactor
  <2>2. /\ reactor'.pc = "disconnect" /\ reactor'.batch = reactor.batch
        /\ reactor'.slot = reactor.slot
    BY <1>1, <1>8, ReactorMoves DEF ThreadRecord
  <2> QED
    BY <1>8, <2>1, <2>2
<1>9. CASE AcceptMessage
  <2>1. reactor.pc \in {"process", "validate"}
    BY <1>9 DEF AcceptMessage, AtValidation, reactor
  <2>2. reactor' = Answer(reactor, Head(reactor.batch))
    BY <1>9, ReactorMoves
  <2>3. Resume(reactor).pc \in {"process", "poll"}
    BY <1>1, ResumePc
  <2>4. \/ reactor'.pc \in {"process", "poll", "lock"}
        \/ reactor'.pc = "send" /\ reactor'.then = "next"
        \/ reactor'.pc = "send" /\ reactor'.then = "disconnect" /\ Head(reactor.batch).kind = "LOGOFF"
    BY <1>1, <2>2, <2>3 DEF Answer, ThreadRecord
  <2> QED
    BY <1>9, <2>1, <2>4
<1>10. CASE DisconnectSave
  <2>1. reactor.pc = "disconnect" /\ reactor' = [reactor EXCEPT !.pc = "remove"]
    BY <1>10, ReactorMoves DEF DisconnectSave, reactor
  <2>2. /\ reactor'.pc = "remove" /\ reactor'.slot = reactor.slot /\ reactor'.batch = reactor.batch
    BY <1>1, <2>1 DEF ThreadRecord
  <2> QED
    BY <1>10, <2>1, <2>2
<1>11. CASE DisconnectRemove \/ Unlock("reactor")
  <2>1. reactor.pc \in {"remove", "unlock"}
    BY <1>11 DEF DisconnectRemove, Unlock, reactor
  <2>2. reactor'.pc \in {"process", "poll"}
    BY <1>1, <1>11, ReactorMoves, ResumePc
  <2> QED
    BY <2>1, <2>2
<1>12. CASE Transmit("reactor") \/ Lock("reactor")
  <2>1. /\ Transmit("reactor") => reactor.pc = "send"
        /\ Lock("reactor") => reactor.pc = "lock"
    BY DEF Transmit, Lock, reactor
  <2>2. /\ Transmit("reactor") => reactor'.pc = "increment" /\ reactor'.then = reactor.then
        /\ Lock("reactor") => reactor'.pc = "send" /\ reactor'.then = "unlock"
    BY <1>1, ReactorMoves DEF ThreadRecord
  <2> QED
    BY <1>12, <2>1, <2>2
<1>13. CASE Increment("reactor")
  <2>1. reactor.pc = "increment"
    BY <1>13 DEF Increment, reactor
  <2>2. reactor.then \in {"next", "validate", "disconnect", "unlock"}
    BY <1>1, <2>1 DEF ReactorInv
  <2>3. /\ reactor.then = "next" => reactor'.pc \in {"process", "poll"}
        /\ reactor.then # "next" => /\ reactor'.pc = reactor.then /\ reactor'.batch = reactor.batch
                                    /\ reactor'.slot = reactor.slot
    BY <1>1, <1>13, ReactorMoves, ResumePc DEF ThreadRecord
  <2> QED
    BY <1>13, <2>1, <2>2, <2>3 DEF AtMessage, AtSession
<1> QED
  BY <1>1, <1>2, <1>3, <1>4, <1>5, <1>6, <1>7, <1>8, <1>9, <1>10, <1>11, <1>12, <1>13, ReactorSteps
     DEF ReactorWorks, Sending

(* The batch of a client that is removed has ended. *)
LEMMA RemovedLast ==
  ASSUME IInv, NumbersInv, NEW c \in Clients, clean[c],
         DisconnectRemove, client[sessions[reactor.slot]] = c
  PROVE  reactor' = Waiting
<1>1. reactor.pc = "remove"
  BY DEF DisconnectRemove, reactor
<1>2. /\ reactor.batch # <<>> /\ reactor.conn = sessions[reactor.slot] /\ link[c] = reactor.conn
      /\ Unread(link[c]) = <<>>
  BY <1>1, LeavingFacts
<1>3. reactor.batch \in Seq(Message) /\ inbox[link[c]] \in Seq(Message) /\ reactor \in ThreadRecord
  BY <1>2, HeadFacts DEF IInv, TypeOK, ThreadRecord, Threads, reactor
<1>4. ~AtHead(reactor)
  BY <1>1 DEF AtHead, Welcoming
<1>5. Tail(reactor.batch) \o inbox[link[c]] = <<>>
  BY <1>2, <1>4, HeadFacts
<1> DEFINE b == Tail(reactor.batch)
           x == inbox[link[c]]
           n == Len(reactor.batch)
<1>6. b \in Seq(Message) /\ x \in Seq(Message) /\ b \o x = <<>> /\ Len(b) = n - 1 /\ n \in Nat
  BY <1>2, <1>3, <1>5
<1>7. Len(b) = 0
  <2> HIDE DEF b, x
  <2>0. b \in Seq(Message) /\ x \in Seq(Message)
    BY <1>6
  <2>1. Len(b \o x) = Len(b) + Len(x) /\ Len(b) \in Nat /\ Len(x) \in Nat
    BY <2>0, ConcatProperties
  <2>2. Len(b \o x) = 0
    BY <1>6
  <2> QED
    BY <2>1, <2>2
<1>8. n = 1
  <2> HIDE DEF b, n
  <2> QED
    BY <1>6, <1>7
<1>9. Resume(reactor) = Waiting
  BY <1>8 DEF Resume
<1> QED
  BY <1>9, ReactorMoves

LEMMA OneTail ==
  ASSUME NEW q \in Seq(Message), Len(q) = 1
  PROVE  Tail(q) = <<>>
<1> DEFINE t == Tail(q)
<1>1. q # <<>>
  OBVIOUS
<1>2. t \in Seq(Message) /\ Len(t) = 0
  BY <1>1
<1> HIDE DEF t
<1>3. t = <<>>
  BY <1>2
<1> QED
  BY <1>3 DEF t

LEMMA AnswerNext ==
  ASSUME IInv, NumbersInv, [Next]_vars, NEW c \in Clients, clean'[c]
  PROVE  AnswerInv(c)'
<1>1. clean[c] /\ AnswerInv(c) /\ ConnectionInv(c) /\ IdleInv
  BY CleanKept DEF NumbersInv, CleanInv
<1>2. ASSUME reactor'.batch # <<>>, client'[reactor'.conn] = c
      PROVE  /\ open'[reactor'.conn]
             /\ reactor'.pc # "process" => session'[reactor'.conn].comp = c
             /\ Welcoming(reactor') => Head(reactor'.batch).kind = "LOGON"
             /\ Leaving(reactor') => stage'[c] = "leaving" /\ Unread(reactor.conn)' = <<>>
  <2>1. CASE Reading /\ reactor'.pc = "process" /\ open[reactor'.conn] /\ open' = open
    BY <2>1 DEF Welcoming, Leaving
  <2>2. CASE reactor.batch # <<>> /\ reactor'.conn = reactor.conn
    <3>1. reactor.conn \in 1 .. accepted
      BY <2>2, SlotFacts DEF IInv, ReactorInv
    <3>2. client[reactor.conn] = c
      BY <1>2, <2>2, <3>1, ClientKept
    <3>3. PICK k \in Connections : k = reactor.conn
      BY <1>1, <2>2, <3>2, HeadFacts
    <3>4. Online(c) /\ link[c] = k /\ Reads(k) /\ Serving
      BY <1>1, <2>2, <3>2, <3>3, HeadFacts
    <3>5. ~(RefuseTarget \/ RefuseNumber \/ RejectMalformed)
      BY <1>1, <3>2, NeverRefused
    <3>6. ~DisconnectRemove
      <4>1. sessions[reactor.slot] = reactor.conn
        BY <2>2 DEF IInv, ReactorInv
      <4> QED
        BY <1>1, <1>2, <3>2, <4>1, RemovedLast DEF Waiting
    <3>7. Online(c)' /\ link'[c] = k
      BY <3>4, <3>6, OnlineSteps
    <3>8. ~Restart /\ ~Failing /\ ~HangsUp /\ reactor'.pc # "failed"
      <4>1. Waiting.batch = <<>> /\ Failed.batch = <<>>
        BY DEF Waiting, Failed
      <4>2. HangsUp => reactor.pc = "poll"
        BY DEF HangsUp, HangUp, reactor
      <4>3. reactor.pc # "poll"
        BY <1>1, <2>2 DEF IdleInv, AtMessage, AtSession
      <4>4. ~Restart /\ ~Failing
        BY <1>2, <4>1, ReactorMoves
      <4>5. reactor'.pc # "failed"
        <5>1. IdleInv'
          BY <1>1, IdleNext
        <5> QED
          BY <1>2, <5>1 DEF IdleInv, AtMessage, AtSession
      <4> QED
        BY <4>2, <4>3, <4>4, <4>5
    <3>9. open'[reactor'.conn]
      BY <2>2, <3>3, <3>7 DEF Online
    <3>10. ASSUME reactor'.pc # "process" PROVE session'[reactor'.conn].comp = c
      <4>1. CASE session[k].comp = c
        BY <2>2, <3>2, <3>3, <4>1, CompSteps
      <4>2. CASE HandleLogon
        BY <2>2, <3>2, <3>3, <3>7, <4>2, LogonSteps DEF LoggedOn
      <4>3. CASE AcceptMessage
        <5>1. AtHead(reactor) /\ AtValidation
          BY <4>3 DEF AcceptMessage, AtValidation, AtHead, Welcoming, reactor
        <5>2. LoggedOn(c)
          BY <1>1, <2>2, <3>2, <5>1, ValidHead
        <5> QED
          BY <3>4, <4>1, <5>2 DEF LoggedOn
      <4>4. CASE reactor.pc # "process"
        BY <1>1, <2>2, <3>2, <3>3, <4>1, <4>4 DEF AnswerInv
      <4> QED
        BY <3>5, <3>8, <3>10, <4>2, <4>3, <4>4, PhaseSteps
    <3>11. ASSUME Welcoming(reactor') PROVE Head(reactor'.batch).kind = "LOGON"
      <4>1. CASE Welcoming(reactor)
        <5>1. Head(reactor.batch).kind = "LOGON"
          BY <1>1, <2>2, <3>2, <4>1 DEF AnswerInv
        <5>2. ~AcceptMessage
          <6>1. AcceptMessage => \/ reactor'.pc \in {"process", "poll", "lock"}
                                 \/ reactor'.pc = "send" /\ reactor'.then \in {"next", "disconnect"}
            BY ReactorPcs DEF IInv
          <6> QED
            BY <3>11, <6>1 DEF Welcoming
        <5>3. reactor'.batch = reactor.batch
          BY <1>1, <2>2, <3>2, <3>8, <4>1, <5>2, WelcomingSteps
        <5> QED
          BY <5>1, <5>3
      <4>2. CASE HandleLogon
        <5>1. reactor'.batch = reactor.batch
          BY <4>2, ReactorMoves DEF IInv, TypeOK, Threads, reactor
        <5> QED
          BY <4>2, <5>1 DEF HandleLogon, reactor
      <4> QED
        BY <3>11, <4>1, <4>2, PhaseSteps
    <3>12. ASSUME Leaving(reactor') PROVE stage'[c] = "leaving" /\ Unread(reactor.conn)' = <<>>
      <4>0. Unread(reactor.conn)' = Unread(k)'
        BY <2>2, <3>3 DEF Unread, Rest, Uncounted, AtHead, Welcoming
      <4>1. CASE Leaving(reactor)
        <5>1. stage[c] = "leaving" /\ Unread(k) = <<>>
          BY <1>1, <2>2, <3>2, <3>3, <4>1 DEF AnswerInv
        <5>2. \A kind : ~ClientSends(c, kind)
          BY <5>1 DEF ClientSends, Legal
        <5>3. ~Accept(c) /\ ~ClientLeaves(c)
          BY <3>4, <3>7, <3>8, StaysOnline
        <5>4. stage'[c] = "leaving"
          BY <5>1, <5>2, <5>3, StageSteps
        <5>5. \A d \in Clients, kind \in SentKinds : ~(ClientSends(d, kind) /\ link[d] = k)
          <6>1. \A d \in Clients : link[d] = k => d = c
            BY <3>2, <3>3, <3>4 DEF NumbersInv, LinkInv, Online
          <6> QED
            BY <5>2, <6>1
        <5>6. ~AcceptMessage
          BY <4>1 DEF AcceptMessage, AtValidation, Leaving, reactor
        <5>7. Unread(k)' = Unread(k)
          BY <1>1, <3>5, <3>6, <3>8, <5>5, <5>6, UnreadKept
        <5> QED
          BY <4>0, <5>1, <5>4, <5>7
      <4>2. CASE AcceptMessage /\ Head(reactor.batch).kind = "LOGOFF"
        <5>1. AtHead(reactor)
          BY <4>2 DEF AcceptMessage, AtValidation, AtHead, Welcoming, reactor
        <5>2. stage[c] = "leaving" /\ Len(Unread(link[c])) = 1
          BY <1>1, <2>2, <3>2, <4>2, <5>1, ValidHead
        <5>3. stage' = stage
          BY <4>2 DEF AcceptMessage, clientVars
        <5>4. Unread(k)' = Tail(Unread(k)) /\ Unread(k) \in Seq(Message) /\ Len(Unread(k)) = 1
          BY <3>4, <4>2, <5>2, AcceptUnread, UnreadType
        <5>5. Tail(Unread(k)) = <<>>
          BY <5>4, OneTail
        <5> QED
          BY <4>0, <5>2, <5>3, <5>4, <5>5
      <4> QED
        BY <3>5, <3>8, <3>12, <4>1, <4>2, PhaseSteps
    <3> QED
      BY <3>9, <3>10, <3>11, <3>12
  <2> QED
    BY <1>2, <2>1, <2>2, BatchSteps
<1>3. ASSUME reactor'.pc \in {"disconnect", "remove"}, client'[sessions'[reactor'.slot]] = c
      PROVE  reactor'.batch # <<>>
  <2>1. CASE HangsUp
    <3>1. PICK i \in DOMAIN peers : HangUp(i)
      BY <2>1 DEF HangsUp
    <3>2. reactor'.slot = i
      <4>1. reactor' = [Waiting EXCEPT !.pc = "disconnect", !.slot = i]
        BY <3>1, ReactorMoves
      <4> QED
        BY <4>1 DEF Waiting
    <3>3. /\ sessions' = sessions /\ client' = client /\ open[peers[i]]
          /\ link[client[peers[i]]] # peers[i]
      BY <3>1 DEF HangUp, wireVars, tableVars
    <3>4. peers[i] = sessions[i] /\ peers[i] \in Connections
      BY SlotFacts DEF IInv, TableInv
    <3> QED
      BY <1>1, <1>3, <3>2, <3>3, <3>4 DEF ConnectionInv
  <2>2. CASE reactor'.batch = reactor.batch /\ reactor.pc \in AtMessage
    BY <2>2 DEF IInv, ReactorInv
  <2>3. CASE /\ reactor'.batch = reactor.batch /\ reactor'.slot = reactor.slot
             /\ reactor.pc \in {"disconnect", "remove"}
    <3>1. ~Accepts /\ ~DisconnectRemove /\ ~Restart
      <4>1. Accepts => reactor.pc = "poll"
        BY DEF Accepts, Accept, Connects, reactor
      <4>2. DisconnectRemove => reactor'.pc \in {"process", "poll"}
        BY ReactorPcs DEF IInv
      <4>3. Restart => reactor'.pc = "poll"
        <5>1. Waiting.pc = "poll"
          BY DEF Waiting
        <5> QED
          BY <5>1, ReactorMoves
      <4> QED
        BY <1>3, <2>3, <4>1, <4>2, <4>3
    <3>2. sessions' = sessions /\ client' = client
      BY <3>1, Frames DEF Framed, TableStep, tableVars
    <3> QED
      BY <1>1, <1>3, <2>3, <3>2 DEF AnswerInv
  <2> QED
    BY <1>3, <2>1, <2>2, <2>3, PhaseSteps
<1> QED
  BY <1>2, <1>3 DEF AnswerInv, Welcoming, Leaving

(* The processor takes the session in the slot of the report. *)
LEMMA ReportFacts ==
  ASSUME IInv, TakeReport, processor' # processor
  PROVE  /\ reports # <<>> /\ Head(reports).slot \in DOMAIN sessions
         /\ sessionFlags[Head(reports).slot]
         /\ \E n \in DOMAIN reports : reports[n].slot = Head(reports).slot
         /\ processor'.slot = Head(reports).slot /\ processor'.conn = sessions[Head(reports).slot]
         /\ processor'.pc = "lock"
<1>1. thread \in [Threads -> ThreadRecord] /\ "processor" \in Threads /\ reports \in Seq(Origin)
  BY DEF IInv, TypeOK, ThreadRecord, Threads
<1>2. /\ reports # <<>> /\ sessionFlags[Head(reports).slot]
      /\ processor' = [Waiting EXCEPT !.pc = "lock", !.slot = Head(reports).slot,
                                     !.conn = sessions[Head(reports).slot],
                                     !.owner = Head(reports).owner]
  BY <1>1 DEF TakeReport, processor
<1>3. 1 \in DOMAIN reports /\ reports[1] = Head(reports)
  BY <1>1, <1>2
<1>4. Head(reports).slot \in DOMAIN sessions
  BY <1>3 DEF IInv, OriginInv
<1> DEFINE o == Head(reports)
<1>5. processor' = [Waiting EXCEPT !.pc = "lock", !.slot = o.slot, !.conn = sessions[o.slot],
                                   !.owner = o.owner]
  BY <1>2
<1> HIDE DEF o
<1>6. processor'.slot = o.slot /\ processor'.conn = sessions[o.slot] /\ processor'.pc = "lock"
  BY <1>5 DEF Waiting
<1> QED
  BY <1>2, <1>3, <1>4, <1>6 DEF o

(* Nobody uses the session of a clean client before its LOGON. *)
LEMMA QuietKept ==
  ASSUME IInv, NumbersInv, [Next]_vars, NEW c \in Clients, clean'[c]
  PROVE  QuietInv(c)'
<1>1. clean[c] /\ QuietInv(c) /\ ConnectionInv(c) /\ accepted \in Nat
  BY CleanKept, SlotFacts DEF NumbersInv, CleanInv, IInv
<1>2. ASSUME Online(c)', ~LoggedOn(c)', NEW i \in DOMAIN sessions', sessions'[i] = link'[c]
      PROVE  Quiet(i)'
  <2>1. CASE Accept(c)
    <3>1. PICK j \in Connections, k \in Connections : TakesSlot(j, k)
      BY <2>1, AcceptFacts DEF IInv
    <3>2. k = accepted + 1 /\ link'[c] = k
      BY <2>1, <3>1, OnlineSteps DEF TakesSlot
    <3>3. i = j
      <4>1. i # j => sessions'[i] \in 1 .. accepted
        BY <3>1, SlotFacts DEF TakesSlot, IInv
      <4> QED
        BY <1>1, <1>2, <3>2, <4>1
    <3>4. Quiet(j)
      BY <2>1, <3>1, CleanKept DEF TakesSlot
    <3>5. orders' = orders /\ reports' = reports /\ thread'["processor"] = thread["processor"]
      BY <2>1 DEF Accept, Connects, bookVars, IInv, TypeOK, Threads
    <3> QED
      BY <3>3, <3>4, <3>5 DEF Quiet
  <2>2. CASE ~Accept(c)
    <3>1. Online(c) /\ link'[c] = link[c]
      BY <1>2, <2>2, OnlineSteps
    <3>2. ~LoggedOn(c)
      <4>1. DisconnectRemove /\ sessions[reactor.slot] = link[c] => ~Online(c)'
        BY OnlineSteps
      <4> QED
        BY <1>2, <4>1, LogonSteps
    <3>3. link[c] \in 1 .. accepted /\ client[link[c]] = c
      BY <3>1 DEF Online, NumbersInv, LinkInv
    <3>4. ~Restart
      BY <3>1, CleanKept DEF Online
    <3>5. i \in DOMAIN sessions /\ sessions[i] = link[c]
      <4>1. CASE Accepts
        <5>1. PICK d \in Clients : Accept(d)
          BY <4>1 DEF Accepts
        <5>2. PICK j \in Connections, k \in Connections : TakesSlot(j, k)
          BY <5>1, AcceptFacts DEF IInv
        <5>3. i # j
          BY <1>1, <1>2, <3>1, <3>3, <5>2 DEF TakesSlot
        <5> QED
          BY <1>2, <3>1, <5>2, <5>3 DEF TakesSlot
      <4>2. CASE sessions' = sessions
        BY <1>2, <3>1, <4>2
      <4> QED
        BY <3>4, <4>1, <4>2, Frames DEF Framed, TableStep, tableVars, DisconnectRemove
    <3>6. Quiet(i) /\ i # 0
      BY <1>1, <3>1, <3>2, <3>5, SlotFacts, ConstantsAssumption DEF QuietInv, IInv
    <3>7. /\ \A o \in orders : o.slot # i
          /\ \A n \in DOMAIN reports : reports[n].slot # i
          /\ processor.slot # i
      BY <3>6 DEF Quiet, processor
    <3>8. reports \in Seq(Origin) /\ processor \in ThreadRecord
      BY DEF IInv, TypeOK, ThreadRecord, Threads, processor
    <3>9. /\ \A o \in orders' : o.slot # i
          /\ \A n \in DOMAIN reports' : reports'[n].slot # i
      <4>1. CASE AcceptMessage
        <5>1. PICK o \in Origin :
                /\ o = [slot |-> reactor.slot, owner |-> session[reactor.conn].comp]
                /\ \/ orders' = orders \cup {o} /\ reports' = Append(reports, o)
                   \/ UNCHANGED <<orders, reports>>
          BY <4>1, OriginFacts DEF IInv
        <5>2. /\ reactor.pc \in AtMessage /\ AtValidation /\ AtHead(reactor)
          BY <4>1 DEF AcceptMessage, AtValidation, AtMessage, AtHead, Welcoming, reactor
        <5>3. reactor.batch # <<>> /\ reactor.conn = sessions[reactor.slot]
          BY <5>2, AtMessageFacts DEF IInv
        <5>4. reactor.slot # i
          BY <1>1, <3>2, <3>3, <3>5, <5>2, <5>3, ValidHead
        <5>5. o.slot # i
          BY <5>1, <5>4
        <5>6. ASSUME reports' = Append(reports, o) PROVE \A n \in DOMAIN reports' : reports'[n].slot # i
          BY <3>7, <3>8, <5>5, <5>6
        <5> QED
          BY <3>7, <5>1, <5>5, <5>6
      <4>2. CASE TakeReport
        <5>1. orders' = orders /\ reports' = Tail(reports) /\ reports # <<>>
          BY <4>2 DEF TakeReport
        <5>2. \A n \in DOMAIN reports' : reports'[n].slot # i
          BY <3>7, <3>8, <5>1
        <5> QED
          BY <3>7, <5>1, <5>2
      <4>3. CASE Fills
        <5>1. PICK o \in orders : Fill(o)
          BY <4>3 DEF Fills
        <5>2. o \in Origin
          BY <5>1 DEF IInv, TypeOK
        <5>3. orders' \subseteq orders /\ reports' = Append(reports, o)
          BY <5>1 DEF Fill
        <5>4. \A n \in DOMAIN reports' : reports'[n].slot # i
          BY <3>7, <3>8, <5>2, <5>3
        <5> QED
          BY <3>7, <5>3, <5>4
      <4>4. CASE UNCHANGED bookVars
        BY <3>7, <4>4 DEF bookVars
      <4> QED
        BY <3>4, <4>1, <4>2, <4>3, <4>4, Frames DEF Framed, BookStep
    <3>10. processor'.slot # i
      <4>0. Waiting.slot = 0 /\ Failed.slot = 0
        BY DEF Waiting, Failed
      <4>1. CASE TakeReport
        BY <3>7, <4>1, ReportFacts
      <4>2. CASE Sending("processor")
        <5>1. thread \in [Threads -> ThreadRecord] /\ "processor" \in Threads
          BY DEF IInv, TypeOK, ThreadRecord, Threads
        <5>2. Transmit("processor") \/ Lock("processor") => processor'.slot = processor.slot
          BY <5>1 DEF Transmit, Lock, processor, ThreadRecord
        <5>3. Unlock("processor") => processor' = Waiting
          BY <5>1 DEF Unlock, processor
        <5>4. ASSUME Increment("processor") PROVE processor'.slot = processor.slot
          <6>1. processor.then = "unlock"
            BY <5>4 DEF Increment, IInv, ProcessorInv, processor
          <6>2. processor' = [processor EXCEPT !.pc = processor.then]
            BY <5>1, <5>4, <6>1 DEF Increment, processor
          <6> QED
            BY <3>8, <6>2 DEF ThreadRecord
        <5> QED
          BY <3>6, <3>7, <4>0, <4>2, <5>2, <5>3, <5>4 DEF Sending
      <4>3. CASE Failing
        <5>1. processor' = Failed
          BY <4>3 DEF Failing, DisconnectNothing, UseUndefined, AcceptDuringLookup, Fail,
                      Threads, processor
        <5> QED
          BY <3>6, <4>0, <5>1
      <4>4. CASE processor' = processor
        BY <3>7, <4>4
      <4> QED
        BY <3>4, <4>1, <4>2, <4>3, <4>4, ProcessorSteps DEF IInv
    <3> QED
      BY <3>9, <3>10 DEF Quiet, processor
  <2> QED
    BY <2>1, <2>2
<1>3. ASSUME processor'.pc \in AtSession, client'[processor'.conn] = c
      PROVE  session'[processor'.conn].comp = c
  <2>1. ASSUME NEW k \in Connections, client[k] = c, session[k].comp = c PROVE session'[k].comp = c
    BY <2>1, CompSteps
  <2>2. CASE TakeReport /\ processor' # processor
    <3> DEFINE i == Head(reports).slot
    <3>1. /\ sessionFlags[i] /\ reports # <<>> /\ client' = client
          /\ processor'.conn = sessions[i]
      BY <2>2, ReportFacts DEF TakeReport, wireVars
    <3>3. i \in DOMAIN sessions
      BY <2>2, ReportFacts
    <3>4. sessions[i] \in Connections /\ client[sessions[i]] = c
      BY <1>3, <3>1, <3>3, SlotFacts DEF IInv
    <3>5. open[sessions[i]] /\ link[c] = sessions[i] /\ sessions[i] # 0
      BY <1>1, <3>1, <3>3, <3>4, ConstantsAssumption DEF ConnectionInv, Connections
    <3>6. Online(c)
      BY <3>5 DEF Online
    <3>7. ~Quiet(i)
      BY <2>2, ReportFacts DEF Quiet
    <3>8. LoggedOn(c)
      BY <1>1, <3>3, <3>5, <3>6, <3>7 DEF QuietInv
    <3>9. session[sessions[i]].comp = c
      BY <3>5, <3>8 DEF LoggedOn
    <3> QED
      BY <2>1, <3>1, <3>4, <3>9
  <2>3. CASE processor.pc \in AtSession /\ processor'.conn = processor.conn
    <3>1. processor.conn \in 1 .. accepted /\ processor.conn \in Connections
      BY <2>3, SlotFacts DEF IInv, ProcessorInv, Connections
    <3>2. client[processor.conn] = c
      BY <1>3, <2>3, <3>1, ClientKept
    <3>3. session[processor.conn].comp = c
      BY <1>1, <2>3, <3>2 DEF QuietInv
    <3> QED
      BY <2>1, <2>3, <3>1, <3>2, <3>3
  <2>4. Waiting.pc \notin AtSession /\ Failed.pc \notin AtSession
    BY DEF Waiting, Failed, AtSession
  <2>5. CASE Sending("processor")
    <3>1. thread \in [Threads -> ThreadRecord] /\ "processor" \in Threads
          /\ processor.pc \in AtSession /\ processor \in ThreadRecord
      BY <2>5 DEF IInv, TypeOK, ThreadRecord, Threads, Sending, Transmit, Increment, Lock, Unlock,
                  AtSession, processor
    <3>2. Transmit("processor") \/ Lock("processor") => processor'.conn = processor.conn
      BY <3>1 DEF Transmit, Lock, processor, ThreadRecord
    <3>3. Unlock("processor") => processor' = Waiting
      BY <3>1 DEF Unlock, processor
    <3>4. ASSUME Increment("processor") PROVE processor'.conn = processor.conn
      <4>1. processor.then = "unlock"
        BY <3>4 DEF Increment, IInv, ProcessorInv, processor
      <4>2. processor' = [processor EXCEPT !.pc = processor.then]
        BY <3>1, <3>4, <4>1 DEF Increment, processor
      <4> QED
        BY <3>1, <4>2 DEF ThreadRecord
    <3> QED
      BY <1>3, <2>3, <2>4, <2>5, <3>1, <3>2, <3>3, <3>4 DEF Sending
  <2>6. ~Failing /\ ~Restart
    <3>1. Failing => processor' = Failed
      BY DEF Failing, DisconnectNothing, UseUndefined, AcceptDuringLookup, Fail, Threads, processor
    <3>2. Restart => processor' = Waiting
      BY DEF Restart, Threads, processor
    <3> QED
      BY <1>3, <2>4, <3>1, <3>2
  <2>7. CASE processor' = processor
    BY <1>3, <2>3, <2>7
  <2> QED
    BY <2>2, <2>5, <2>6, <2>7, ProcessorSteps DEF IInv
<1> QED
  BY <1>2, <1>3 DEF QuietInv
-----------------------------------------------------------------------------
(* The numbers that a clean client sees *)

(* How a thread comes between reading a number and incrementing it *)
LEMMA IncrementingSteps ==
  ASSUME IInv, [Next]_vars, NEW t \in Threads
  PROVE  /\ thread'[t].pc = "increment" =>
              \/ thread'[t] = thread[t]
              \/ /\ Transmit(t) /\ thread'[t].conn = thread[t].conn
                 /\ thread'[t].num = session[thread[t].conn].out
         /\ thread[t].pc = "increment" =>
              \/ thread'[t] = thread[t] \/ Failing \/ Restart
              \/ Increment(t)
         /\ Increment(t) => thread'[t].pc # "increment"
<1>1. thread \in [Threads -> ThreadRecord] /\ TypeOK /\ ReactorInv /\ ProcessorInv
  BY DEF IInv, TypeOK, ThreadRecord
<1>2. Waiting.pc = "poll" /\ Failed.pc = "failed"
  BY DEF Waiting, Failed
<1>3. ASSUME Transmit(t)
      PROVE  /\ thread'[t].conn = thread[t].conn /\ thread'[t].num = session[thread[t].conn].out
             /\ thread[t].pc = "send"
  BY <1>1, <1>3 DEF Transmit, ThreadRecord
<1>4. ASSUME Increment(t) PROVE thread'[t].pc # "increment"
  <2>1. thread[t].then \in {"next", "validate", "disconnect", "unlock"}
    BY <1>1, <1>4 DEF Increment, ReactorInv, ProcessorInv, Threads, reactor, processor
  <2>2. thread'[t] = IF thread[t].then = "next" THEN Resume(thread[t])
                     ELSE [thread[t] EXCEPT !.pc = thread[t].then]
    BY <1>1, <1>4 DEF Increment
  <2>3. thread[t] \in ThreadRecord
    BY <1>1
  <2>4. CASE thread[t].then = "next"
    <3>1. thread'[t].pc \in {"process", "poll"}
      BY <2>2, <2>3, <2>4, ResumePc
    <3> QED
      BY <3>1
  <2>5. CASE thread[t].then # "next"
    <3>1. thread'[t].pc = thread[t].then
      BY <2>2, <2>3, <2>5 DEF ThreadRecord
    <3> QED
      BY <2>1, <3>1
  <2> QED
    BY <2>4, <2>5
<1>5. ASSUME Lock(t) PROVE thread'[t].pc = "send" /\ thread[t].pc = "lock"
  BY <1>1, <1>5 DEF Lock, ThreadRecord
<1>6. ASSUME Unlock(t) PROVE thread'[t].pc \in {"process", "poll"} /\ thread[t].pc = "unlock"
  <2>1. thread'[t] \in {Resume(thread[t]), Waiting}
    BY <1>1, <1>6 DEF Unlock
  <2>2. thread[t] \in ThreadRecord
    BY <1>1
  <2>3. thread'[t].pc \in {"process", "poll"}
    BY <2>1, <2>2, ResumePc
  <2> QED
    BY <1>6, <2>3 DEF Unlock
<1>7. CASE Sending(t)
  <2>1. Increment(t) => thread[t].pc = "increment"
    BY DEF Increment
  <2> QED
    BY <1>3, <1>4, <1>5, <1>6, <1>7, <2>1 DEF Sending
<1>8. CASE Failing \/ Restart
  <2>1. thread'[t] \in {Failed, Waiting}
    BY <1>8 DEF Failing, DisconnectNothing, UseUndefined, AcceptDuringLookup, Fail, Restart
  <2> QED
    BY <1>2, <1>4, <1>8, <2>1
<1>9. CASE t = "reactor"
  <2>1. /\ Accepts \/ Initialise \/ Reading \/ HangsUp \/ Stop \/ RejectMalformed \/ HandleLogon
           \/ RefuseTarget \/ RefuseNumber \/ AcceptMessage \/ DisconnectSave \/ DisconnectRemove
           \/ StopSave
           => reactor'.pc # "increment" /\ reactor.pc # "increment"
    <3>1. Accepts \/ Initialise \/ Reading \/ HangsUp \/ Stop \/ RejectMalformed \/ HandleLogon
           \/ RefuseTarget \/ RefuseNumber \/ AcceptMessage \/ DisconnectSave \/ DisconnectRemove
           \/ StopSave => reactor.pc # "increment"
      BY DEF Accepts, Accept, Connects, Initialise, Reading, HandleClient, HangsUp, HangUp, Stop, StopSave,
             RejectMalformed, HandleLogon, RefuseTarget, RefuseNumber, AcceptMessage,
             AtValidation, DisconnectSave, DisconnectRemove, reactor
    <3>2. Accepts \/ Initialise \/ Reading \/ HangsUp \/ Stop \/ RejectMalformed \/ HandleLogon
           \/ RefuseTarget \/ RefuseNumber \/ AcceptMessage \/ DisconnectSave \/ DisconnectRemove
           \/ StopSave => reactor'.pc # "increment"
      BY <1>1, ReactorPcs
    <3> QED
      BY <3>1, <3>2
  <2> QED
    BY <1>1, <1>4, <1>7, <1>8, <1>9, <2>1, ReactorSteps DEF ReactorWorks, reactor
<1>10. CASE t = "processor"
  <2>1. TakeReport => processor.pc = "poll"
    BY DEF TakeReport, processor
  <2>2. TakeReport /\ processor' # processor => processor'.pc = "lock"
    BY ReportFacts
  <2> QED
    BY <1>1, <1>4, <1>7, <1>8, <1>10, <2>1, <2>2, ProcessorSteps DEF processor
<1> QED
  BY <1>9, <1>10 DEF Threads

(* A message reaches c over its session, when no other is under way. *)
LEMMA ReceivedSteps ==
  ASSUME IInv, NumbersInv, [Next]_vars, NEW c \in Clients, clean'[c]
  PROVE  \/ received'[c] = received[c]
         \/ /\ LoggedOn(c) /\ ~Incrementing(link[c]) /\ reactor.pc # "failed"
            /\ \E t \in Threads : \E owner :
                 /\ Transmit(t) /\ thread[t].conn = link[c]
                 /\ received'[c] = Seen(received[c], c, session[link[c]].out, owner)
<1>1. clean[c] /\ received \in [Clients -> [last : Nat, increasing : BOOLEAN, own : BOOLEAN]]
  BY CleanKept DEF IInv, TypeOK
<1>2. ASSUME NEW t \in Threads, Transmit(t), received'[c] # received[c]
      PROVE  /\ LoggedOn(c) /\ ~Incrementing(link[c]) /\ reactor.pc # "failed"
             /\ thread[t].conn = link[c]
             /\ received'[c] = Seen(received[c], c, session[link[c]].out, thread[t].owner)
  <2> DEFINE k == thread[t].conn
  <2>1. session[k].tcp = k
    <3>1. CASE t = "reactor"
      <4>1. reactor.pc \in AtMessage
        BY <1>2, <3>1 DEF Transmit, AtMessage, AtSession, reactor
      <4> QED
        BY <3>1, <4>1, AtMessageFacts DEF IInv, reactor
    <3>2. CASE t = "processor"
      <4>1. processor.pc = "send" /\ HoldsLock(processor)
        BY <1>2, <3>2 DEF Transmit, IInv, ProcessorInv, HoldsLock, processor
      <4> QED
        BY <3>2, <4>1 DEF IInv, ProcessorInv, processor
    <3> QED
      BY <3>1, <3>2 DEF Threads
  <2>2. /\ thread[t].pc = "send" /\ session[k].sendLock = "free"
        /\ open[k] /\ link[client[k]] = k
        /\ received' = [received EXCEPT ![client[k]] =
                          Seen(@, client[k], session[k].out, thread[t].owner)]
    BY <1>2, <2>1 DEF Transmit
  <2> HIDE DEF k
  <2>3. client[k] = c /\ received'[c] = Seen(received[c], c, session[k].out, thread[t].owner)
    BY <1>1, <1>2, <2>2
  <2>4. k \in 1 .. accepted /\ k \in Connections /\ session[k].comp = c
    BY <1>1, <2>2, <2>3, UserFacts DEF AtSession, k
  <2>5. k = link[c] /\ LoggedOn(c)
    BY <2>2, <2>3, <2>4, ConstantsAssumption DEF LoggedOn, Online, Connections
  <2>6. ~Incrementing(k)
    BY <2>2 DEF Incrementing, IInv, LockInv, Threads
  <2>7. reactor.pc # "failed"
    <3>1. t = "reactor" => reactor.pc = "send"
      BY <2>2 DEF reactor
    <3>2. t = "processor" => processor.pc = "send"
      BY <2>2 DEF processor
    <3> QED
      BY <3>1, <3>2 DEF NumbersInv, FailedInv, Threads
  <2> QED
    BY <2>3, <2>5, <2>6, <2>7 DEF k
<1> QED
  BY <1>2, Frames DEF Framed, ReceivedStep, Threads

LEMMA SeenNext ==
  ASSUME IInv, NumbersInv, [Next]_vars, NEW c \in Clients, clean'[c]
  PROVE  SeenInv(c)'
<1>1. clean[c] /\ SeenInv(c)
  BY CleanKept DEF NumbersInv, CleanInv
<1>2. /\ session \in [Connections -> SessionRecord] /\ store[c] \in Numbers
      /\ received[c] \in [last : Nat, increasing : BOOLEAN, own : BOOLEAN]
  BY DEF IInv, TypeOK, SessionRecord
<1>3. ASSUME NEW t \in Threads, Transmit(t), NEW k \in Connections
      PROVE  session'[k].out = session[k].out /\ session'[k].in = session[k].in
  BY <1>2, <1>3 DEF Transmit, SessionRecord
<1>4. ASSUME NEW t \in Threads, thread'[t].pc = "increment", client'[thread'[t].conn] = c
      PROVE  thread'[t].num = session'[thread'[t].conn].out
  <2>1. thread'[t].conn = thread[t].conn /\ thread[t].pc \in AtSession
    BY <1>4, IncrementingSteps DEF Transmit, AtSession
  <2>2. thread[t].conn \in 1 .. accepted
    <3>1. t = "reactor" => reactor.conn \in 1 .. accepted
      BY <2>1, AtMessageFacts DEF IInv, AtMessage, reactor
    <3>2. t = "processor" => processor.conn \in 1 .. accepted
      BY <2>1 DEF IInv, ProcessorInv, processor
    <3> QED
      BY <3>1, <3>2 DEF Threads, reactor, processor
  <2>3. client[thread[t].conn] = c
    BY <1>4, <2>1, <2>2, ClientKept
  <2>4. PICK k \in Connections : k = thread[t].conn /\ session[k].comp = c
    BY <1>1, <2>1, <2>3, UserFacts
  <2>5. CASE Transmit(t) /\ thread'[t].num = session[thread[t].conn].out
    BY <1>3, <2>1, <2>4, <2>5
  <2>6. CASE thread'[t] = thread[t]
    <3>1. thread[t].pc = "increment" /\ thread[t].num = session[k].out
      BY <1>1, <1>4, <2>3, <2>4, <2>6 DEF SeenInv
    <3>2. ~(HandleLogon /\ k = reactor.conn)
      <4>1. ASSUME HandleLogon, k = reactor.conn PROVE FALSE
        <5>1. ~LoggedOn(c) /\ LoggedOn(c)' /\ k = link[c]
          BY <2>3, <2>4, <4>1, LogonSteps
        <5>2. Online(c)
          BY <5>1, LogonSteps
        <5> QED
          BY <2>4, <5>1, <5>2 DEF LoggedOn
      <4> QED
        BY <4>1
    <3>3. ASSUME NEW u \in Threads, Increment(u), thread[u].conn = k PROVE FALSE
      <4>1. session[k].sendLock = u /\ session[k].sendLock = t
        BY <2>4, <3>1, <3>3 DEF IInv, LockInv, Increment
      <4> QED
        BY <1>4, <3>3, <4>1, IncrementingSteps
    <3>4. session'[k].out = session[k].out
      BY <3>2, <3>3, NumberSteps
    <3> QED
      BY <2>4, <2>6, <3>1, <3>4
  <2> QED
    BY <1>4, <2>5, <2>6, IncrementingSteps
<1>5. ASSUME ~LoggedOn(c)' PROVE received'[c].last < store'[c].out
  <2>1. CASE LoggedOn(c)
    <3>1. DisconnectRemove /\ sessions[reactor.slot] = link[c]
      BY <1>5, <2>1, LogonSteps
    <3>2. /\ reactor.pc = "remove" /\ store' = store /\ received' = received
      BY <3>1 DEF DisconnectRemove, reactor
    <3>3. /\ link[c] \in Connections /\ Serving /\ reactor.pc # "failed"
      BY <2>1, <3>2, SlotFacts DEF Serving, LoggedOn, Online, NumbersInv, LinkInv, IInv, Connections
    <3>4. store[c].out = session[link[c]].out
      <4>1. Ahead(c)
        BY <1>1 DEF NumbersInv, CleanInv
      <4>2. store[c] = [out |-> session[link[c]].out, in |-> session[link[c]].in]
        BY <2>1, <3>1, <3>2, <3>3, <4>1 DEF Ahead
      <4> QED
        BY <4>2
    <3>5. ~Incrementing(link[c])
      <4>1. session[link[c]].lock = "reactor"
        BY <3>1, <3>2 DEF IInv, LockInv
      <4>2. processor.pc = "increment" /\ processor.conn = link[c] => session[link[c]].lock = "processor"
        BY DEF IInv, LockInv, ProcessorInv, HoldsLock, Threads, processor
      <4> QED
        BY <3>2, <4>1, <4>2 DEF Incrementing, Threads, reactor, processor
    <3> QED
      BY <1>1, <2>1, <3>2, <3>3, <3>4, <3>5 DEF SeenInv
  <2>2. CASE ~LoggedOn(c)
    <3>1. received'[c] = received[c]
      BY <2>2, ReceivedSteps
    <3>2. received[c].last < store[c].out
      BY <1>1, <2>2 DEF SeenInv
    <3>3. CASE store'[c] = store[c]
      BY <3>1, <3>2, <3>3
    <3>4. CASE DisconnectSave /\ client[sessions[reactor.slot]] = c
      <4>1. reactor.pc = "disconnect"
        BY <3>4 DEF DisconnectSave, reactor
      <4> QED
        BY <1>1, <2>2, <3>4, <4>1, LeavingFacts
    <3>5. CASE /\ StopSave /\ reactor.slot \in DOMAIN sessions
               /\ store'[c] = [out |-> session[sessions[reactor.slot]].out,
                               in |-> session[sessions[reactor.slot]].in]
               /\ session[sessions[reactor.slot]].out >= store[c].out
      <4> DEFINE n == session[sessions[reactor.slot]].out
                 x == store[c].out
                 y == received[c].last
      <4>1. sessions[reactor.slot] \in Connections
        BY <3>5, SlotFacts DEF IInv
      <4>2. n \in Nat /\ x \in Nat /\ y \in Nat /\ n >= x /\ y < x
        BY <1>2, <3>2, <3>5, <4>1 DEF SessionRecord, Numbers
      <4>3. received'[c].last = y /\ store'[c].out = n
        BY <3>1, <3>5
      <4> HIDE DEF n, x, y
      <4> QED
        BY <4>2, <4>3
    <3> QED
      BY <3>3, <3>4, <3>5, StoreSteps
  <2> QED
    BY <2>1, <2>2
<1>6. ASSUME LoggedOn(c)', reactor'.pc # "failed"
      PROVE  /\ received'[c].last <= session'[link'[c]].out
             /\ ~Incrementing(link[c])' => received'[c].last < session'[link'[c]].out
  <2>1. Online(c)'
    BY <1>6 DEF LoggedOn
  <2>2. Online(c) /\ link'[c] = link[c]
    BY <1>6, LogonSteps DEF LoggedOn
  <2>3. PICK k \in Connections : k = link[c]
    BY <1>6, <2>1, <2>2, StaysOnline
  <2>4. client[k] = c /\ ~Restart /\ ~Failing /\ reactor.pc # "failed"
    BY <1>6, <2>1, <2>2, <2>3, StaysOnline
  <2>5. session[k].out \in Nat /\ received[c].last \in Nat /\ store[c].out \in Nat
    BY <1>2, <2>3 DEF SessionRecord, Numbers
  <2>6. CASE ~LoggedOn(c)
    <3>1. session'[k].out = store[c].out
      BY <1>6, <2>3, <2>6, LogonSteps
    <3>2. received'[c] = received[c] /\ received[c].last < store[c].out
      BY <1>1, <2>6, ReceivedSteps DEF SeenInv
    <3> QED
      BY <2>2, <2>3, <2>5, <3>1, <3>2
  <2>7. CASE LoggedOn(c)
    <3>1. /\ received[c].last <= session[k].out
          /\ ~Incrementing(k) => received[c].last < session[k].out
      BY <1>1, <2>3, <2>4, <2>7 DEF SeenInv
    <3>2. CASE received'[c] # received[c]
      <4>1. PICK t \in Threads :
              /\ Transmit(t) /\ thread[t].conn = k
              /\ \E owner : received'[c] = Seen(received[c], c, session[k].out, owner)
        BY <2>3, <3>2, ReceivedSteps
      <4>2. session'[k].out = session[k].out
        BY <1>3, <4>1
      <4>3. thread'[t].pc = "increment" /\ thread'[t].conn = k
        <5>1. thread[t] \in ThreadRecord /\ thread \in [Threads -> ThreadRecord]
          BY DEF IInv, TypeOK, ThreadRecord
        <5> QED
          BY <4>1, <5>1 DEF Transmit, ThreadRecord
      <4>4. Incrementing(link[c])'
        BY <2>2, <2>3, <4>3 DEF Incrementing
      <4>5. received'[c].last = session[k].out
        BY <4>1 DEF Seen
      <4> QED
        BY <2>2, <2>3, <2>5, <4>2, <4>4, <4>5
    <3>3. CASE received'[c] = received[c]
      <4>1. CASE \E t \in Threads : Increment(t) /\ thread[t].conn = k
        <5>1. session'[k].out = session[k].out + 1
          BY <1>1, <2>4, <4>1, ExactIncrement
        <5> QED
          BY <2>2, <2>3, <2>5, <3>1, <3>3, <5>1
      <4>2. CASE ~\E t \in Threads : Increment(t) /\ thread[t].conn = k
        <5>1. ~(HandleLogon /\ k = reactor.conn)
          BY <2>4, <2>7, LogonSteps
        <5>2. session'[k].out = session[k].out
          BY <4>2, <5>1, NumberSteps
        <5>3. ASSUME Incrementing(k) PROVE Incrementing(link[c])'
          <6>1. PICK t \in Threads : thread[t].pc = "increment" /\ thread[t].conn = k
            BY <5>3 DEF Incrementing
          <6>2. thread'[t] = thread[t]
            BY <2>4, <4>2, <6>1, IncrementingSteps
          <6> QED
            BY <2>2, <2>3, <6>1, <6>2 DEF Incrementing
        <5> QED
          BY <2>2, <2>3, <2>5, <3>1, <3>3, <5>2, <5>3
      <4> QED
        BY <4>1, <4>2
    <3> QED
      BY <3>2, <3>3
  <2> QED
    BY <2>6, <2>7
<1>7. received'[c].increasing
  <2>1. received[c].increasing
    BY <1>1 DEF SeenInv
  <2>2. CASE received'[c] # received[c]
    <3>1. /\ LoggedOn(c) /\ ~Incrementing(link[c]) /\ reactor.pc # "failed"
          /\ \E owner : received'[c] = Seen(received[c], c, session[link[c]].out, owner)
      BY <2>2, ReceivedSteps
    <3>2. received[c].last < session[link[c]].out
      BY <1>1, <3>1 DEF SeenInv
    <3>3. link[c] \in Connections
      BY <3>1, SlotFacts DEF LoggedOn, Online, NumbersInv, LinkInv, IInv, Connections
    <3>4. session[link[c]].out > received[c].last
      BY <1>2, <3>2, <3>3 DEF SessionRecord
    <3>5. PICK owner : received'[c] = Seen(received[c], c, session[link[c]].out, owner)
      BY <3>1
    <3>6. received'[c].increasing =
            (received[c].increasing /\ session[link[c]].out > received[c].last)
      BY <3>5 DEF Seen
    <3> QED
      BY <2>1, <3>4, <3>6
  <2>3. CASE received'[c] = received[c]
    BY <2>1, <2>3
  <2> QED
    BY <2>2, <2>3
<1> QED
  BY <1>4, <1>5, <1>6, <1>7 DEF SeenInv
-----------------------------------------------------------------------------
(* The numbers of the session and those of the file *)

LEMMA AheadNext ==
  ASSUME IInv, NumbersInv, [Next]_vars, NEW c \in Clients, clean'[c]
  PROVE  Ahead(c)'
<1> SUFFICES ASSUME Serving', LoggedOn(c)'
             PROVE  IF reactor'.pc = "remove" /\ sessions'[reactor'.slot] = link'[c]
                    THEN store'[c] = [out |-> session'[link'[c]].out, in |-> session'[link'[c]].in]
                    ELSE /\ session'[link'[c]].out >= store'[c].out
                         /\ ~(/\ reactor'.batch # <<>> /\ reactor'.conn = link'[c]
                              /\ Welcoming(reactor') /\ reactor'.pc # "validate") =>
                              session'[link'[c]].out >= store'[c].out + 1
                         /\ reactor'.pc = "disconnect" /\ sessions'[reactor'.slot] = link'[c] =>
                              session'[link'[c]].out >= store'[c].out + 2
  BY DEF Ahead, Reads, Welcoming
<1>1. clean[c] /\ Ahead(c) /\ ConnectionInv(c) /\ reactor'.pc # "failed"
  BY CleanKept DEF NumbersInv, CleanInv, Serving
<1>2. Online(c)' /\ Online(c) /\ link'[c] = link[c]
  BY LogonSteps DEF LoggedOn
<1>3. PICK k \in Connections : k = link[c]
  BY <1>1, <1>2, StaysOnline
<1>4. /\ client[k] = c /\ Serving /\ ~Restart /\ ~Failing /\ link'[c] = k
      /\ ~(DisconnectRemove /\ sessions[reactor.slot] = k)
  BY <1>1, <1>2, <1>3, StaysOnline
<1>5. /\ session \in [Connections -> SessionRecord] /\ store[c] \in Numbers
      /\ store \in [Clients \cup {NoClient} -> Numbers]
      /\ session[k].out \in Nat /\ store[c].out \in Nat
  BY DEF IInv, TypeOK, SessionRecord, Numbers
<1>6. ~StopSave
  BY <1>4 DEF StopSave, Serving, reactor
<1>7. CASE ~LoggedOn(c)
  <2>1. HandleLogon /\ reactor.conn = k /\ session'[k].out = store[c].out
    BY <1>3, <1>7, LogonSteps
  <2>2. store' = store /\ reactor.pc = "process" /\ reactor.batch # <<>>
    <3>1. store' = store /\ reactor.pc = "process"
      BY <2>1 DEF HandleLogon, reactor
    <3> QED
      BY <3>1 DEF IInv, ReactorInv, AtMessage
  <2>3. reactor' = [reactor EXCEPT !.pc = "send", !.then = "validate"]
    BY <2>1, ReactorMoves
  <2>4. /\ reactor'.pc = "send" /\ reactor'.batch = reactor.batch /\ reactor'.conn = reactor.conn
        /\ Welcoming(reactor')
    BY <2>3 DEF Welcoming, IInv, TypeOK, Threads, reactor
  <2> QED
    BY <1>4, <1>5, <2>1, <2>2, <2>4
<1>8. CASE LoggedOn(c)
  <2>0. session[k].comp = c
    BY <1>3, <1>8 DEF LoggedOn
  <2>1. \/ session'[k].out = session[k].out
        \/ /\ \E t \in Threads : Increment(t) /\ thread[t].conn = k
           /\ session'[k].out = session[k].out + 1
    <3>1. ~(HandleLogon /\ k = reactor.conn)
      BY <1>4, <1>8, LogonSteps
    <3> QED
      BY <1>1, <1>4, <3>1, NumberSteps, ExactIncrement
  <2>2. reactor'.pc \in {"disconnect", "remove"} => sessions' = sessions
    <3>1. Accepts => reactor'.pc = "initialise"
      BY ReactorPcs DEF IInv
    <3> QED
      BY <1>4, <3>1, Frames DEF Framed, TableStep, tableVars, DisconnectRemove
  <2>3. CASE reactor.pc = "remove" /\ sessions[reactor.slot] = k
    <3>1. store[c] = [out |-> session[k].out, in |-> session[k].in]
      BY <1>1, <1>3, <1>4, <1>8, <2>3 DEF Ahead
    <3>2. store'[c] = store[c]
      BY <1>6, <2>3, StoreSteps DEF DisconnectSave, reactor
    <3>3. reactor' = reactor
      <4>1. ~(Accepts \/ Initialise \/ Reading \/ HangsUp \/ Stop \/ RejectMalformed \/ HandleLogon
              \/ RefuseTarget \/ RefuseNumber \/ AcceptMessage \/ DisconnectSave \/ StopSave
              \/ Sending("reactor"))
        BY <2>3 DEF Accepts, Accept, Connects, Initialise, Reading, HandleClient, HangsUp, HangUp, Stop,
             StopSave, RejectMalformed, HandleLogon, RefuseTarget, RefuseNumber, AcceptMessage,
             AtValidation, DisconnectSave, Sending, Transmit, Increment, Lock, Unlock, reactor
      <4> QED
        BY <1>4, <2>3, <4>1, ReactorSteps DEF ReactorWorks, IInv
    <3>4. ~\E t \in Threads : Increment(t) /\ thread[t].conn = k
      <4>1. session[k].lock = "reactor"
        BY <2>3 DEF IInv, LockInv
      <4>2. processor.pc = "increment" /\ processor.conn = k => session[k].lock = "processor"
        BY DEF IInv, LockInv, ProcessorInv, HoldsLock, Threads, processor
      <4> QED
        BY <2>3, <4>1, <4>2 DEF Increment, Threads, reactor, processor
    <3>5. session'[k].out = session[k].out /\ session'[k].in = session[k].in
      <4>1. ~HandleLogon /\ ~AcceptMessage
        BY <2>3 DEF HandleLogon, AcceptMessage, AtValidation, reactor
      <4> QED
        BY <2>1, <3>4, <4>1, NumberSteps
    <3> QED
      BY <1>4, <2>2, <2>3, <3>1, <3>2, <3>3, <3>5
  <2>4. CASE DisconnectSave /\ sessions[reactor.slot] = k
    <3>1. /\ store' = [store EXCEPT ![c] = [out |-> session[k].out, in |-> session[k].in]]
          /\ session' = [session EXCEPT ![k].lock = "reactor"]
      BY <2>0, <2>4 DEF DisconnectSave, Save, reactor
    <3>2. store'[c] = [out |-> session[k].out, in |-> session[k].in]
      BY <1>5, <3>1
    <3>3. session'[k].out = session[k].out /\ session'[k].in = session[k].in
      BY <1>5, <3>1 DEF SessionRecord
    <3>4. reactor' = [reactor EXCEPT !.pc = "remove"]
      BY <2>4, ReactorMoves
    <3>5. reactor'.pc = "remove" /\ reactor'.slot = reactor.slot
      BY <3>4 DEF IInv, TypeOK, Threads, reactor
    <3> QED
      BY <1>4, <2>2, <2>4, <3>2, <3>3, <3>5
  <2>5. CASE /\ ~(reactor.pc = "remove" /\ sessions[reactor.slot] = k)
             /\ ~(DisconnectSave /\ sessions[reactor.slot] = k)
    <3>1. store'[c] = store[c]
      <4>1. ASSUME DisconnectSave, client[sessions[reactor.slot]] = c PROVE FALSE
        <5>1. reactor.pc = "disconnect"
          BY <4>1 DEF DisconnectSave, reactor
        <5> QED
          BY <1>1, <1>3, <2>5, <4>1, <5>1, LeavingFacts
      <4> QED
        BY <1>6, <4>1, StoreSteps
    <3>2. ~(reactor'.pc = "remove" /\ sessions'[reactor'.slot] = k)
      <4>1. HangsUp => reactor'.pc = "disconnect"
        BY ReactorPcs DEF IInv
      <4> QED
        BY <2>2, <2>5, <4>1, PhaseSteps
    <3>3. /\ session[k].out >= store[c].out
          /\ ~(Reads(k) /\ Welcoming(reactor) /\ reactor.pc # "validate") =>
               session[k].out >= store[c].out + 1
          /\ reactor.pc = "disconnect" /\ sessions[reactor.slot] = k =>
               session[k].out >= store[c].out + 2
      BY <1>1, <1>3, <1>4, <1>8, <2>5 DEF Ahead
    <3> DEFINE x == session[k].out
               y == session'[k].out
               z == store[c].out
    <3>4. x \in Nat /\ z \in Nat /\ (y = x \/ y = x + 1)
      BY <1>5, <2>1
    <3>5. y >= z
      <4>1. x >= z
        BY <3>3
      <4> HIDE DEF x, y, z
      <4> QED
        BY <3>4, <4>1
    <3>6. ASSUME ~(/\ reactor'.batch # <<>> /\ reactor'.conn = k
                   /\ Welcoming(reactor') /\ reactor'.pc # "validate")
          PROVE  y >= z + 1
      <4>1. CASE ~(Reads(k) /\ Welcoming(reactor) /\ reactor.pc # "validate")
        <5>1. x >= z + 1
          BY <3>3, <4>1
        <5> HIDE DEF x, y, z
        <5> QED
          BY <3>4, <5>1
      <4>2. CASE Reads(k) /\ Welcoming(reactor) /\ reactor.pc # "validate"
        <5>1. ~AcceptMessage
          BY <4>2 DEF AcceptMessage, AtValidation, Welcoming, reactor
        <5>2. reactor.batch # <<>> /\ reactor.conn = k
          BY <4>2 DEF Reads
        <5>3. /\ reactor'.batch = reactor.batch /\ reactor'.conn = reactor.conn
              /\ Welcoming(reactor')
              /\ \/ reactor'.pc = "validate" <=> reactor.pc = "validate"
                 \/ Increment("reactor")
          BY <1>1, <1>4, <4>2, <5>1, <5>2, WelcomingSteps
        <5>4. Increment("reactor")
          BY <3>6, <4>2, <5>2, <5>3
        <5>5. y = x + 1 /\ x >= z
          BY <1>1, <1>4, <3>3, <5>2, <5>4, ExactIncrement DEF Threads, reactor
        <5> HIDE DEF x, y, z
        <5> QED
          BY <3>4, <5>5
      <4> QED
        BY <4>1, <4>2
    <3>7. ASSUME reactor'.pc = "disconnect", sessions'[reactor'.slot] = k
          PROVE  y >= z + 2
      <4>1. sessions' = sessions
        BY <2>2, <3>7
      <4>2. CASE HangsUp
        <5>1. PICK i \in DOMAIN peers : HangUp(i)
          BY <4>2 DEF HangsUp
        <5>2. reactor'.slot = i
          <6>1. reactor' = [Waiting EXCEPT !.pc = "disconnect", !.slot = i]
            BY <5>1, ReactorMoves
          <6> QED
            BY <6>1 DEF Waiting
        <5>3. peers[i] = k
          BY <3>7, <4>1, <5>2 DEF IInv, TableInv
        <5> QED
          BY <1>3, <1>4, <5>1, <5>3 DEF HangUp
      <4>3. CASE /\ reactor'.slot = reactor.slot /\ reactor.pc \in AtMessage
                 /\ RefuseTarget \/ RefuseNumber
        <5>1. reactor.conn = k
          BY <3>7, <4>1, <4>3, AtMessageFacts DEF IInv
        <5> QED
          BY <1>1, <1>4, <4>3, <5>1, NeverRefused
      <4>4. CASE /\ reactor'.slot = reactor.slot /\ reactor.pc \in AtMessage
                 /\ Increment("reactor")
                 /\ reactor.pc = "increment" /\ reactor.then = "disconnect"
        <5>1. reactor.conn = k
          BY <3>7, <4>1, <4>4, AtMessageFacts DEF IInv
        <5>2. y = x + 1
          BY <1>1, <1>4, <4>4, <5>1, ExactIncrement DEF Threads, reactor
        <5>3. x >= z + 1
          BY <3>3, <4>4 DEF Welcoming
        <5> HIDE DEF x, y, z
        <5> QED
          BY <3>4, <5>2, <5>3
      <4>5. CASE /\ reactor'.slot = reactor.slot
                 /\ reactor'.pc = reactor.pc \/ DisconnectSave
        <5>1. reactor.pc = "disconnect" /\ sessions[reactor.slot] = k
          BY <3>7, <4>1, <4>5 DEF DisconnectSave, reactor
        <5>2. x >= z + 2
          BY <3>3, <5>1
        <5> HIDE DEF x, y, z
        <5> QED
          BY <3>4, <5>2
      <4> QED
        BY <3>7, <4>2, <4>3, <4>4, <4>5, PhaseSteps
    <3> QED
      BY <1>4, <3>1, <3>2, <3>5, <3>6, <3>7
  <2> QED
    BY <2>3, <2>4, <2>5
<1> QED
  BY <1>7, <1>8
-----------------------------------------------------------------------------
(* The sessions of earlier connections *)

(* A session that is over gets at most the report that was on its way. *)
LEMMA OverSteps ==
  ASSUME IInv, NumbersInv, [Next]_vars, NEW c \in Clients, clean'[c], ~Restart,
         reactor'.pc # "failed", NEW k \in Connections, Over(k, c)
  PROVE  /\ session'[k].in = session[k].in
         /\ \/ session'[k].out = session[k].out /\ Coming(k)' = Coming(k)
            \/ session'[k].out = session[k].out + 1 /\ Coming(k) = 1 /\ Coming(k)' = 0
<1>1. clean[c] /\ c # NoClient /\ ~Failing
  BY CleanKept, ServingKept, ConstantsAssumption
<1>2. session[k].comp = c /\ client[k] = c /\ ~(link[c] = k /\ open[k])
  BY <1>1 DEF Over, NumbersInv, CompInv
<1>3. ~(reactor.batch # <<>> /\ reactor.conn = k)
  BY <1>1, <1>2, HeadFacts DEF NumbersInv, CleanInv, AnswerInv
<1>4. reactor.pc \in AtMessage => reactor.conn # k
  BY <1>3, AtMessageFacts DEF IInv
<1>5. ~(HandleLogon /\ k = reactor.conn) /\ ~(AcceptMessage /\ k = reactor.conn)
  BY <1>4 DEF HandleLogon, AcceptMessage, AtValidation, AtMessage, reactor
<1>6. ~(Increment("reactor") /\ thread["reactor"].conn = k)
  BY <1>4 DEF Increment, AtMessage, AtSession, reactor
<1>7. session'[k].in = session[k].in
  BY <1>5, NumberSteps
<1>8. \/ session'[k].out = session[k].out
      \/ Increment("processor") /\ processor.conn = k
  BY <1>5, <1>6, NumberSteps DEF Threads, processor
<1>9. thread \in [Threads -> ThreadRecord] /\ "processor" \in Threads /\ processor \in ThreadRecord
  BY DEF IInv, TypeOK, ThreadRecord, Threads, processor
<1>10. CASE Increment("processor")
  <2>1. processor.pc = "increment" /\ processor.then = "unlock"
    BY <1>10 DEF Increment, IInv, ProcessorInv, processor
  <2>2. processor' = [processor EXCEPT !.pc = "unlock"]
    BY <1>9, <1>10, <2>1 DEF Increment, processor
  <2>3. processor'.pc = "unlock"
    BY <1>9, <2>2 DEF ThreadRecord
  <2>4. Coming(k)' = 0
    BY <2>3 DEF Coming
  <2>5. CASE processor.conn = k
    <3>1. session'[k].out = session[k].out + 1
      BY <1>1, <1>2, <1>9, <1>10, <2>5, ExactIncrement DEF processor
    <3>2. Coming(k) = 1
      BY <2>1, <2>5 DEF Coming
    <3> QED
      BY <1>7, <2>4, <3>1, <3>2
  <2>6. CASE processor.conn # k
    BY <1>7, <1>8, <2>4, <2>6 DEF Coming
  <2> QED
    BY <2>5, <2>6
<1>11. CASE ~Increment("processor")
  <2>1. session'[k].out = session[k].out
    BY <1>8, <1>11
  <2>2. Coming(k)' = Coming(k)
    <3>1. CASE processor' = processor
      BY <3>1 DEF Coming
    <3>2. CASE TakeReport /\ processor' # processor
      <4>1. /\ processor'.conn = sessions[Head(reports).slot] /\ sessionFlags[Head(reports).slot]
            /\ Head(reports).slot \in DOMAIN sessions /\ processor.pc = "poll"
        BY <3>2, ReportFacts DEF TakeReport, processor
      <4>2. processor'.conn # k
        BY <1>1, <1>2, <4>1 DEF NumbersInv, CleanInv, ConnectionInv
      <4> QED
        BY <4>1, <4>2 DEF Coming
    <3>3. CASE Transmit("processor")
      <4>1. /\ processor.pc = "send"
            /\ processor' = [processor EXCEPT !.pc = "increment", !.num = session[processor.conn].out]
        BY <1>9, <3>3 DEF Transmit, processor
      <4>2. processor'.pc = "increment" /\ processor'.conn = processor.conn
        BY <1>9, <4>1 DEF ThreadRecord
      <4> QED
        BY <4>1, <4>2 DEF Coming
    <3>4. CASE Lock("processor")
      <4>1. processor.pc = "lock" /\ processor' = [processor EXCEPT !.pc = "send", !.then = "unlock"]
        BY <1>9, <3>4 DEF Lock, processor
      <4>2. processor'.pc = "send" /\ processor'.conn = processor.conn
        BY <1>9, <4>1 DEF ThreadRecord
      <4> QED
        BY <4>1, <4>2 DEF Coming
    <3>5. CASE Unlock("processor")
      <4>1. processor.pc = "unlock" /\ processor' = Waiting
        BY <1>9, <3>5 DEF Unlock, processor
      <4>2. processor'.pc = "poll"
        BY <4>1 DEF Waiting
      <4> QED
        BY <4>1, <4>2 DEF Coming
    <3> QED
      BY <1>1, <1>11, <3>1, <3>2, <3>3, <3>4, <3>5, ProcessorSteps DEF Sending, IInv
  <2> QED
    BY <1>7, <2>1, <2>2
<1> QED
  BY <1>10, <1>11

(* A session is over once it is removed. *)
LEMMA OverAgain ==
  ASSUME IInv, NumbersInv, [Next]_vars, NEW c \in Clients, clean'[c], NEW k \in Connections,
         Over(k, c)'
  PROVE  \/ Over(k, c)
         \/ DisconnectRemove /\ sessions[reactor.slot] = k /\ link[c] = k
<1>1. clean[c] /\ session'[k].comp = c /\ ~(link'[c] = k /\ open'[k]) /\ 0 \notin Connections
  BY CleanKept DEF Over, Connections
<1>2. CASE session[k].comp = c
  <2>1. CASE link[c] = k /\ open[k]
    <3>1. Online(c)
      BY <1>1, <2>1 DEF Online
    <3>2. ~Online(c)'
      BY <1>1, <2>1, <3>1, OnlineSteps DEF Online
    <3> QED
      BY <2>1, <3>1, <3>2, OnlineSteps
  <2> QED
    BY <1>2, <2>1 DEF Over
<1>3. CASE session[k].comp # c
  <2>1. HandleLogon /\ k = reactor.conn /\ client[k] = c
    BY <1>1, <1>3, CompSteps
  <2>2. LoggedOn(c)' /\ ~LoggedOn(c) /\ k = link[c]
    BY <1>1, <2>1, LogonSteps
  <2>3. link'[c] = link[c]
    BY <2>2, LogonSteps
  <2> QED
    BY <1>1, <2>2, <2>3 DEF LoggedOn, Online
<1> QED
  BY <1>2, <1>3

(* It is in the table already. *)
LEMMA OverSlots ==
  ASSUME IInv, NumbersInv, [Next]_vars, NEW c \in Clients, clean'[c], ~Restart,
         NEW i \in DOMAIN sessions', session'[sessions'[i]].comp = c
  PROVE  i \in DOMAIN sessions /\ sessions'[i] = sessions[i] /\ sessions[i] \in Connections
<1>1. c # NoClient /\ accepted \in Nat
  BY ConstantsAssumption, SlotFacts DEF IInv
<1>2. CASE Accepts
  <2>1. PICK d \in Clients : Accept(d)
    BY <1>2 DEF Accepts
  <2>2. PICK j \in Connections, k \in Connections : TakesSlot(j, k)
    BY <2>1, AcceptFacts DEF IInv
  <2>3. session' = session /\ k > accepted
    BY <1>1, <2>1, <2>2 DEF Accept, Connects, TakesSlot
  <2>4. session[k] = NewSession
    BY <2>3 DEF IInv, FreshInv
  <2>5. i # j
    BY <1>1, <2>2, <2>3, <2>4 DEF TakesSlot, NewSession
  <2> QED
    BY <2>2, <2>5, SlotFacts DEF TakesSlot, IInv
<1>3. CASE sessions' = sessions
  BY <1>3, SlotFacts DEF IInv
<1> QED
  BY <1>2, <1>3, Frames DEF Framed, TableStep, DisconnectRemove, tableVars

(* The reactor is not behind where OverInv tells about the sessions. *)
LEMMA SettledBefore ==
  ASSUME IInv, NumbersInv, [Next]_vars, NEW c \in Clients, clean'[c], ~Restart,
         Serving' \/ (~Online(c)' /\ reactor'.pc # "failed")
  PROVE  /\ Serving \/ (~Online(c) /\ reactor.pc # "failed")
         /\ reactor'.pc # "failed"
<1>1. reactor'.pc # "failed"
  BY DEF Serving
<1>2. reactor.pc # "failed"
  BY <1>1, ServingKept
<1>3. CASE Serving'
  BY <1>1, <1>3, ServingKept
<1>4. CASE ~Online(c)' /\ Online(c)
  <2>1. reactor.pc = "remove"
    BY <1>4, OnlineSteps DEF DisconnectRemove, reactor
  <2> QED
    BY <1>1, <2>1 DEF Serving
<1> QED
  BY <1>1, <1>2, <1>3, <1>4

(* The file moves on: when the client leaves it gets greater numbers, and  *)
(* stop() writes those of the last session again.                          *)
LEMMA FileSteps ==
  ASSUME IInv, NumbersInv, [Next]_vars, NEW c \in Clients, clean'[c], ~Restart,
         Serving' \/ (~Online(c)' /\ reactor'.pc # "failed")
  PROVE  \/ store'[c] = store[c]
         \/ DisconnectSave /\ sessions[reactor.slot] = link[c] /\ store'[c].out >= store[c].out + 2
         \/ /\ StopSave /\ reactor.slot \in DOMAIN sessions /\ ~Online(c)
            /\ Over(sessions[reactor.slot], c) /\ Latest(sessions[reactor.slot], c)
            /\ ~Stale(sessions[reactor.slot], c)
            /\ store'[c] = [out |-> session[sessions[reactor.slot]].out,
                            in |-> session[sessions[reactor.slot]].in]
<1>1. clean[c] /\ OverInv(c) /\ Ahead(c)
  BY CleanKept DEF NumbersInv, CleanInv
<1>2. /\ Serving \/ (~Online(c) /\ reactor.pc # "failed")
      /\ reactor'.pc # "failed"
  BY SettledBefore
<1>3. SUFFICES ASSUME store'[c] # store[c],
                      DisconnectSave \/ StopSave,
                      reactor.slot \in DOMAIN sessions,
                      session[sessions[reactor.slot]].comp = c,
                      client[sessions[reactor.slot]] = c,
                      store'[c] = [out |-> session[sessions[reactor.slot]].out,
                                   in |-> session[sessions[reactor.slot]].in],
                      StopSave => session[sessions[reactor.slot]].out >= store[c].out
               PROVE  \/ /\ DisconnectSave /\ sessions[reactor.slot] = link[c]
                         /\ store'[c].out >= store[c].out + 2
                      \/ /\ StopSave /\ reactor.slot \in DOMAIN sessions /\ ~Online(c)
                         /\ Over(sessions[reactor.slot], c) /\ Latest(sessions[reactor.slot], c)
                         /\ ~Stale(sessions[reactor.slot], c)
                         /\ store'[c] = [out |-> session[sessions[reactor.slot]].out,
                                         in |-> session[sessions[reactor.slot]].in]
  BY StoreSteps
<1>4. PICK k \in Connections : k = sessions[reactor.slot]
  BY <1>3, SlotFacts DEF IInv
<1>5. CASE DisconnectSave
  <2>1. reactor.pc = "disconnect"
    BY <1>5 DEF DisconnectSave, reactor
  <2>2. link[c] = k /\ LoggedOn(c) /\ Serving
    BY <1>1, <1>3, <1>4, <2>1, LeavingFacts
  <2>3. session[k].out >= store[c].out + 2
    BY <1>1, <1>4, <2>1, <2>2 DEF Ahead
  <2> QED
    BY <1>3, <1>4, <1>5, <2>2, <2>3
<1>6. CASE StopSave
  <2>1. ~Serving /\ ~DisconnectRemove
    BY <1>6 DEF StopSave, Serving, DisconnectRemove, reactor
  <2>2. ~Online(c)
    BY <1>2, <2>1
  <2>3. Over(k, c)
    <3>1. 0 \notin Connections
      BY DEF Connections
    <3> QED
      BY <1>3, <1>4, <2>2, <3>1 DEF Over, Online
  <2>4. Stale(k, c) \/ Latest(k, c)
    BY <1>1, <1>2, <1>3, <1>4, <2>3 DEF OverInv
  <2>5. ~Stale(k, c)
    <3> DEFINE x == session[k].out
               y == store[c].out
               z == Coming(k)
    <3>1. x \in Nat /\ y \in Nat /\ z \in Nat /\ x >= y
      BY <1>3, <1>4, <1>6 DEF IInv, TypeOK, Numbers, Coming
    <3>2. ~(x + z < y)
      <4> HIDE DEF x, y, z
      <4> QED
        BY <3>1
    <3> QED
      BY <3>2 DEF Stale
  <2> QED
    BY <1>3, <1>4, <1>6, <2>2, <2>3, <2>4, <2>5
<1> QED
  BY <1>3, <1>5, <1>6

(* A session that is removed has the numbers of the file. *)
LEMMA RemovedLatest ==
  ASSUME IInv, NumbersInv, [Next]_vars, NEW c \in Clients, clean'[c],
         DisconnectRemove, NEW k \in Connections, sessions[reactor.slot] = k, link[c] = k
  PROVE  /\ Latest(k, c)' /\ store'[c] = store[c]
         /\ store[c] = [out |-> session[k].out, in |-> session[k].in]
         /\ client[k] = c /\ reactor.pc = "remove"
<1>1. clean[c] /\ Ahead(c) /\ reactor.pc = "remove"
  BY CleanKept DEF NumbersInv, CleanInv, DisconnectRemove, reactor
<1>2. client[k] = c
  <2>1. link[c] # 0
    BY DEF Connections
  <2> QED
    BY <2>1 DEF NumbersInv, LinkInv
<1>3. LoggedOn(c) /\ Serving
  BY <1>1, <1>2, LeavingFacts
<1>4. store[c] = [out |-> session[k].out, in |-> session[k].in]
  BY <1>1, <1>3 DEF Ahead
<1>5. store' = store /\ session' = [session EXCEPT ![k].lock = "free"]
  BY DEF DisconnectRemove, reactor
<1>6. session \in [Connections -> SessionRecord]
  BY DEF IInv, TypeOK, SessionRecord
<1>7. session'[k].out = session[k].out /\ session'[k].in = session[k].in /\ session[k].out \in Nat
  BY <1>5, <1>6 DEF SessionRecord
<1>8. Coming(k)' \in {0, 1}
  BY DEF Coming
<1>9. Latest(k, c)'
  <2> DEFINE x == session'[k].out
             y == store'[c].out
             z == Coming(k)'
  <2>1. x \in Nat /\ y = x /\ z \in {0, 1} /\ session'[k].in = store'[c].in
    BY <1>4, <1>5, <1>7, <1>8
  <2>2. x >= y /\ x + z <= y + 1
    <3> HIDE DEF x, y, z
    <3> QED
      BY <2>1
  <2> QED
    BY <2>1, <2>2 DEF Latest
<1> QED
  BY <1>1, <1>2, <1>4, <1>5, <1>9

(* A stale session stays stale, and the last one is stale once the client  *)
(* has left again.                                                         *)
LEMMA StaleKept ==
  ASSUME IInv, NumbersInv, [Next]_vars, NEW c \in Clients, clean'[c], ~Restart,
         Serving' \/ (~Online(c)' /\ reactor'.pc # "failed"),
         NEW k \in Connections, Over(k, c)
  PROVE  /\ Stale(k, c) => Stale(k, c)'
         /\ Latest(k, c) /\ DisconnectSave /\ store'[c] # store[c] => Stale(k, c)'
         /\ Latest(k, c) /\ store'[c] = store[c] => Latest(k, c)'
<1> DEFINE x == session[k].out
           w == session'[k].out
           y == store[c].out
           v == store'[c].out
           z == Coming(k)
           u == Coming(k)'
<1>1. reactor'.pc # "failed"
  BY SettledBefore
<1>2. session'[k].in = session[k].in /\ ((w = x /\ u = z) \/ (w = x + 1 /\ z = 1 /\ u = 0))
  BY <1>1, OverSteps
<1>3. x \in Nat /\ y \in Nat /\ z \in {0, 1}
  BY DEF IInv, TypeOK, Numbers, Coming
<1>4. w + u = x + z /\ w >= x /\ w \in Nat /\ u \in {0, 1}
  <2> HIDE DEF x, w, z, u
  <2> QED
    BY <1>2, <1>3
<1>5. v \in Nat /\ v >= y /\ (DisconnectSave /\ store'[c] # store[c] => v >= y + 2)
  <2>1. CASE store'[c] = store[c]
    <3>1. v = y
      BY <2>1
    <3> HIDE DEF v, y
    <3> QED
      BY <1>3, <2>1, <3>1
  <2>2. CASE store'[c] # store[c] /\ DisconnectSave
    <3>1. ~StopSave
      BY <2>2 DEF DisconnectSave, StopSave
    <3>2. v >= y + 2
      BY <2>2, <3>1, FileSteps
    <3>3. v \in Nat
      BY StoreType DEF IInv, Numbers
    <3> HIDE DEF v, y
    <3> QED
      BY <1>3, <3>2, <3>3
  <2>3. CASE store'[c] # store[c] /\ ~DisconnectSave
    <3>1. v >= y
      BY <2>3, FileSteps DEF Latest
    <3>2. v \in Nat
      BY StoreType DEF IInv, Numbers
    <3> QED
      BY <2>3, <3>1, <3>2
  <2> QED
    BY <2>1, <2>2, <2>3
<1>6. ASSUME Stale(k, c) PROVE Stale(k, c)'
  <2>1. x + z < y
    BY <1>6 DEF Stale
  <2>2. w + u < v
    <3> HIDE DEF x, w, y, v, z, u
    <3> QED
      BY <1>3, <1>4, <1>5, <2>1
  <2> QED
    BY <2>2 DEF Stale
<1>7. ASSUME Latest(k, c), DisconnectSave, store'[c] # store[c] PROVE Stale(k, c)'
  <2>1. x + z <= y + 1 /\ v >= y + 2
    BY <1>5, <1>7 DEF Latest
  <2>2. w + u < v
    <3> HIDE DEF x, w, y, v, z, u
    <3> QED
      BY <1>3, <1>4, <1>5, <2>1
  <2> QED
    BY <2>2 DEF Stale
<1>8. ASSUME Latest(k, c), store'[c] = store[c] PROVE Latest(k, c)'
  <2>1. x + z <= y + 1 /\ x >= y /\ v = y /\ session[k].in = store[c].in
    BY <1>8 DEF Latest
  <2>2. w + u <= v + 1 /\ w >= v
    <3> HIDE DEF x, w, y, v, z, u
    <3> QED
      BY <1>3, <1>4, <2>1
  <2> QED
    BY <1>2, <1>8, <2>1, <2>2 DEF Latest
<1> QED
  BY <1>6, <1>7, <1>8

(* The file of a client that is away counts all its messages. *)
LEMMA FileCounts ==
  ASSUME IInv, NumbersInv, [Next]_vars, NEW c \in Clients, clean'[c], ~Online(c)'
  PROVE  store'[c].in + 1 = clientOut'[c]
<1>1. clean[c] /\ OverInv(c) /\ QueueInv(c) /\ ConnectionInv(c)
  BY CleanKept DEF NumbersInv, CleanInv
<1>2. CASE Online(c)
  <2>1. PICK k \in Connections : k = link[c]
    BY <1>2, SlotFacts DEF Online, NumbersInv, LinkInv, IInv, Connections
  <2>2. DisconnectRemove /\ sessions[reactor.slot] = k
    BY <1>2, <2>1, OnlineSteps
  <2>3. /\ store'[c] = store[c] /\ store[c] = [out |-> session[k].out, in |-> session[k].in]
        /\ client[k] = c /\ reactor.pc = "remove"
    BY <2>1, <2>2, RemovedLatest
  <2>4. LoggedOn(c) /\ Serving /\ Unread(k) = <<>>
    BY <1>1, <2>1, <2>2, <2>3, LeavingFacts
  <2>5. session[k].in + Len(Unread(k)) + 1 = clientOut[c]
    BY <1>1, <1>2, <2>1, <2>4 DEF QueueInv, Counted
  <2>6. clientOut' = clientOut
    BY <2>2 DEF DisconnectRemove, clientVars
  <2>7. session[k].in \in Nat
    BY DEF IInv, TypeOK
  <2>8. session[k].in + 1 = clientOut[c]
    <3> DEFINE x == session[k].in
               y == clientOut[c]
    <3>1. x + 0 + 1 = y /\ x \in Nat
      BY <2>4, <2>5, <2>7
    <3> HIDE DEF x, y
    <3>2. x + 1 = y
      BY <3>1
    <3> QED
      BY <3>2 DEF x, y
  <2> QED
    BY <2>3, <2>6, <2>8
<1>3. CASE ~Online(c)
  <2>1. store[c].in + 1 = clientOut[c]
    BY <1>1, <1>3 DEF OverInv
  <2>2. clientOut'[c] = clientOut[c]
    <3>1. \A kind \in SentKinds : ~ClientSends(c, kind)
      <4>1. stage[c] \in {"away", "leaving"}
        BY <1>1, <1>3 DEF Online, NumbersInv, LinkInv, ConnectionInv
      <4> QED
        BY <4>1 DEF ClientSends, Legal
    <3>2. ASSUME NEW d \in Clients, NEW kind \in SentKinds, ClientSends(d, kind)
          PROVE  clientOut'[c] = clientOut[c]
      BY <3>1, <3>2 DEF ClientSends, IInv, TypeOK
    <3>3. ASSUME NEW d \in Clients, Accept(d) \/ ClientLeaves(d)
          PROVE  clientOut' = clientOut
      BY <3>3 DEF Accept, Connects, ClientLeaves
    <3> QED
      BY <3>2, <3>3, Frames DEF Framed, ClientStep, ClientMoves, Accepts
  <2>3. store'[c].in = store[c].in
    <3>1. CASE store'[c] = store[c]
      BY <3>1
    <3>2. CASE store'[c] # store[c]
      <4>1. ~Restart
        BY <3>2, CleanKept
      <4>2. ASSUME DisconnectSave, client[sessions[reactor.slot]] = c PROVE FALSE
        <5>1. reactor.pc = "disconnect"
          BY <4>2 DEF DisconnectSave, reactor
        <5> QED
          BY <1>1, <1>3, <4>2, <5>1, LeavingFacts DEF LoggedOn
      <4>3. StopSave
        BY <3>2, <4>2, StoreSteps
      <4>4. reactor.pc = "stopping" /\ reactor'.pc \in {"stopping", "stopped"} /\ ~DisconnectSave
        BY <4>3, ReactorPcs DEF StopSave, DisconnectSave, reactor, IInv
      <4>5. /\ Latest(sessions[reactor.slot], c)
            /\ store'[c] = [out |-> session[sessions[reactor.slot]].out,
                            in |-> session[sessions[reactor.slot]].in]
        BY <3>2, <4>1, <4>4, FileSteps
      <4> QED
        BY <4>5 DEF Latest
    <3> QED
      BY <3>1, <3>2
  <2> QED
    BY <2>1, <2>2, <2>3
<1> QED
  BY <1>2, <1>3

LEMMA OverNext ==
  ASSUME IInv, NumbersInv, [Next]_vars, NEW c \in Clients, clean'[c]
  PROVE  OverInv(c)'
<1>1. clean[c] /\ OverInv(c)
  BY CleanKept DEF NumbersInv, CleanInv
<1>2. CASE Restart
  <2>1. sessions' = <<>> /\ reactor' = Waiting
    BY <1>2, ReactorMoves DEF Restart
  <2>2. DOMAIN sessions' = {}
    BY <2>1
  <2>3. reactor'.pc = "poll"
    BY <2>1 DEF Waiting
  <2> QED
    BY <2>2, <2>3, FileCounts DEF OverInv
<1>3. CASE ~Restart /\ ~(Serving' \/ (~Online(c)' /\ reactor'.pc # "failed"))
  BY <1>3, FileCounts DEF OverInv
<1>4. CASE ~Restart /\ (Serving' \/ (~Online(c)' /\ reactor'.pc # "failed"))
  <2>1. /\ Serving \/ (~Online(c) /\ reactor.pc # "failed")
        /\ reactor'.pc # "failed"
    BY <1>4, SettledBefore
  <2>2. /\ \A i \in DOMAIN sessions :
             Over(sessions[i], c) => Stale(sessions[i], c) \/ Latest(sessions[i], c)
        /\ \A i, j \in DOMAIN sessions :
             Over(sessions[i], c) /\ Over(sessions[j], c) /\ i # j =>
               Stale(sessions[i], c) \/ Stale(sessions[j], c)
        /\ reactor.pc = "remove" /\ client[sessions[reactor.slot]] = c =>
             \A i \in DOMAIN sessions : Over(sessions[i], c) => Stale(sessions[i], c)
    BY <1>1, <2>1 DEF OverInv
  <2>3. ASSUME NEW i \in DOMAIN sessions', NEW k \in Connections, sessions'[i] = k, Over(k, c)'
        PROVE  /\ i \in DOMAIN sessions /\ sessions[i] = k
               /\ \/ Over(k, c)
                  \/ DisconnectRemove /\ sessions[reactor.slot] = k /\ link[c] = k
    <3>1. session'[sessions'[i]].comp = c
      BY <2>3 DEF Over
    <3> QED
      BY <1>4, <2>3, <3>1, OverSlots, OverAgain
  <2>4. ASSUME NEW i \in DOMAIN sessions', NEW k \in Connections, sessions'[i] = k, Over(k, c)'
        PROVE  Stale(k, c)' \/ Latest(k, c)'
    <3>1. CASE DisconnectRemove /\ sessions[reactor.slot] = k /\ link[c] = k
      BY <3>1, RemovedLatest
    <3>2. CASE Over(k, c)
      <4>1. i \in DOMAIN sessions /\ sessions[i] = k /\ (Stale(k, c) \/ Latest(k, c))
        BY <2>2, <2>3, <2>4, <3>2
      <4>2. CASE store'[c] = store[c] \/ DisconnectSave
        BY <1>4, <3>2, <4>1, <4>2, StaleKept
      <4>3. CASE store'[c] # store[c] /\ ~DisconnectSave
        <5>1. /\ StopSave /\ reactor.slot \in DOMAIN sessions
              /\ Over(sessions[reactor.slot], c) /\ ~Stale(sessions[reactor.slot], c)
              /\ store'[c] = [out |-> session[sessions[reactor.slot]].out,
                              in |-> session[sessions[reactor.slot]].in]
          BY <1>4, <4>3, FileSteps
        <5>2. CASE i # reactor.slot
          <6>1. Stale(k, c)
            BY <2>2, <3>2, <4>1, <5>1, <5>2
          <6> QED
            BY <1>4, <3>2, <6>1, StaleKept
        <5>3. CASE i = reactor.slot
          <6>1. session' = session
            BY <5>1 DEF StopSave
          <6>2. session[k].out \in Nat /\ Coming(k)' \in {0, 1}
            BY DEF IInv, TypeOK, Coming
          <6> DEFINE x == session'[k].out
                     y == store'[c].out
                     z == Coming(k)'
          <6>3. x \in Nat /\ y = x /\ z \in {0, 1} /\ session'[k].in = store'[c].in
            BY <4>1, <5>1, <5>3, <6>1, <6>2
          <6>4. x >= y /\ x + z <= y + 1
            <7> HIDE DEF x, y, z
            <7> QED
              BY <6>3
          <6> QED
            BY <6>3, <6>4 DEF Latest
        <5> QED
          BY <5>2, <5>3
      <4> QED
        BY <4>2, <4>3
    <3> QED
      BY <2>3, <2>4, <3>1, <3>2
  <2>5. ASSUME NEW i \in DOMAIN sessions', NEW k \in Connections, sessions'[i] = k, Over(k, c)',
               NEW j \in DOMAIN sessions', NEW l \in Connections, sessions'[j] = l, Over(l, c)',
               i # j
        PROVE  Stale(k, c)' \/ Stale(l, c)'
    <3>1. i \in DOMAIN sessions /\ sessions[i] = k /\ j \in DOMAIN sessions /\ sessions[j] = l
      BY <2>3, <2>5
    <3>2. k # l
      BY <2>5, <3>1 DEF IInv, TableInv
    <3>3. CASE Over(k, c) /\ Over(l, c)
      <4>1. Stale(k, c) \/ Stale(l, c)
        BY <2>2, <2>5, <3>1, <3>3
      <4> QED
        BY <1>4, <3>3, <4>1, StaleKept
    <3>4. ASSUME NEW x \in Connections, NEW y \in Connections, Over(x, c),
                 NEW n \in DOMAIN sessions, sessions[n] = x,
                 DisconnectRemove /\ sessions[reactor.slot] = y /\ link[c] = y
          PROVE  Stale(x, c)'
      <4>1. client[y] = c /\ reactor.pc = "remove"
        BY <3>4, RemovedLatest
      <4>2. Stale(x, c)
        BY <2>2, <3>4, <4>1
      <4> QED
        BY <1>4, <3>4, <4>2, StaleKept
    <3>5. CASE Over(k, c) /\ ~Over(l, c)
      BY <2>3, <2>5, <3>1, <3>4, <3>5
    <3>6. CASE ~Over(k, c) /\ Over(l, c)
      BY <2>3, <2>5, <3>1, <3>4, <3>6
    <3>7. ~(~Over(k, c) /\ ~Over(l, c))
      BY <2>3, <2>5, <3>2
    <3> QED
      BY <3>3, <3>5, <3>6, <3>7
  <2>6. ASSUME reactor'.pc = "remove", client'[sessions'[reactor'.slot]] = c,
               NEW i \in DOMAIN sessions', NEW k \in Connections, sessions'[i] = k, Over(k, c)'
        PROVE  Stale(k, c)'
    <3>1. ~HangsUp /\ ~Accepts /\ ~DisconnectRemove
      <4>1. HangsUp => reactor'.pc = "disconnect"
        BY ReactorPcs DEF IInv
      <4>2. Accepts => reactor'.pc = "initialise"
        BY ReactorPcs DEF IInv
      <4>3. DisconnectRemove => reactor'.pc # "remove"
        BY ReactorMoves, ResumePc DEF IInv, TypeOK, ThreadRecord, Threads, reactor
      <4> QED
        BY <2>6, <4>1, <4>2, <4>3
    <3>2. /\ reactor'.slot = reactor.slot
          /\ reactor'.pc = reactor.pc \/ DisconnectSave
      BY <2>6, <3>1, PhaseSteps
    <3>3. sessions' = sessions /\ client' = client
      BY <1>4, <3>1, Frames DEF Framed, TableStep, tableVars
    <3>4. Over(k, c) /\ i \in DOMAIN sessions /\ sessions[i] = k
      BY <2>3, <2>6, <3>1
    <3>5. client[sessions[reactor.slot]] = c
      BY <2>6, <3>2, <3>3
    <3>6. CASE reactor'.pc = reactor.pc
      <4>1. Stale(k, c)
        BY <2>2, <2>6, <3>4, <3>5, <3>6
      <4> QED
        BY <1>4, <3>4, <4>1, StaleKept
    <3>7. CASE DisconnectSave
      <4>1. Stale(k, c) \/ Latest(k, c)
        BY <2>2, <3>4
      <4>2. store'[c] # store[c]
        <5>1. reactor.pc = "disconnect"
          BY <3>7 DEF DisconnectSave, reactor
        <5>2. PICK l \in Connections : l = link[c]
          BY <1>1, <3>5, <5>1, LeavingFacts
        <5>3. sessions[reactor.slot] = l /\ LoggedOn(c) /\ Serving
          BY <1>1, <3>5, <5>1, <5>2, LeavingFacts
        <5>4. Ahead(c)
          BY <1>1 DEF NumbersInv, CleanInv
        <5>5. session[l].out >= store[c].out + 2 /\ session[l].comp = c
          BY <5>1, <5>2, <5>3, <5>4 DEF Ahead, LoggedOn
        <5>6. store' = [store EXCEPT ![c] = [out |-> session[l].out, in |-> session[l].in]]
          BY <3>7, <5>3, <5>5 DEF DisconnectSave, Save, reactor
        <5>7. store \in [Clients \cup {NoClient} -> Numbers] /\ store[c].out \in Nat
          BY DEF IInv, TypeOK, Numbers
        <5>8. store'[c].out = session[l].out
          BY <5>6, <5>7
        <5> QED
          BY <5>5, <5>7, <5>8
      <4> QED
        BY <1>4, <3>4, <3>7, <4>1, <4>2, StaleKept
    <3> QED
      BY <3>2, <3>6, <3>7
  <2>7. \A i \in DOMAIN sessions' : sessions'[i] \in Connections
    <3>1. sessions' \in Seq(Connections)
      BY TypeNext DEF IInv, TypeOK
    <3> QED
      BY <3>1
  <2>8. (\A i \in DOMAIN sessions :
           Over(sessions[i], c) => Stale(sessions[i], c) \/ Latest(sessions[i], c))'
    BY <2>4, <2>7 DEF Over, Stale, Latest, Coming
  <2>9. (\A i, j \in DOMAIN sessions :
           Over(sessions[i], c) /\ Over(sessions[j], c) /\ i # j =>
             Stale(sessions[i], c) \/ Stale(sessions[j], c))'
    BY <2>5, <2>7 DEF Over, Stale, Coming
  <2>10. (reactor.pc = "remove" /\ client[sessions[reactor.slot]] = c =>
            \A i \in DOMAIN sessions : Over(sessions[i], c) => Stale(sessions[i], c))'
    BY <2>6, <2>7 DEF Over, Stale, Coming
  <2> QED
    BY <2>8, <2>9, <2>10, FileCounts DEF OverInv
<1> QED
  BY <1>2, <1>3, <1>4
-----------------------------------------------------------------------------
(* The theorems *)

LEMMA NumbersInit == Init => NumbersInv
<1> SUFFICES ASSUME Init PROVE NumbersInv
  OBVIOUS
<1>1. CompInv /\ BoxInv
  BY DEF Init, CompInv, BoxInv, NewSession
<1>2. reactor = Waiting /\ processor = Waiting
  BY DEF Init, Threads, reactor, processor
<1>3. reactor.pc = "poll" /\ reactor.batch = <<>> /\ processor.pc = "poll"
  BY <1>2 DEF Waiting
<1>4. IdleInv /\ FailedInv
  BY <1>3 DEF IdleInv, FailedInv
<1>5. LinkInv
  BY DEF Init, LinkInv
<1>6. ASSUME NEW c \in Clients PROVE CleanInv(c)
  <2>1. /\ link[c] = 0 /\ sessions = <<>> /\ refused = {} /\ received[c] = NothingSeen
        /\ store[c] = NoFile /\ clientOut[c] = 1
        /\ \A k \in Connections : open[k] = FALSE
    BY DEF Init
  <2>2. DOMAIN sessions = {} /\ ~Online(c) /\ ~LoggedOn(c)
    BY <2>1 DEF Online, LoggedOn
  <2>3. ConnectionInv(c)
    BY <2>1, <2>2 DEF ConnectionInv
  <2>4. QueueInv(c) /\ AnswerInv(c)
    BY <1>3, <2>2 DEF QueueInv, AnswerInv
  <2>5. QuietInv(c) /\ Ahead(c)
    BY <1>3, <2>2 DEF QuietInv, AtSession, Ahead
  <2>6. SeenInv(c)
    <3>1. \A t \in Threads : thread[t].pc # "increment"
      BY <1>3 DEF Threads, reactor, processor
    <3>2. received[c].last = 0 /\ received[c].increasing /\ store[c].out = 1
      BY <2>1 DEF NothingSeen, NoFile
    <3> QED
      BY <2>2, <3>1, <3>2 DEF SeenInv
  <2>7. OverInv(c)
    <3>1. store[c].in = 0
      BY <2>1 DEF NoFile
    <3> QED
      BY <1>3, <2>1, <2>2, <3>1 DEF OverInv
  <2> QED
    BY <2>1, <2>3, <2>4, <2>5, <2>6, <2>7 DEF CleanInv
<1> QED
  BY <1>1, <1>4, <1>5, <1>6 DEF NumbersInv

LEMMA NumbersNext == IInv /\ NumbersInv /\ [Next]_vars => NumbersInv'
<1> SUFFICES ASSUME IInv, NumbersInv, [Next]_vars PROVE NumbersInv'
  OBVIOUS
<1>1. CompInv' /\ IdleInv' /\ LinkInv' /\ BoxInv' /\ FailedInv'
  BY CompNext, IdleNext, LinkNext, BoxNext, FailedNext DEF NumbersInv
<1>2. ASSUME NEW c \in Clients, clean'[c] PROVE CleanInv(c)'
  <2>1. \A k \in refused' : client'[k] # c
    BY <1>2, RefusedNext
  <2>2. ConnectionInv(c)' /\ QueueInv(c)' /\ AnswerInv(c)' /\ QuietInv(c)'
    BY <1>2, ConnectionNext, QueueNext, AnswerNext, QuietKept
  <2>3. SeenInv(c)' /\ Ahead(c)' /\ OverInv(c)'
    BY <1>2, SeenNext, AheadNext, OverNext
  <2> QED
    BY <2>1, <2>2, <2>3 DEF CleanInv
<1> QED
  BY <1>1, <1>2 DEF NumbersInv

(* A client that leaves by LOGOFF only, that finds its slot free of orders *)
(* and its file in place, receives strictly increasing numbers from the    *)
(* two sending threads, over all connections and restarts, for any number  *)
(* of clients, messages, connections and batch sizes.                      *)
THEOREM NumbersIncrease == Spec => []NumbersNeverRepeat
<1>1. NumbersInv => NumbersNeverRepeat
  BY DEF NumbersInv, CleanInv, SeenInv, NumbersNeverRepeat
<1> QED
  BY <1>1, InvInit, InvNext, NumbersInit, NumbersNext, PTL DEF Spec

(* validateSequenceNumber closes no connection of such a client, if it     *)
(* sends consecutive numbers and the required tags, on whichever slot it   *)
(* comes back and however its messages are split into batches.             *)
THEOREM CleanClientsServed == Spec => []CleanClientsNotRefused
<1>1. IInv /\ NumbersInv => CleanClientsNotRefused
  <2> SUFFICES ASSUME IInv, NumbersInv, NEW k \in refused PROVE ~clean[client[k]]
    BY DEF CleanClientsNotRefused
  <2>1. k \in Connections /\ k <= accepted
    BY DEF IInv, TypeOK, NumbersInv, LinkInv
  <2>2. client[k] \in Clients
    BY <2>1 DEF IInv, FreshInv
  <2> QED
    BY <2>2 DEF NumbersInv, CleanInv
<1> QED
  BY <1>1, InvInit, InvNext, NumbersInit, NumbersNext, PTL DEF Spec
=============================================================================
