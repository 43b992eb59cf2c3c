---------------------------- MODULE FixSessions -----------------------------
(***************************************************************************)
(* FIX sessions: the peer table of TCPServer, the session table of         *)
(* FixServerReactor, the sequence numbers of every FixSession, the files   *)
(* that keep them between connections, and the two threads that send:      *)
(*                                                                         *)
(*   reactor    accepts, reads, answers and disconnects clients, alone on  *)
(*              its epoll loop;                                            *)
(*   processor  OutgoingMessageProcessor::run sends execution reports to   *)
(*              the session in the slot that the order remembers.          *)
(*                                                                         *)
(* A FixSession and a TCPConnection are created for every accepted         *)
(* connection and bear its number here. The session at slot i of the table *)
(* is deleted when the slot is used again. Socket descriptors are reused   *)
(* lowest first, as slots are, so a descriptor is reused with its slot.    *)
(*                                                                         *)
(* The matching layer appears as the orders it holds and the reports it    *)
(* pushes; module MatchingEngine says which ones.                          *)
(***************************************************************************)
EXTENDS Integers, Sequences

CONSTANTS
  Clients,                   \* comp ids of the FIX clients
  NoClient,                  \* the empty comp id of a session before LOGON
  BatchSize,                 \* messages one read of the receive cache may
                             \* hold; 1 if FIX_RECEIVE_CACHE_SIZE is 0
  SequenceNumberValidation,  \* FIX_SERVER_SEQUENCE_NUMBER_VALIDATION
  SentKinds,                 \* kinds of messages the clients send
  MaxUnread,                 \* bound: messages unread on a connection
  QuietReconnects,           \* workload: no slot is reused while an order
                             \* or a report of its last client is alive
  MaxConnections,            \* bound: connections accepted
  MaxSent,                   \* bound: messages each client sends
  MaxRestarts,               \* bound: ends and restarts of the server
  MaxFills                   \* bound: reports after an order's first

(* TEST_REQUEST and USER_LOGON are answered like HEARTBEAT. OTHER is every *)
(* message that ends in a business reject. MALFORMED lacks a required tag  *)
(* and WRONG_TARGET is a LOGON to another comp id.                         *)
Kinds == {"LOGON", "WRONG_TARGET", "LOGOFF", "HEARTBEAT", "ORDER", "OTHER", "MALFORMED"}

ASSUME ConstantsAssumption ==
  /\ NoClient \notin Clients
  /\ SentKinds \subseteq Kinds
  /\ MaxUnread \in Nat
  /\ BatchSize \in Nat \ {0}
  /\ SequenceNumberValidation \in BOOLEAN
  /\ QuietReconnects \in BOOLEAN
  /\ MaxConnections \in Nat
  /\ MaxSent \in Nat
  /\ MaxRestarts \in Nat
  /\ MaxFills \in Nat

VARIABLES
  accepted,      \* number of connections accepted
  client,        \* client[k]: who is at the other end of connection k
  open,          \* open[k]: the server has not closed connection k
  inbox,         \* inbox[k]: messages sent over k and not yet read
  peers,         \* m_peerSockets
  peerFlags,     \* m_peerSocketsConnectionFlags
  sessions,      \* FixServerReactor::Sessions
  sessionFlags,  \* FixServerReactor::SessionFlags
  session,       \* session[k]: the FixSession of connection k
  store,         \* the sequence number files, by comp id
  thread,        \* where the two threads are
  orders,        \* orders in the books, with the slot they came from
  reports,       \* execution reports waiting for the processor
  fills,         \* reports pushed after the first (bounds the model)
  refused,       \* connections closed by sequence number validation
  restarts,      \* times the server was started again
  link,          \* link[c]: connection of client c, 0 if none
  stage,         \* stage[c]: how far client c is on its connection
  clientOut,     \* clientOut[c]: number of the client's next message
  clean,         \* clean[c]: c has always logged off, sent no bad message,
                 \* got no slot in use by orders, was away when the server
                 \* ended and did not have its file set back by stop()
  received       \* received[c]: what client c has seen of the numbers and
                 \* the reports it received, over all connections

wireVars == <<accepted, client, open, inbox>>
tableVars == <<peers, peerFlags, sessions, sessionFlags>>
bookVars == <<orders, reports, fills>>
clientVars == <<link, stage, clientOut, clean>>
vars == <<wireVars, tableVars, session, store, thread, bookVars, refused,
          restarts, clientVars, received>>
-----------------------------------------------------------------------------
(* Data *)

Connections == 1 .. MaxConnections

Threads == {"reactor", "processor"}

Message == [kind : Kinds, seq : Nat]

Numbers == [out : Nat, in : Nat]

(* What loadFromSequenceStore gives when there is no file *)
NoFile == [out |-> 1, in |-> 0]

Origin == [slot : Connections, owner : Clients \cup {NoClient}]

(* FixSession::FixSession(). The locks exist once tcp is set. *)
NewSession == [out |-> 1, in |-> 1, comp |-> NoClient, tcp |-> 0,
               lock |-> "free", sendLock |-> "free"]

Waiting == [pc |-> "poll", slot |-> 0, conn |-> 0, batch |-> <<>>, owner |-> NoClient,
            num |-> 0, then |-> "poll"]

(* What a client remembers: the last number, whether every number was      *)
(* greater than the one before, and whether every report was its own.      *)
NothingSeen == [last |-> 0, increasing |-> TRUE, own |-> TRUE]

Seen(r, c, num, owner) ==
  [last |-> num, increasing |-> r.increasing /\ num > r.last,
   own |-> r.own /\ owner \in {c, NoClient}]

(* The slot addPeer and addSession use: the first free one or a new one *)
FreeSlot(flags) ==
  IF \A i \in DOMAIN flags : flags[i]
  THEN Len(flags) + 1
  ELSE CHOOSE i \in DOMAIN flags :
         ~flags[i] /\ \A j \in DOMAIN flags : ~flags[j] => i <= j

Put(table, i, value) ==
  IF i = Len(table) + 1 THEN Append(table, value) ELSE [table EXCEPT ![i] = value]

(* An undefined operation: what the program does next is not modelled. *)
Failed == [Waiting EXCEPT !.pc = "failed"]

(* The next message of the batch, or back to epoll *)
Resume(r) ==
  IF Len(r.batch) > 1
  THEN [r EXCEPT !.pc = "process", !.batch = Tail(@), !.num = 0, !.then = "poll"]
  ELSE Waiting

Alive(k) == \E i \in DOMAIN sessions : sessions[i] = k

Init ==
  /\ accepted = 0
  /\ client = [k \in Connections |-> NoClient]
  /\ open = [k \in Connections |-> FALSE]
  /\ inbox = [k \in Connections |-> <<>>]
  /\ peers = <<>>
  /\ peerFlags = <<>>
  /\ sessions = <<>>
  /\ sessionFlags = <<>>
  /\ session = [k \in Connections |-> NewSession]
  /\ store = [c \in Clients \cup {NoClient} |-> NoFile]
  /\ thread = [t \in Threads |-> Waiting]
  /\ orders = {}
  /\ reports = <<>>
  /\ fills = 0
  /\ refused = {}
  /\ restarts = 0
  /\ link = [c \in Clients |-> 0]
  /\ stage = [c \in Clients |-> "away"]
  /\ clientOut = [c \in Clients |-> 1]
  /\ clean = [c \in Clients |-> TRUE]
  /\ received = [c \in Clients |-> NothingSeen]
-----------------------------------------------------------------------------
(* FixSession::send, by either thread *)

(* Under the send lock: the number is read and the message handed to the   *)
(* socket. Nothing reaches the client if the socket is closed or send      *)
(* fails; the code goes on either way.                                     *)
Transmit(t) ==
  /\ thread[t].pc = "send"
  /\ LET k == thread[t].conn
         tcp == session[k].tcp
     IN  /\ Alive(k)
         /\ session[k].sendLock = "free"
         /\ session' = [session EXCEPT ![k].sendLock = t]
         /\ thread' = [thread EXCEPT ![t].pc = "increment", ![t].num = session[k].out]
         /\ \/ /\ open[tcp]
               /\ link[client[tcp]] = tcp
               /\ received' = [received EXCEPT ![client[tcp]] =
                                 Seen(@, client[tcp], session[k].out, thread[t].owner)]
            \/ received' = received
  /\ UNCHANGED <<wireVars, tableVars, store, bookVars, refused, restarts, clientVars>>

(* m_outgoingSequenceNumber++ is not atomic: a LOGON may restore the       *)
(* number in between. Then the lock is released.                           *)
Increment(t) ==
  /\ thread[t].pc = "increment"
  /\ LET r == thread[t]
     IN  /\ Alive(r.conn)
         /\ \E n \in {session[r.conn].out, r.num} :
              session' = [session EXCEPT ![r.conn].out = n + 1, ![r.conn].sendLock = "free"]
         /\ thread' = [thread EXCEPT ![t] = IF r.then = "next" THEN Resume(r)
                                            ELSE [r EXCEPT !.pc = r.then]]
  /\ UNCHANGED <<wireVars, tableVars, store, bookVars, refused, restarts, clientVars, received>>

(* FixSession::lock before an execution report or a business reject *)
Lock(t) ==
  /\ thread[t].pc = "lock"
  /\ LET k == thread[t].conn
     IN  /\ Alive(k)
         /\ session[k].tcp # 0
         /\ session[k].lock = "free"
         /\ session' = [session EXCEPT ![k].lock = t]
  /\ thread' = [thread EXCEPT ![t].pc = "send", ![t].then = "unlock"]
  /\ UNCHANGED <<wireVars, tableVars, store, bookVars, refused, restarts, clientVars, received>>

(* Faulty variant: the session stays locked. *)
UnlockForgotten(t) ==
  /\ thread[t].pc = "unlock"
  /\ Alive(thread[t].conn)
  /\ thread' = [thread EXCEPT ![t] = IF t = "reactor" THEN Resume(@) ELSE Waiting]
  /\ UNCHANGED <<wireVars, tableVars, session, store, bookVars, refused, restarts, clientVars, received>>

(* FixSession::unlock *)
Unlock(t) ==
  /\ thread[t].pc = "unlock"
  /\ Alive(thread[t].conn)
  /\ session' = [session EXCEPT ![thread[t].conn].lock = "free"]
  /\ thread' = [thread EXCEPT ![t] = IF t = "reactor" THEN Resume(@) ELSE Waiting]
  /\ UNCHANGED <<wireVars, tableVars, store, bookVars, refused, restarts, clientVars, received>>

Fail ==
  /\ thread' = [t \in Threads |-> Failed]
  /\ UNCHANGED <<wireVars, tableVars, session, store, bookVars, refused, restarts, clientVars, received>>

(* The session was deleted under the thread, or its locks do not exist     *)
(* yet: what follows is undefined.                                         *)
UseUndefined(t) ==
  /\ \/ /\ thread[t].pc \in {"lock", "send", "increment", "unlock"}
        /\ ~Alive(thread[t].conn)
     \/ thread[t].pc = "lock" /\ session[thread[t].conn].tcp = 0
  /\ Fail
-----------------------------------------------------------------------------
(* The reactor thread *)

(* The workload assumption on the reuse of slot i *)
Quiet(i) ==
  /\ \A o \in orders : o.slot # i
  /\ \A n \in DOMAIN reports : reports[n].slot # i
  /\ thread["processor"].slot # i

Connects(c) ==
  /\ thread["reactor"].pc = "poll"
  /\ link[c] = 0
  /\ accepted < MaxConnections

(* acceptNewConnection: addPeer, then addSession. The client's connect is  *)
(* part of the step.                                                       *)
Accept(c) ==
  /\ Connects(c)
  /\ LET k == accepted + 1
         peerIndex == FreeSlot(peerFlags)
         sessionIndex == FreeSlot(sessionFlags)
     IN  /\ QuietReconnects => Quiet(peerIndex)
         /\ accepted' = k
         /\ client' = [client EXCEPT ![k] = c]
         /\ open' = [open EXCEPT ![k] = TRUE]
         /\ peers' = Put(peers, peerIndex, k)
         /\ peerFlags' = Put(peerFlags, peerIndex, TRUE)
         /\ sessions' = Put(sessions, sessionIndex, k)
         /\ sessionFlags' = Put(sessionFlags, sessionIndex, TRUE)
         /\ thread' = [thread EXCEPT !["reactor"] =
                         [Waiting EXCEPT !.pc = "initialise", !.slot = peerIndex]]
         /\ link' = [link EXCEPT ![c] = k]
         /\ stage' = [stage EXCEPT ![c] = "connected"]
         /\ clean' = [clean EXCEPT ![c] = @ /\ Quiet(peerIndex)]
  /\ UNCHANGED <<inbox, session, store, bookVars, refused, restarts, clientOut, received>>

(* addSession has no free slot and appends to both vectors of the table,   *)
(* which may move them, while the processor reads them in the getSession   *)
(* of TakeReport. Both are static members that no lock guards: what the    *)
(* processor reads is undefined. If it reads what was there, the two steps *)
(* are as good as taken one after the other.                               *)
AcceptDuringLookup(c) ==
  /\ Connects(c)
  /\ FreeSlot(sessionFlags) = Len(sessionFlags) + 1
  /\ thread["processor"].pc = "poll"
  /\ reports # <<>>
  /\ Fail

(* The end of onClientConnected: the session at the peer's index gets the  *)
(* peer's socket.                                                          *)
Initialise ==
  /\ thread["reactor"].pc = "initialise"
  /\ LET i == thread["reactor"].slot
     IN  session' = [session EXCEPT ![sessions[i]].tcp = peers[i]]
  /\ thread' = [thread EXCEPT !["reactor"] = Waiting]
  /\ UNCHANGED <<wireVars, tableVars, store, bookVars, refused, restarts, clientVars, received>>

(* handleClient: one read gives a batch of complete messages *)
HandleClient(i) ==
  /\ thread["reactor"].pc = "poll"
  /\ sessionFlags[i]
  /\ LET k == peers[i]
     IN  /\ open[k]
         /\ inbox[k] # <<>>
         /\ \E n \in 1 .. BatchSize :
              /\ n <= Len(inbox[k])
              /\ inbox' = [inbox EXCEPT ![k] = SubSeq(@, n + 1, Len(@))]
              /\ thread' = [thread EXCEPT !["reactor"] =
                              [Waiting EXCEPT !.pc = "process", !.slot = i, !.conn = sessions[i],
                                              !.batch = SubSeq(inbox[k], 1, n)]]
  /\ UNCHANGED <<accepted, client, open, tableVars, session, store, bookVars, refused, restarts,
                 clientVars, received>>

(* epoll reports an error or a hang-up, or recv finds the end of the       *)
(* stream with an errno that says so. With another errno the code only     *)
(* logs.                                                                   *)
HangUp(i) ==
  /\ thread["reactor"].pc = "poll"
  /\ peerFlags[i]
  /\ open[peers[i]]
  /\ link[client[peers[i]]] # peers[i]
  /\ thread' = [thread EXCEPT !["reactor"] =
                  [Waiting EXCEPT !.pc = "disconnect", !.slot = i]]
  /\ UNCHANGED <<wireVars, tableVars, session, store, bookVars, refused, restarts, clientVars, received>>

(* processMessage, first part: required tags, and LOGON *)
RejectMalformed ==
  /\ thread["reactor"].pc = "process"
  /\ Head(thread["reactor"].batch).kind = "MALFORMED"
  /\ thread' = [thread EXCEPT !["reactor"].pc = "send", !["reactor"].then = "next"]
  /\ UNCHANGED <<wireVars, tableVars, session, store, bookVars, refused, restarts, clientVars, received>>

(* Faulty variant: the LOGON is taken for a message already counted. *)
RestoredBefore(s, comp) ==
  [s EXCEPT !.comp = comp, !.out = store[comp].out, !.in = store[comp].in - 1]

(* handleLogonMessage takes over the sender's comp id and its numbers. *)
Restored(s, comp) ==
  [s EXCEPT !.comp = comp, !.out = store[comp].out, !.in = store[comp].in]

HandleLogon ==
  /\ thread["reactor"].pc = "process"
  /\ Head(thread["reactor"].batch).kind = "LOGON"
  /\ LET k == thread["reactor"].conn
     IN  session' = [session EXCEPT ![k] = Restored(@, client[session[k].tcp])]
  /\ thread' = [thread EXCEPT !["reactor"].pc = "send", !["reactor"].then = "validate"]
  /\ UNCHANGED <<wireVars, tableVars, store, bookVars, refused, restarts, clientVars, received>>

(* FixSession::close and then onClientDisconnected *)
CloseSession(k) ==
  /\ open' = [open EXCEPT ![session[k].tcp] = FALSE]
  /\ thread' = [thread EXCEPT !["reactor"].pc = "disconnect"]
  /\ UNCHANGED <<accepted, client, inbox, tableVars, session, store, bookVars, restarts,
                 clientVars, received>>

RefuseTarget ==
  /\ thread["reactor"].pc = "process"
  /\ Head(thread["reactor"].batch).kind = "WRONG_TARGET"
  /\ CloseSession(thread["reactor"].conn)
  /\ refused' = refused

(* processMessage, second part: a LOGON comes here once it is answered *)
AtValidation ==
  \/ thread["reactor"].pc = "validate"
  \/ /\ thread["reactor"].pc = "process"
     /\ Head(thread["reactor"].batch).kind \in {"LOGOFF", "HEARTBEAT", "ORDER", "OTHER"}

ValidSequenceNumber(k, m) == SequenceNumberValidation => m.seq = session[k].in + 1

RefuseNumber ==
  /\ AtValidation
  /\ LET k == thread["reactor"].conn
     IN  /\ ~ValidSequenceNumber(k, Head(thread["reactor"].batch))
         /\ CloseSession(k)
         /\ refused' = refused \cup {session[k].tcp}

(* What the reactor does with a valid message: an answer and its sequel,   *)
(* a business reject under the session lock, or nothing more to send.      *)
Answer(r, m) ==
  CASE m.kind = "HEARTBEAT" -> [r EXCEPT !.pc = "send", !.then = "next"]
    [] m.kind = "LOGOFF"    -> [r EXCEPT !.pc = "send", !.then = "disconnect"]
    [] m.kind = "OTHER" /\ sessionFlags[r.slot]
                            -> [r EXCEPT !.pc = "lock", !.conn = sessions[r.slot]]
    [] OTHER                -> Resume(r)

AcceptMessage ==
  /\ AtValidation
  /\ LET r == thread["reactor"]
         m == Head(r.batch)
         origin == [slot |-> r.slot, owner |-> session[r.conn].comp]
     IN  /\ ValidSequenceNumber(r.conn, m)
         /\ session' = [session EXCEPT ![r.conn].in = m.seq]
         /\ thread' = [thread EXCEPT !["reactor"] = Answer(r, m)]
         /\ IF m.kind = "ORDER"
            THEN orders' = orders \cup {origin} /\ reports' = Append(reports, origin)
            ELSE UNCHANGED <<orders, reports>>
  /\ UNCHANGED <<wireVars, tableVars, store, fills, refused, restarts, clientVars, received>>

(* Faulty variant: the two numbers change places. *)
SaveSwapped(k) ==
  store' = [store EXCEPT ![session[k].comp] = [out |-> session[k].in, in |-> session[k].out]]

(* updateSequenceStore *)
Save(k) ==
  store' = [store EXCEPT ![session[k].comp] = [out |-> session[k].out, in |-> session[k].in]]

(* Faulty variant: the session is not locked first. *)
DisconnectSaveUnlocked ==
  /\ thread["reactor"].pc = "disconnect"
  /\ sessionFlags[thread["reactor"].slot]
  /\ Save(sessions[thread["reactor"].slot])
  /\ thread' = [thread EXCEPT !["reactor"].pc = "remove"]
  /\ UNCHANGED <<wireVars, tableVars, session, bookVars, refused, restarts, clientVars, received>>

(* FixServerReactor::onClientDisconnected locks the session and saves. *)
DisconnectSave ==
  /\ thread["reactor"].pc = "disconnect"
  /\ LET i == thread["reactor"].slot
         k == sessions[i]
     IN  /\ sessionFlags[i]
         /\ session[k].lock = "free"
         /\ session' = [session EXCEPT ![k].lock = "reactor"]
         /\ Save(k)
  /\ thread' = [thread EXCEPT !["reactor"].pc = "remove"]
  /\ UNCHANGED <<wireVars, tableVars, bookVars, refused, restarts, clientVars, received>>

(* getSession gave nullptr: the session of this batch is gone already. *)
DisconnectNothing ==
  /\ thread["reactor"].pc = "disconnect"
  /\ ~sessionFlags[thread["reactor"].slot]
  /\ Fail

(* Faulty variant: removePeer leaves its flag set. *)
DisconnectRemovePeerKept ==
  /\ thread["reactor"].pc = "remove"
  /\ LET i == thread["reactor"].slot
         k == sessions[i]
     IN  /\ sessionFlags' = [sessionFlags EXCEPT ![i] = FALSE]
         /\ peerFlags' = peerFlags
         /\ open' = [open EXCEPT ![session[k].tcp] = FALSE, ![peers[i]] = FALSE]
         /\ inbox' = [inbox EXCEPT ![peers[i]] = <<>>]
         /\ session' = [session EXCEPT ![k].lock = "free"]
  /\ thread' = [thread EXCEPT !["reactor"] = Resume(@)]
  /\ UNCHANGED <<accepted, client, peers, sessions, store, bookVars, refused, restarts, clientVars,
                 received>>

(* removeSession, then removePeer, then unlock. What the client had sent   *)
(* and nobody read is lost with the socket.                                *)
DisconnectRemove ==
  /\ thread["reactor"].pc = "remove"
  /\ LET i == thread["reactor"].slot
         k == sessions[i]
     IN  /\ sessionFlags' = [sessionFlags EXCEPT ![i] = FALSE]
         /\ peerFlags' = [peerFlags EXCEPT ![i] = FALSE]
         /\ open' = [open EXCEPT ![session[k].tcp] = FALSE, ![peers[i]] = FALSE]
         /\ inbox' = [inbox EXCEPT ![peers[i]] = <<>>]
         /\ session' = [session EXCEPT ![k].lock = "free"]
  /\ thread' = [thread EXCEPT !["reactor"] = Resume(@)]
  /\ UNCHANGED <<accepted, client, peers, sessions, store, bookVars, refused, restarts, clientVars,
                 received>>

(* FixServerReactor::stop: the reactor thread ends at its loop, then every *)
(* session ever connected to a slot is saved, in the order of the table.   *)
Stop ==
  /\ thread["reactor"].pc = "poll"
  /\ thread' = [thread EXCEPT !["reactor"] = [Waiting EXCEPT !.pc = "stopping", !.slot = 1]]
  /\ UNCHANGED <<wireVars, tableVars, session, store, bookVars, refused, restarts, clientVars, received>>

(* A session that was removed long ago is saved too. If its client has     *)
(* been back since, its file gets the numbers of an earlier connection.    *)
StopSave ==
  /\ thread["reactor"].pc = "stopping"
  /\ LET i == thread["reactor"].slot
         s == session[sessions[i]]
     IN  \/ /\ i <= Len(sessions)
            /\ s.tcp # 0
            /\ Save(sessions[i])
            /\ clean' = [c \in Clients |-> clean[c] /\ (s.comp = c => s.out >= store[c].out)]
            /\ thread' = [thread EXCEPT !["reactor"].slot = i + 1]
         \/ /\ i > Len(sessions)
            /\ UNCHANGED <<store, clean>>
            /\ thread' = [thread EXCEPT !["reactor"].pc = "stopped"]
  /\ UNCHANGED <<wireVars, tableVars, session, bookVars, refused, restarts, link, stage, clientOut,
                 received>>
-----------------------------------------------------------------------------
(* The end of the server *)

(* The comp ids whose file updateSequenceStore may just have deleted and   *)
(* not yet written again                                                   *)
BeingSaved ==
  LET r == thread["reactor"]
      saved == IF r.pc = "remove" THEN {r.slot}
               ELSE IF r.pc = "stopping" THEN {r.slot - 1} \ {0}
               ELSE {}
  IN  {session[sessions[i]].comp : i \in saved}

(* The server ends, after stop() or in a crash, and is started again: its  *)
(* memory and its connections are gone, its files remain. A file that was  *)
(* being replaced may be missing.                                          *)
Restart ==
  /\ restarts < MaxRestarts
  /\ \A t \in Threads : thread[t].pc # "failed"
  /\ restarts' = restarts + 1
  /\ \E lost \in {{}} \cup {{c} : c \in BeingSaved} :
       /\ store' = [c \in DOMAIN store |-> IF c \in lost THEN NoFile ELSE store[c]]
       /\ clean' = [c \in Clients |->
                      clean[c] /\ c \notin lost /\ (link[c] # 0 => ~open[link[c]])]
  /\ open' = [k \in Connections |-> FALSE]
  /\ inbox' = [k \in Connections |-> <<>>]
  /\ peers' = <<>> /\ peerFlags' = <<>>
  /\ sessions' = <<>> /\ sessionFlags' = <<>>
  /\ thread' = [t \in Threads |-> Waiting]
  /\ orders' = {} /\ reports' = <<>>
  /\ UNCHANGED <<accepted, client, session, fills, refused, link, stage, clientOut, received>>
-----------------------------------------------------------------------------
(* The outgoing message processor and the matching layer *)

(* Faulty variant: every order remembers the first slot. *)
TakeReportFirstSlot ==
  /\ thread["processor"].pc = "poll"
  /\ reports # <<>>
  /\ reports' = Tail(reports)
  /\ IF sessionFlags[1]
     THEN thread' = [thread EXCEPT !["processor"] =
                       [Waiting EXCEPT !.pc = "lock", !.slot = 1, !.conn = sessions[1],
                                       !.owner = Head(reports).owner]]
     ELSE thread' = thread
  /\ UNCHANGED <<wireVars, tableVars, session, store, orders, fills, refused, restarts, clientVars,
                 received>>

(* tryPop, then getSession of the slot the order remembers *)
TakeReport ==
  /\ thread["processor"].pc = "poll"
  /\ reports # <<>>
  /\ reports' = Tail(reports)
  /\ LET o == Head(reports)
     IN  IF sessionFlags[o.slot]
         THEN thread' = [thread EXCEPT !["processor"] =
                           [Waiting EXCEPT !.pc = "lock", !.slot = o.slot,
                                           !.conn = sessions[o.slot], !.owner = o.owner]]
         ELSE thread' = thread
  /\ UNCHANGED <<wireVars, tableVars, session, store, orders, fills, refused, restarts, clientVars,
                 received>>

(* The matching layer reports on an order again, perhaps for the last time. *)
Fill(o) ==
  /\ o \in orders
  /\ fills < MaxFills
  /\ fills' = fills + 1
  /\ reports' = Append(reports, o)
  /\ orders' \in {orders, orders \ {o}}
  /\ UNCHANGED <<wireVars, tableVars, session, store, thread, refused, restarts, clientVars, received>>
-----------------------------------------------------------------------------
(* The clients: LOGON first and once, LOGOFF last, as the test harness does *)

Legal(c, kind) ==
  IF stage[c] = "connected" THEN kind \in {"LOGON", "WRONG_TARGET"}
  ELSE stage[c] = "active" /\ kind \notin {"LOGON", "WRONG_TARGET"}

StageAfter(kind) ==
  IF kind = "LOGOFF" THEN "leaving" ELSE "active"

ClientSends(c, kind) ==
  /\ Legal(c, kind)
  /\ clientOut[c] <= MaxSent
  /\ Len(inbox[link[c]]) < MaxUnread
  /\ inbox' = [inbox EXCEPT ![link[c]] = Append(@, [kind |-> kind, seq |-> clientOut[c]])]
  /\ clientOut' = [clientOut EXCEPT ![c] = @ + 1]
  /\ stage' = [stage EXCEPT ![c] = StageAfter(kind)]
  /\ clean' = [clean EXCEPT ![c] = @ /\ kind \notin {"MALFORMED", "WRONG_TARGET"}]
  /\ UNCHANGED <<accepted, client, open, tableVars, session, store, thread, bookVars,
                 refused, restarts, link, received>>

(* The client sees that the server has closed the connection, or loses it. *)
ClientLeaves(c) ==
  /\ link[c] # 0
  /\ clean' = [clean EXCEPT ![c] = @ /\ ~open[link[c]] /\ stage[c] = "leaving"]
  /\ link' = [link EXCEPT ![c] = 0]
  /\ stage' = [stage EXCEPT ![c] = "away"]
  /\ UNCHANGED <<wireVars, tableVars, session, store, thread, bookVars, refused, restarts, clientOut,
                 received>>
-----------------------------------------------------------------------------
Sending(t) == Transmit(t) \/ Increment(t) \/ Lock(t) \/ Unlock(t)

ReactorStep ==
  \/ Initialise \/ RejectMalformed \/ HandleLogon \/ RefuseTarget \/ RefuseNumber
  \/ AcceptMessage \/ DisconnectSave \/ DisconnectNothing \/ DisconnectRemove
  \/ StopSave \/ Sending("reactor")

ProcessorStep == TakeReport \/ Sending("processor")

Next ==
  \/ \E c \in Clients : Accept(c)
  \/ \E c \in Clients : AcceptDuringLookup(c)
  \/ \E c \in Clients : ClientLeaves(c)
  \/ \E c \in Clients, kind \in SentKinds : ClientSends(c, kind)
  \/ \E i \in DOMAIN peers : HandleClient(i)
  \/ \E i \in DOMAIN peers : HangUp(i)
  \/ \E o \in orders : Fill(o)
  \/ \E t \in Threads : UseUndefined(t)
  \/ Stop
  \/ Restart
  \/ ReactorStep
  \/ ProcessorStep

Spec ==
  /\ Init
  /\ [][Next]_vars
  /\ WF_vars(ReactorStep)
  /\ WF_vars(ProcessorStep \/ UseUndefined("processor"))
-----------------------------------------------------------------------------
(* Properties *)

Pcs == {"poll", "initialise", "process", "validate", "lock", "send", "increment",
        "unlock", "disconnect", "remove", "stopping", "stopped", "failed"}

(* Every variable holds values of its type; the tables grow together and   *)
(* a thread never points outside of them.                                  *)
TypeOK ==
  /\ accepted \in 0 .. MaxConnections
  /\ client \in [Connections -> Clients \cup {NoClient}]
  /\ open \in [Connections -> BOOLEAN]
  /\ inbox \in [Connections -> Seq(Message)]
  /\ peers \in Seq(Connections)
  /\ peerFlags \in Seq(BOOLEAN)
  /\ sessions \in Seq(Connections)
  /\ sessionFlags \in Seq(BOOLEAN)
  /\ session \in [Connections ->
       [out : Nat, in : Nat, comp : Clients \cup {NoClient}, tcp : 0 .. MaxConnections,
        lock : Threads \cup {"free"}, sendLock : Threads \cup {"free"}]]
  /\ store \in [Clients \cup {NoClient} -> Numbers]
  /\ thread \in [Threads ->
       [pc : Pcs, slot : Nat, conn : 0 .. MaxConnections, batch : Seq(Message),
        owner : Clients \cup {NoClient}, num : Nat, then : Pcs \cup {"next"}]]
  /\ orders \subseteq Origin
  /\ reports \in Seq(Origin)
  /\ fills \in 0 .. MaxFills
  /\ refused \subseteq Connections
  /\ restarts \in 0 .. MaxRestarts
  /\ link \in [Clients -> 0 .. MaxConnections]
  /\ stage \in [Clients -> {"away", "connected", "active", "leaving"}]
  /\ clientOut \in [Clients -> Nat]
  /\ clean \in [Clients -> BOOLEAN]
  /\ received \in [Clients -> [last : Nat, increasing : BOOLEAN, own : BOOLEAN]]

(* The peer table of TCPServer and the session table of FixServerReactor,  *)
(* filled and emptied by different classes, agree on every slot: the       *)
(* session at a peer's index owns that peer's socket once initialised, and *)
(* a connection that is open has exactly one slot.                         *)
SlotsAgree ==
  /\ peers = sessions
  /\ peerFlags = sessionFlags
  /\ \A i \in DOMAIN sessions :
       \/ session[sessions[i]].tcp = peers[i]
       \/ /\ session[sessions[i]].tcp = 0
          /\ thread["reactor"].pc \in {"initialise", "failed"}
  /\ \A k \in 1 .. accepted :
       open[k] => \E i \in DOMAIN peers :
                    /\ peers[i] = k /\ peerFlags[i]
                    /\ \A j \in DOMAIN peers : peers[j] = k => j = i

(* A client that leaves by LOGOFF only receives strictly increasing        *)
(* sequence numbers, over all its connections, from both threads and over  *)
(* restarts of the server that find it logged off and its file in place:   *)
(* the send lock, the session lock taken before the numbers are saved, and *)
(* the restoration at LOGON all have to hold for it. It has to come back   *)
(* into a slot that no order of an earlier connection remembers, and       *)
(* stop() must not have saved an older session of it last.                 *)
NumbersNeverRepeat == \A c \in Clients : clean[c] => received[c].increasing

(* A client that sends consecutive numbers, with all required tags, and    *)
(* leaves by LOGOFF only is never refused by validateSequenceNumber, on    *)
(* whichever slot it comes back.                                           *)
CleanClientsNotRefused == \A k \in refused : ~clean[client[k]]

(* An execution report reaches no client but the one whose order it is on: *)
(* the slot an order remembers still belongs to its client.                *)
ReportsReachTheirClient == \A c \in Clients : received[c].own

(* Neither thread waits for ever on the two locks of a session: the        *)
(* reactor with a business reject, an answer, a LOGOFF or a disconnection  *)
(* and the processor with a report each come back to their loops, until an *)
(* undefined operation ends what the model can say.                        *)
ThreadsReturn ==
  \A t \in Threads :
    thread[t].pc # "poll" ~> thread[t].pc \in {"poll", "stopped", "failed"}
=============================================================================
