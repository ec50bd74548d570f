----------------------------- MODULE CppClient ------------------------------
(***************************************************************************)
(* The C++ client of src/pitaya_cpp/src/client.cpp, from the moment Start  *)
(* has shaken hands (line 61): the threads that call Request and Notify,   *)
(* the send thread, the receive thread, and the thread that owns the       *)
(* client, which started it and may Stop it or destroy it.                 *)
(*                                                                         *)
(* A packet is one item, as in GoClient; a Read may also return no more    *)
(* than a fragment of one.                                                 *)
(*                                                                         *)
(* send_mtx_ is held across two steps only when the send thread has found  *)
(* nothing to do and is about to wait ("park"); everybody else locks and   *)
(* unlocks it within one step.  pending_mtx_ is never held across steps.   *)
(***************************************************************************)
EXTENDS Integers, Sequences, FiniteSets

CONSTANTS
    Requests,        \* the calls of Request: one thread for each of them
    Notifies,        \* the calls of Notify: one thread for each of them
    Oversize,        \* the calls whose message one of the two Encode refuses
    None,            \* no request: an empty slot, a promise not yet set
    IdSpace,         \* number of values of id_seq_: 2^32 in the code
    NetCap,          \* packets TCP buffers in each direction
    MaxReplies,      \* bound: replies a server sends to one request
    MaxUnsolicited,  \* bound: packets a server sends of its own accord
    Kinds,           \* the kinds of those packets
    Fragments        \* may a Read return only part of a packet?

\* "undecodable" is a data packet MessageCodec::Decode refuses.
OtherKinds == {"push", "heartbeat", "kick", "undecodable", "handshake"}

ASSUME ConstantsAssumption ==
    /\ IsFiniteSet(Requests)
    /\ IsFiniteSet(Notifies)
    /\ None # "broken"
    /\ {None, "broken"} \cap Requests = {}
    /\ Requests \cap Notifies = {}
    /\ "sys.heartbeat" \notin Requests \cup Notifies
    /\ Oversize \subseteq Requests \cup Notifies
    /\ IdSpace \in Nat \ {0}
    /\ NetCap \in Nat \ {0}
    /\ MaxReplies \in Nat
    /\ MaxUnsolicited \in Nat
    /\ Kinds \subseteq OtherKinds
    /\ Fragments \in BOOLEAN

VARIABLES
    pc,          \* where each calling thread is
    id_seq,      \* Client::id_seq_
    id,          \* the message id each request was given
    result,      \* what each request's future holds: the request answered
    acked,       \* the notifications whose promise is set, or broken
    send_q,      \* Client::send_q_
    task,        \* the item the send thread has taken
    pending,     \* Client::pending_: message id -> the request waiting for it
    batch,       \* packets that readPackets returned, not yet handled
    thread,      \* where the owner, the receive and the send thread are
    joinable,    \* which of recv_th_ and send_th_ hold a thread
    stop,        \* Client::stop_
    on_message,  \* Client::on_message_
    sock,        \* Client::sock_
    proc,        \* the process: running, aborted by std::terminate, or killed by a
                 \* signal or lost to undefined behaviour
    toServer,    \* packets TCP carries to the server
    toClient,    \* packets TCP carries to the client
    peer,        \* is the server at the other end?
    received,    \* the request messages the server has read
    replies,     \* how often the server has answered each request
    unsolicited  \* how many packets the server has sent of its own accord

callVars   == <<pc, id_seq, id, result, acked>>
sendVars   == <<send_q, task>>
stopVars   == <<joinable, stop, sock, proc>>
serverVars == <<peer, received, replies, unsolicited>>
dataVars   == <<callVars, sendVars, pending, batch>>
netVars    == <<toServer, toClient, serverVars>>
vars       == <<dataVars, thread, stopVars, on_message, netVars>>

-----------------------------------------------------------------------------
(* Messages and packets                                                    *)

Calls == Requests \cup Notifies
Ids   == 0 .. IdSpace - 1

RequestMessage == [type : {"request"}, id : Ids, call : Requests]
NotifyMessage  == [type : {"notify"}, id : {0}, call : Notifies \cup {"sys.heartbeat"}]
Message        == RequestMessage \cup NotifyMessage

RequestMsg(r) == [type |-> "request", id |-> id[r], call |-> r]
NotifyMsg(n)  == [type |-> "notify", id |-> 0, call |-> n]

ResponsePacket == [kind : {"response"}, id : Ids, call : Requests]
OtherPacket    == [kind : OtherKinds, id : {0}, call : {None}]
Packet         == ResponsePacket \cup OtherPacket

ResponsePkt(m) == [kind |-> "response", id |-> m.id, call |-> m.call]
OtherPkt(k)    == [kind |-> k, id |-> 0, call |-> None]

-----------------------------------------------------------------------------
Init ==
    /\ pc = [c \in Calls |-> "idle"]
    /\ id_seq = 0
    /\ id = [r \in Requests |-> 0]
    /\ result = [r \in Requests |-> None]
    /\ acked = {}
    /\ send_q = <<>>
    /\ task = None
    /\ pending = [i \in Ids |-> None]
    /\ batch = <<>>
    /\ thread = [owner |-> "spawnRecv", recv |-> "none", send |-> "none"]
    /\ joinable = [recv |-> FALSE, send |-> FALSE]
    /\ stop = FALSE
    /\ on_message = "unset"
    /\ sock = "open"
    /\ proc = "running"
    /\ toServer = <<>>
    /\ toClient = <<>>
    /\ peer = "up"
    /\ received = {}
    /\ replies = [r \in Requests |-> 0]
    /\ unsolicited = 0

\* When the process is gone nothing happens any more.
Alive == proc = "running"

At(t, place)   == thread[t] = place
Runs(t, place) == Alive /\ At(t, place)
Goto(t, place) == thread' = [thread EXCEPT ![t] = place]

\* Start has not returned yet; the destructor has begun.
Starting   == thread.owner \in {"spawnRecv", "assignRecv", "spawnSend", "assignSend"}
Destroying == thread.owner \in {"members", "destroyed"}

\* The client may be called: it has been started, and its lifetime has not ended.
InUse == ~Starting /\ ~Destroying

Locked == At("send", "park")

\* The item of this call is in send_q_, or in the hands of the send thread.
Queued(c) == \E i \in DOMAIN send_q : send_q[i].call = c
InHand(c) == thread.send \in {"write", "record"} /\ task.call = c

Woken == IF At("send", "waiting") THEN "check" ELSE thread.send

\* The next packet of the batch is one of these kinds.
Dispatches(kinds) ==
    /\ Runs("recv", "dispatch")
    /\ batch # <<>>
    /\ Head(batch).kind \in kinds

-----------------------------------------------------------------------------
(* Slips the code does not make.  Each is an action or a helper of the      *)
(* sections below with one mistake in it; none is part of the specification *)
(* and each makes one of the properties at the end of this module fail.     *)

\* NextMsgID without pending_mtx_: an increment can be lost.
TakeIdUnlocked(r) ==
    /\ Alive
    /\ pc[r] = "idle"
    /\ InUse
    /\ id_seq' \in {id_seq, (id_seq + 1) % IdSpace}
    /\ id' = [id EXCEPT ![r] = (id_seq + 1) % IdSpace]
    /\ pc' = [pc EXCEPT ![r] = "push"]
    /\ UNCHANGED <<result, acked, sendVars, pending, batch, thread, stopVars, on_message,
                   netVars>>

\* send_q_.push without send_mtx_: the wakeup can come before the wait.
PushItemUnlocked(m) == send_q' = Append(send_q, m)

\* The promise is recorded under the last id drawn, not under the message's.
AtCounter(m) == id_seq

\* The promise of a notification is not set.
SetsNone(m) == FALSE

\* SendItem task declared outside the loop: the last item stays in it.
KeepsTask(m) == m

\* Stop does not shut the socket down: a blocked ::read stays blocked.
StopWakeNoShutdown(t) ==
    /\ Runs(t, "wake")
    /\ thread' = [thread EXCEPT !.send = Woken, ![t] = "joinRecv"]
    /\ UNCHANGED <<dataVars, stopVars, on_message, netVars>>

\* Stop detaches send_th_.
StopDetachSend(t) ==
    /\ Runs(t, "joinSend")
    /\ joinable' = [joinable EXCEPT !.send = FALSE]
    /\ Goto(t, "close")
    /\ UNCHANGED <<dataVars, stop, sock, proc, on_message, netVars>>

\* Stop does not set stop_.
StopNoFlag(t) ==
    /\ Runs(t, "stop")
    /\ Goto(t, "wake")
    /\ UNCHANGED <<dataVars, stopVars, on_message, netVars>>

-----------------------------------------------------------------------------
(* The owner: the end of Start, OnMessage, Stop, the destructor            *)

\* std::thread(&Client::RecvThreadFunc, this): the thread runs from here on.
SpawnRecv ==
    /\ Runs("owner", "spawnRecv")
    /\ thread' = [thread EXCEPT !.owner = "assignRecv", !.recv = "loop"]
    /\ UNCHANGED <<dataVars, stopVars, on_message, netVars>>

\* recv_th_ = ...
AssignRecv ==
    /\ Runs("owner", "assignRecv")
    /\ joinable' = [joinable EXCEPT !.recv = TRUE]
    /\ Goto("owner", "spawnSend")
    /\ UNCHANGED <<dataVars, stop, sock, proc, on_message, netVars>>

SpawnSend ==
    /\ Runs("owner", "spawnSend")
    /\ thread' = [thread EXCEPT !.owner = "assignSend", !.send = "loop"]
    /\ UNCHANGED <<dataVars, stopVars, on_message, netVars>>

AssignSend ==
    /\ Runs("owner", "assignSend")
    /\ joinable' = [joinable EXCEPT !.send = TRUE]
    /\ Goto("owner", "running")
    /\ UNCHANGED <<dataVars, stop, sock, proc, on_message, netVars>>

\* OnMessage assigns a std::function, which takes more than one step.
BeginOnMessage ==
    /\ Runs("owner", "running")
    /\ on_message = "unset"
    /\ on_message' = "setting"
    /\ UNCHANGED <<dataVars, thread, stopVars, netVars>>

EndOnMessage ==
    /\ Alive
    /\ on_message = "setting"
    /\ on_message' = "set"
    /\ UNCHANGED <<dataVars, thread, stopVars, netVars>>

OwnerStop ==
    /\ Runs("owner", "running")
    /\ on_message # "setting"
    /\ Goto("owner", "stop")
    /\ UNCHANGED <<dataVars, stopVars, on_message, netVars>>

\* The client goes out of scope, as main.cpp's does when IsStop() is true, or whenever
\* its owner lets it: ~Client runs Close.  The owner is in no other call of the client,
\* and no other thread is in Request; a future of it may outlive the client.
DestroyClose ==
    /\ Alive
    /\ thread.owner \in {"running", "stopped"}
    /\ on_message # "setting"
    /\ \A r \in Requests : pc[r] # "push"
    /\ sock' = "closed"
    /\ Goto("owner", "members")
    /\ UNCHANGED <<dataVars, joinable, stop, proc, on_message, netVars>>

\* Then the members are destroyed, and with pending_ and send_q_ every promise that is
\* still there: get() on its future throws.  A thread that still runs meanwhile uses
\* destroyed members, which is undefined (glibc's destructor of send_cv_ hangs while the
\* send thread waits); if it gets beyond that, the destructor of the first std::thread
\* that is joinable calls std::terminate.
DestroyMembers ==
    /\ Runs("owner", "members")
    /\ pending' = [i \in Ids |-> None]
    /\ send_q' = <<>>
    /\ result' = [r \in Requests |->
                     IF Queued(r) \/ \E i \in Ids : pending[i] = r THEN "broken" ELSE result[r]]
    /\ acked' = acked \cup {n \in Notifies : Queued(n)}
    /\ Goto("owner", "destroyed")
    /\ IF joinable.recv \/ joinable.send
       THEN proc' \in {"aborted", "killed"}
       ELSE UNCHANGED proc
    /\ UNCHANGED <<pc, id_seq, id, task, batch, joinable, stop, sock, on_message, netVars>>

-----------------------------------------------------------------------------
(* Stop, called by the owner or at the end of RecvThreadFunc               *)

StopFlag(t) ==
    /\ Runs(t, "stop")
    /\ stop' = TRUE
    /\ Goto(t, "wake")
    /\ UNCHANGED <<dataVars, joinable, sock, proc, on_message, netVars>>

\* ::shutdown and send_cv_.notify_all, neither of them under send_mtx_: a send
\* thread that is about to wait misses the notification.
StopWake(t) ==
    /\ Runs(t, "wake")
    /\ sock' = IF sock = "open" THEN "shutdown" ELSE sock
    /\ thread' = [thread EXCEPT !.send = Woken, ![t] = "joinRecv"]
    /\ UNCHANGED <<dataVars, joinable, stop, proc, on_message, netVars>>

\* recv_th_.join(): on the receive thread itself it throws, nothing catches the
\* exception, and the process is terminated.
StopJoinRecv(t) ==
    /\ Runs(t, "joinRecv")
    /\ \/ /\ ~joinable.recv
          /\ Goto(t, "joinSend")
          /\ UNCHANGED <<joinable, proc>>
       \/ /\ joinable.recv /\ t = "recv"
          /\ proc' = "aborted"
          /\ UNCHANGED <<thread, joinable>>
       \/ /\ joinable.recv /\ t # "recv" /\ At("recv", "exited")
          /\ joinable' = [joinable EXCEPT !.recv = FALSE]
          /\ Goto(t, "joinSend")
          /\ UNCHANGED proc
    /\ UNCHANGED <<dataVars, stop, sock, on_message, netVars>>

StopJoinSend(t) ==
    /\ Runs(t, "joinSend")
    /\ joinable.send => At("send", "exited")
    /\ joinable' = [joinable EXCEPT !.send = FALSE]
    /\ Goto(t, "close")
    /\ UNCHANGED <<dataVars, stop, sock, proc, on_message, netVars>>

\* Close, and the end of Stop: the receive thread ends, the owner goes on.
StopClose(t) ==
    /\ Runs(t, "close")
    /\ sock' = "closed"
    /\ Goto(t, IF t = "recv" THEN "exited" ELSE "stopped")
    /\ UNCHANGED <<dataVars, joinable, stop, proc, on_message, netVars>>

-----------------------------------------------------------------------------
(* The threads that call Request and Notify, once Start has returned       *)

\* send_q_.push under send_mtx_, and send_cv_.notify_one.
PushItem(m) ==
    /\ ~Locked
    /\ send_q' = Append(send_q, m)

\* Request: NextMsgID, an unsigned 32-bit counter under pending_mtx_.
TakeId(r) ==
    /\ Alive
    /\ pc[r] = "idle"
    /\ InUse
    /\ id_seq' = (id_seq + 1) % IdSpace
    /\ id' = [id EXCEPT ![r] = id_seq']
    /\ pc' = [pc EXCEPT ![r] = "push"]
    /\ UNCHANGED <<result, acked, sendVars, pending, batch, thread, stopVars, on_message,
                   netVars>>

\* Request: the item goes on send_q_ with the promise inside; the future returns.
Push(r) ==
    /\ Alive
    /\ pc[r] = "push"
    /\ PushItem(RequestMsg(r))
    /\ Goto("send", Woken)
    /\ pc' = [pc EXCEPT ![r] = "await"]
    /\ UNCHANGED <<id_seq, id, result, acked, task, pending, batch, stopVars, on_message,
                   netVars>>

\* The caller's get() on the future of Request.
Await(r) ==
    /\ Alive
    /\ pc[r] = "await"
    /\ result[r] # None
    /\ pc' = [pc EXCEPT ![r] = "done"]
    /\ UNCHANGED <<id_seq, id, result, acked, sendVars, pending, batch, thread, stopVars,
                   on_message, netVars>>

\* Notify: the item goes on send_q_, and the caller waits in fut.get().
Notify(n) ==
    /\ Alive
    /\ pc[n] = "idle"
    /\ InUse
    /\ PushItem(NotifyMsg(n))
    /\ Goto("send", Woken)
    /\ pc' = [pc EXCEPT ![n] = "wait"]
    /\ UNCHANGED <<id_seq, id, result, acked, task, pending, batch, stopVars, on_message,
                   netVars>>

NotifyReturn(n) ==
    /\ Alive
    /\ pc[n] = "wait"
    /\ n \in acked
    /\ pc' = [pc EXCEPT ![n] = "done"]
    /\ UNCHANGED <<id_seq, id, result, acked, sendVars, pending, batch, thread, stopVars,
                   on_message, netVars>>

-----------------------------------------------------------------------------
(* SendThreadFunc                                                          *)

\* while (!stop_)
SendLoop ==
    /\ Runs("send", "loop")
    /\ Goto("send", IF stop THEN "exited" ELSE "check")
    /\ UNCHANGED <<dataVars, stopVars, on_message, netVars>>

\* The predicate of send_cv_.wait, under send_mtx_, and what follows when it
\* holds: the thread ends, or takes an item.  When it does not, the thread is
\* about to wait, and holds send_mtx_ until it does.
SendCheck ==
    /\ Runs("send", "check")
    /\ \/ /\ stop
          /\ Goto("send", "exited")
          /\ UNCHANGED sendVars
       \/ /\ ~stop /\ send_q # <<>>
          /\ task' = Head(send_q)
          /\ send_q' = Tail(send_q)
          /\ Goto("send", "write")
       \/ /\ ~stop /\ send_q = <<>>
          /\ Goto("send", "park")
          /\ UNCHANGED sendVars
    /\ UNCHANGED <<callVars, pending, batch, stopVars, on_message, netVars>>

SendPark ==
    /\ Runs("send", "park")
    /\ Goto("send", "waiting")
    /\ UNCHANGED <<dataVars, stopVars, on_message, netVars>>

\* A condition variable may wake up for no reason.
SpuriousWakeup ==
    /\ Runs("send", "waiting")
    /\ Goto("send", "check")
    /\ UNCHANGED <<dataVars, stopVars, on_message, netVars>>

\* MessageCodec::Encode or Codec::Encode throws, and nothing catches it.
SendThrow ==
    /\ Runs("send", "write")
    /\ task.call \in Oversize
    /\ proc' = "aborted"
    /\ UNCHANGED <<dataVars, thread, joinable, stop, sock, on_message, netVars>>

\* ::write blocks while there is no room.  One that had begun when the destructor closed
\* sock_ goes on.
SendWrite ==
    /\ Runs("send", "write")
    /\ task.call \notin Oversize
    /\ sock # "shutdown" /\ peer = "up"
    /\ Len(toServer) < NetCap
    /\ toServer' = Append(toServer, task)
    /\ Goto("send", "record")
    /\ UNCHANGED <<dataVars, stopVars, on_message, toClient, serverVars>>

\* ::write to a peer that is gone: the packet is lost, with or without an error
\* the code does nothing about; or SIGPIPE, which nothing handles, as on a
\* socket shut down at this end.
SendLost ==
    /\ Runs("send", "write")
    /\ task.call \notin Oversize
    /\ sock # "open" \/ peer = "down"
    /\ \/ sock # "shutdown" /\ Goto("send", "record") /\ UNCHANGED proc
       \/ (sock = "shutdown" \/ peer = "down") /\ proc' = "killed" /\ UNCHANGED thread
    /\ UNCHANGED <<dataVars, joinable, stop, sock, on_message, netVars>>

\* After the write.  Where the promise goes, whether it is set at once, and what is
\* left of the item when its scope ends.
KeyOf(m) == m.id
SetsPromise(m) == m.type = "notify"
ScopeEnd(m) == None

\* pending_.emplace for a request, which keeps an entry that is there and drops this
\* promise, and so breaks it; set_value for a notification.
SendRecord ==
    /\ Runs("send", "record")
    /\ acked' = acked \cup {c \in {task.call} : SetsPromise(task)}
    /\ IF task.type = "notify" THEN UNCHANGED <<pending, result>>
       ELSE IF pending[KeyOf(task)] = None
            THEN pending' = [pending EXCEPT ![KeyOf(task)] = task.call] /\ UNCHANGED result
            ELSE result' = [result EXCEPT ![task.call] = "broken"] /\ UNCHANGED pending
    /\ task' = ScopeEnd(task)
    /\ Goto("send", "loop")
    /\ UNCHANGED <<pc, id_seq, id, send_q, batch, stopVars, on_message, netVars>>

-----------------------------------------------------------------------------
(* RecvThreadFunc                                                          *)

\* while (!stop_); what follows the loop is Stop().
RecvLoop ==
    /\ Runs("recv", "loop")
    /\ Goto("recv", IF stop THEN "stop" ELSE "read")
    /\ UNCHANGED <<dataVars, stopVars, on_message, netVars>>

\* readPackets: one ::read and what Codec::Decode finds in it.  Packets that had
\* arrived can still be read after the end of the connection, at either side, and by
\* a ::read that had begun when the destructor closed sock_.
ReadPackets ==
    /\ Runs("recv", "read")
    /\ toClient # <<>>
    /\ \E k \in 1 .. Len(toClient) :
          /\ batch' = SubSeq(toClient, 1, k)
          /\ toClient' = SubSeq(toClient, k + 1, Len(toClient))
    /\ Goto("recv", "dispatch")
    /\ UNCHANGED <<callVars, sendVars, pending, stopVars, on_message, toServer,
                   serverVars>>

\* readPackets returns false: no packet was complete, or ::read failed or met the
\* end of the stream.
ReadFail ==
    /\ Runs("recv", "read")
    /\ \/ Fragments /\ toClient # <<>>
       \/ sock # "open"
       \/ peer = "down"
    /\ Goto("recv", "stop")
    /\ UNCHANGED <<dataVars, stopVars, on_message, netVars>>

BatchDone ==
    /\ Runs("recv", "dispatch")
    /\ batch = <<>>
    /\ Goto("recv", "loop")
    /\ UNCHANGED <<dataVars, stopVars, on_message, netVars>>

\* A response: its id is looked up in pending_, and the promise found there is
\* moved out and set.  With no entry a promise nobody waits for is set.
HandleResponse ==
    /\ Dispatches({"response"})
    /\ LET m == Head(batch)
           r == pending[m.id]
       IN /\ pending' = [pending EXCEPT ![m.id] = None]
          /\ result' = [q \in Requests |-> IF q = r THEN m.call ELSE result[q]]
    /\ batch' = Tail(batch)
    /\ UNCHANGED <<pc, id_seq, id, acked, sendVars, thread, stopVars, on_message,
                   netVars>>

\* A heartbeat: the receive thread calls Notify, and waits in fut.get().
HandleHeartbeat ==
    /\ Dispatches({"heartbeat"})
    /\ PushItem(NotifyMsg("sys.heartbeat"))
    /\ thread' = [thread EXCEPT !.send = Woken, !.recv = "heartbeat"]
    /\ batch' = Tail(batch)
    /\ UNCHANGED <<callVars, task, pending, stopVars, on_message, netVars>>

HeartbeatSent ==
    /\ Runs("recv", "heartbeat")
    /\ "sys.heartbeat" \in acked
    /\ acked' = acked \ {"sys.heartbeat"}
    /\ Goto("recv", "dispatch")
    /\ UNCHANGED <<pc, id_seq, id, result, sendVars, pending, batch, stopVars, on_message,
                   netVars>>

\* Kick: `break` leaves the loop over the batch, whose other packets are dropped,
\* and not the loop that reads.
HandleKick ==
    /\ Dispatches({"kick"})
    /\ batch' = <<>>
    /\ Goto("recv", "loop")
    /\ UNCHANGED <<callVars, sendVars, pending, stopVars, on_message, netVars>>

\* Any other message goes to on_message_, if there is one.  To read on_message_
\* while OnMessage assigns it is undefined: no call, a call, or a crash.
HandlePush ==
    /\ Dispatches({"push"})
    /\ batch' = Tail(batch)
    /\ UNCHANGED proc \/ (on_message = "setting" /\ proc' = "killed")
    /\ UNCHANGED <<callVars, sendVars, pending, thread, joinable, stop, sock, on_message,
                   netVars>>

\* MessageCodec::Decode throws, and nothing catches it.
HandleUndecodable ==
    /\ Dispatches({"undecodable"})
    /\ proc' = "aborted"
    /\ UNCHANGED <<dataVars, thread, joinable, stop, sock, on_message, netVars>>

HandleIgnored ==
    /\ Dispatches({"handshake"})
    /\ batch' = Tail(batch)
    /\ UNCHANGED <<callVars, sendVars, pending, thread, stopVars, on_message, netVars>>

-----------------------------------------------------------------------------
(* The pitaya server and the network: not part of the repository           *)

ServerRead ==
    /\ Alive
    /\ peer = "up"
    /\ toServer # <<>>
    /\ toServer' = Tail(toServer)
    /\ received' = received \cup {m \in {Head(toServer)} : m.type = "request"}
    /\ UNCHANGED <<dataVars, thread, stopVars, on_message, toClient, peer, replies,
                   unsolicited>>

\* Replies come in any order.
ServerReply ==
    /\ Alive
    /\ peer = "up"
    /\ Len(toClient) < NetCap
    /\ \E m \in received :
          /\ replies[m.call] < MaxReplies
          /\ replies' = [replies EXCEPT ![m.call] = @ + 1]
          /\ toClient' = Append(toClient, ResponsePkt(m))
    /\ UNCHANGED <<dataVars, thread, stopVars, on_message, toServer, peer, received,
                   unsolicited>>

ServerSend ==
    /\ Alive
    /\ peer = "up"
    /\ Len(toClient) < NetCap
    /\ unsolicited < MaxUnsolicited
    /\ \E k \in Kinds : toClient' = Append(toClient, OtherPkt(k))
    /\ unsolicited' = unsolicited + 1
    /\ UNCHANGED <<dataVars, thread, stopVars, on_message, toServer, peer, received,
                   replies>>

\* The server closes the connection or crashes.
ServerGone ==
    /\ Alive
    /\ peer = "up"
    /\ peer' = "down"
    /\ UNCHANGED <<dataVars, thread, stopVars, on_message, toServer, toClient, received,
                   replies, unsolicited>>

-----------------------------------------------------------------------------
Caller ==
    \/ \E r \in Requests : TakeId(r) \/ Push(r) \/ Await(r)
    \/ \E n \in Notifies : Notify(n) \/ NotifyReturn(n)

Owner ==
    \/ SpawnRecv \/ AssignRecv \/ SpawnSend \/ AssignSend
    \/ BeginOnMessage \/ EndOnMessage
    \/ OwnerStop \/ DestroyClose \/ DestroyMembers

\* Stop, on thread t.
Stopping(t) ==
    StopFlag(t) \/ StopWake(t) \/ StopJoinRecv(t) \/ StopJoinSend(t) \/ StopClose(t)

SendThread ==
    SendLoop \/ SendCheck \/ SendPark \/ SendThrow \/ SendWrite \/ SendLost \/ SendRecord

RecvThread ==
    \/ RecvLoop \/ ReadPackets \/ ReadFail \/ BatchDone
    \/ HandleResponse \/ HandleHeartbeat \/ HeartbeatSent \/ HandleKick
    \/ HandlePush \/ HandleUndecodable \/ HandleIgnored

Server == ServerRead \/ ServerReply \/ ServerSend \/ ServerGone

Next ==
    \/ Caller
    \/ Owner
    \/ \E t \in {"owner", "recv"} : Stopping(t)
    \/ SendThread \/ SpuriousWakeup
    \/ RecvThread
    \/ Server

Spec == Init /\ [][Next]_vars

\* The operating system runs every thread that can run, and the owner completes
\* Start.  Whether a call is made is up to the application, and so are Stop and
\* the end of the client; nothing waits for a spurious wakeup.  The server is
\* assumed to go on reading its socket; it owes no reply.
Fairness ==
    /\ \A r \in Requests : WF_vars(Push(r)) /\ WF_vars(Await(r))
    /\ \A n \in Notifies : WF_vars(NotifyReturn(n))
    /\ WF_vars(SpawnRecv \/ AssignRecv \/ SpawnSend \/ AssignSend)
    /\ WF_vars(EndOnMessage)
    /\ \A t \in {"owner", "recv"} : WF_vars(Stopping(t))
    /\ WF_vars(SendThread)
    /\ WF_vars(RecvThread)
    /\ WF_vars(ServerRead)

FairSpec == Spec /\ Fairness

-----------------------------------------------------------------------------
(* Properties                                                              *)

Places ==
    [owner : {"spawnRecv", "assignRecv", "spawnSend", "assignSend", "running", "stop",
              "wake", "joinRecv", "joinSend", "close", "stopped", "members", "destroyed"},
     recv  : {"none", "loop", "read", "dispatch", "heartbeat", "stop", "wake",
              "joinRecv", "joinSend", "close", "exited"},
     send  : {"none", "loop", "check", "park", "waiting", "write", "record", "exited"}]

\* Every variable has its type.  send_q_, which has no capacity, holds at most
\* one item of each caller: the receive thread has one heartbeat in it at a time.
Typed ==
    /\ pc \in [Calls -> {"idle", "push", "await", "wait", "done"}]
    /\ id_seq \in Ids
    /\ id \in [Requests -> Ids]
    /\ result \in [Requests -> Requests \cup {None, "broken"}]
    /\ acked \subseteq Notifies \cup {"sys.heartbeat"}
    /\ send_q \in Seq(Message)
    /\ IF thread.send \in {"write", "record"} THEN task \in Message ELSE task = None
    /\ pending \in [Ids -> Requests \cup {None}]
    /\ batch \in Seq(Packet)
    /\ thread \in Places
    /\ joinable \in [recv : BOOLEAN, send : BOOLEAN]
    /\ stop \in BOOLEAN
    /\ on_message \in {"unset", "setting", "set"}
    /\ sock \in {"open", "shutdown", "closed"}
    /\ proc \in {"running", "aborted", "killed"}
    /\ toServer \in Seq(Message) /\ Len(toServer) <= NetCap
    /\ toClient \in Seq(Packet) /\ Len(toClient) <= NetCap
    /\ peer \in {"up", "down"}
    /\ received \subseteq RequestMessage
    /\ replies \in [Requests -> 0 .. MaxReplies]
    /\ unsolicited \in 0 .. MaxUnsolicited

TypeOK == Typed /\ Len(send_q) <= Cardinality(Calls) + 1

\* The client keeps the promise of RpcCalls: the future Request returned gets the
\* reply to that request and to no other, although its promise is recorded only
\* after the request was written and its reply may by then be on its way.
Rpc == INSTANCE RpcCalls WITH
          issued <- {r \in Requests : pc[r] # "idle"},
          served <- {r \in Requests : replies[r] > 0},
          result <- [r \in Requests |-> IF result[r] = "broken" THEN None ELSE result[r]]

ImplementsRpcCalls == Rpc!Spec

\* A request whose future is not set is in send_q_, in the hands of the send
\* thread, or in pending_ under its own id: as long as the client exists its promise is
\* never destroyed.  (A response that came too early leaves it in pending_.)
PromiseKept ==
    \A r \in Requests :
        pc[r] = "await" =>
            /\ result[r] = None => Queued(r) \/ InHand(r) \/ pending[id[r]] = r
            /\ result[r] = "broken" => At("owner", "destroyed")

\* sock_ is closed only when neither thread will use it again, so that neither can write
\* to or read from a file descriptor that now belongs to someone else; or else a
\* destructor has closed it that will not return, since a thread of its client is
\* joinable still, as on the path of main.cpp.
ClosedWhenUnused ==
    sock = "closed" /\ Alive =>
        \/ stop /\ thread.send \in {"none", "loop", "exited"} /\ At("recv", "exited")
        \/ At("owner", "members") /\ (joinable.recv \/ joinable.send)

\* A client whose destruction the process survives leaves no thread behind that would
\* use it, and nobody who waits: every future of Request is set or broken, and so is the
\* promise of every Notify.
NothingLeftBehind ==
    At("owner", "destroyed") /\ Alive =>
        /\ At("recv", "exited") /\ At("send", "exited")
        /\ \A r \in Requests : pc[r] = "await" => result[r] # None
        /\ \A n \in Notifies : pc[n] = "wait" => n \in acked

\* An item that is pushed is taken, unless the send thread ends: its wakeup is
\* never lost, not even when stop_ is set meanwhile, because the push and the
\* send thread's decision to wait both happen under send_mtx_.
PushedIsTaken ==
    \A c \in Calls : Queued(c) ~> (~Queued(c) \/ At("send", "exited") \/ ~Alive)

\* Notify, which waits for the send thread although client.h:65 says that it does
\* not block, returns, unless the send thread has ended or the process does.
NotifyReturns ==
    \A n \in Notifies :
        pc[n] = "wait" ~> (pc[n] = "done" \/ At("send", "exited") \/ ~Alive)

\* Stop, called by the owner, ends one way or another, or else the receive
\* thread waits for a heartbeat to be written by a send thread that has ended.
StopEnds ==
    At("owner", "stop") ~>
        \/ At("owner", "stopped")
        \/ ~Alive
        \/ At("recv", "heartbeat") /\ At("send", "exited")

\* "Response -> 唤醒 promise" (wake the promise): the response to a request that
\* has none yet finds its promise in pending_.
ResponseFindsPromise ==
    \A r \in Requests :
        Dispatches({"response"}) /\ Head(batch).call = r /\ result[r] = None =>
            pending[id[r]] = r

\* A kick is a "disconnect message from server": the client that gets one stops.
KickDisconnects == Dispatches({"kick"}) ~> (stop \/ ~Alive)

\* What main.cpp's loop on IsStop() and its return 0 say: the owner of the client, when
\* the connection has ended, gets to destroy it; nothing terminates the process before.
EndsWithoutTerminate == proc = "aborted" => Destroying

\* "回调注册线程安全" (registering the callback is thread safe): a process whose connection
\* is up does not crash while OnMessage runs.
OnMessageThreadSafe ==
    on_message = "setting" /\ sock = "open" /\ peer = "up" => proc # "killed"

-----------------------------------------------------------------------------
(* The invariants that are inductive, behind TypeOK, ClosedWhenUnused,     *)
(* PromiseKept and ImplementsRpcCalls                                      *)

\* How far the owner, the receive thread and the send thread can be from each
\* other.  A receive thread that passes joinRecv is one that recv_th_ does not
\* hold yet, which is before there is a send thread; stop_ then keeps that one
\* from its first look at send_q_.  A thread that is not joinable has ended, or the
\* owner is about to make it so; and the destructor returns only when none is.
Ordered ==
    LET spawning == thread.owner \in {"spawnRecv", "assignRecv"}
        recvStopping == thread.recv \in {"wake", "joinRecv", "joinSend", "close", "exited"}
        ownerStopping == thread.owner \in {"wake", "joinRecv", "joinSend", "close", "stopped"}
    IN /\ spawning \/ At("owner", "spawnSend") => At("send", "none")
       /\ At("owner", "spawnRecv") => At("recv", "none")
       /\ spawning => ~joinable.recv
       /\ recvStopping \/ ownerStopping => stop
       /\ spawning \/ joinable.recv \/ At("recv", "exited")
       /\ Starting \/ joinable.send \/ At("send", "exited")
       /\ thread.recv \in {"joinSend", "close", "exited"} =>
              thread.send \in {"none", "loop", "exited"}
       /\ thread.owner \in {"joinSend", "close", "stopped"} =>
              At("recv", "exited") /\ ~joinable.recv
       /\ thread.owner \in {"close", "stopped"} => ~joinable.send
       /\ At("owner", "destroyed") /\ Alive => ~joinable.recv /\ ~joinable.send
       /\ sock = "closed" => At("recv", "exited") \/ Destroying

\* An item is in one place at a time, its promise is not set, and the call it was
\* made for still waits; the receive thread makes one heartbeat at a time.
NoDouble == \A i, j \in DOMAIN send_q : send_q[i].call = send_q[j].call => i = j

Unrecorded(c) == Queued(c) \/ InHand(c)

QueuedOnce ==
    /\ NoDouble
    /\ \A c \in Calls \cup {"sys.heartbeat"} : ~ (Queued(c) /\ InHand(c))
    /\ \A r \in Requests :
          /\ Unrecorded(r) => pc[r] = "await"
          /\ pc[r] \in {"idle", "push"} \/ Unrecorded(r) =>
                 result[r] = None /\ \A i \in Ids : pending[i] # r
    /\ \A n \in Notifies :
          /\ Unrecorded(n) => pc[n] = "wait"
          /\ pc[n] = "idle" \/ Unrecorded(n) => n \notin acked
    /\ Unrecorded("sys.heartbeat") => At("recv", "heartbeat") /\ "sys.heartbeat" \notin acked
    /\ "sys.heartbeat" \in acked => At("recv", "heartbeat")

\* The requests that have drawn an id, and those whose item is on its way.
Numbered == {r \in Requests : pc[r] # "idle"}
Sent == {r \in Requests : pc[r] \in {"await", "done"}}

\* Every request message bears the id of its request, and so does every
\* response, wherever it is.
GoodMessages == {m \in Message : m.type = "request" => m.call \in Sent /\ m.id = id[m.call]}
GoodPackets == {p \in Packet :
    p.kind = "response" => p.call \in Sent /\ p.id = id[p.call] /\ replies[p.call] > 0}

WireFaithful ==
    /\ send_q \in Seq(GoodMessages)
    /\ thread.send \in {"write", "record"} => task \in GoodMessages
    /\ toServer \in Seq(GoodMessages)
    /\ received \subseteq GoodMessages
    /\ toClient \in Seq(GoodPackets)
    /\ batch \in Seq(GoodPackets)

\* An entry of pending_ is a request that waits, under its own id.
PendingFaithful ==
    \A i \in Ids :
        pending[i] # None =>
            pc[pending[i]] = "await" /\ id[pending[i]] = i /\ result[pending[i]] = None

\* A future is set to a reply to a request with its id, after the server produced it;
\* and it is broken only if another request has its id, or by the destructor.
ResultsById ==
    \A r \in Requests :
        \/ result[r] = None
        \/ /\ result[r] = "broken"
           /\ At("owner", "destroyed") \/ \E q \in Sent \ {r} : id[q] = id[r]
        \/ \E q \in Sent : result[r] = q /\ id[q] = id[r] /\ replies[q] > 0

\* The promise of a request whose future is neither set nor broken is where PromiseKept
\* has it.
PromiseInPlace ==
    \A r \in Requests :
        pc[r] = "await" /\ result[r] = None => Unrecorded(r) \/ pending[id[r]] = r

\* The invariant that is inductive without any assumption on the number of requests:
\* what is on the wire, in pending_ and in the futures is there by its id.
ById ==
    /\ Ordered /\ TypeOK /\ QueuedOnce
    /\ WireFaithful /\ PendingFaithful /\ ResultsById /\ PromiseInPlace

\* There are more ids than requests.
NoWrap == Cardinality(Requests) < IdSpace

\* id_seq_ counts the requests, and no two of them have the same id.
IdsUnique ==
    /\ id_seq = Cardinality(Numbered)
    /\ \A r \in Numbered : id[r] \in 1 .. id_seq
    /\ \A r, q \in Numbered : id[r] = id[q] => r = q

\* A future is not set, or set to its own reply after the server produced it; or it was
\* broken by the destructor.
RepliesFaithful ==
    \A r \in Requests :
        \/ result[r] = None
        \/ result[r] = r /\ r \in Sent /\ replies[r] > 0
        \/ result[r] = "broken" /\ At("owner", "destroyed")

\* With an id of its own for each request, what is found by its id is what belongs to
\* the request, and no promise is broken while the client exists.
Correlated ==
    /\ ById
    /\ IdsUnique
    /\ RepliesFaithful
    /\ PromiseKept
=============================================================================
