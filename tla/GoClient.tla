------------------------------ MODULE GoClient ------------------------------
(***************************************************************************)
(* The Go client of src/client/client.go, from the moment NewClient has    *)
(* returned: the goroutines that call Request and Notify, readLoop,        *)
(* writeLoop, the send channel between them, the table of pending          *)
(* requests, and the TCP connection with a pitaya server at its far end.   *)
(*                                                                         *)
(* A packet is one item: the connection hands readLoop any non-empty run   *)
(* of the packets that have arrived.  How packets are cut out of bytes is  *)
(* the subject of other modules.                                           *)
(*                                                                         *)
(* The channel stopCh is not a variable: it is made by NewClient, closed   *)
(* by nothing, so every select of the source that also waits for it waits  *)
(* for its other case alone.                                               *)
(***************************************************************************)
EXTENDS Integers, Sequences, FiniteSets

CONSTANTS
    Requests,        \* the calls of Request: one goroutine for each of them
    Notifies,        \* the calls of Notify: one goroutine for each of them
    Oversize,        \* the calls whose encoded message exceeds MaxPacketSize
    None,            \* no request: a nil channel, an empty slot
    IdSpace,         \* number of values of idSeq: 2^32 in the code
    SendCap,         \* capacity of sendCh: 128 in the code
    NetCap,          \* packets TCP buffers in each direction
    Repeated,        \* bound: the requests a server may reply to twice
    MaxUnsolicited   \* bound: packets a server sends of its own accord

ASSUME ConstantsAssumption ==
    /\ IsFiniteSet(Requests)
    /\ None \notin Requests
    /\ Requests \cap Notifies = {}
    /\ (Requests \cup Notifies) \cap {"sys.heartbeat", "mjhaeb.player.message"} = {}
    /\ Oversize \subseteq Requests \cup Notifies
    /\ IdSpace \in Nat \ {0}
    /\ SendCap \in Nat \ {0}
    /\ NetCap \in Nat \ {0}
    /\ Repeated \subseteq Requests
    /\ MaxUnsolicited \in Nat

VARIABLES
    pc,          \* where each calling goroutine is
    idSeq,       \* Client.idSeq
    id,          \* the message id each request was given
    pending,     \* Client.pending: message id -> the request waiting for it
    reply,       \* all that was ever sent to a request's channel (capacity 1)
    sendCh,      \* Client.sendCh
    writer,      \* where writeLoop is
    task,        \* the message writeLoop is writing
    reader,      \* where readLoop is
    batch,       \* packets that readPackets returned, not yet handled
    held,        \* packets read into buf and not decoded yet
    onMsg,       \* has OnMessage been called?
    conn,        \* Client.conn: open, or closed at this end
    toServer,    \* packets TCP carries to the server
    toClient,    \* packets TCP carries to the client
    peer,        \* is the server at the other end?
    received,    \* the request messages the server has read
    replies,     \* how often the server has answered each request
    unsolicited  \* how many packets the server has sent of its own accord

callVars   == <<pc, idSeq, id, pending, reply>>
writeVars  == <<writer, task>>
readVars   == <<reader, batch, held>>
serverVars == <<peer, received, replies, unsolicited>>
vars == <<callVars, sendCh, writeVars, readVars, onMsg, conn, toServer,
          toClient, serverVars>>

-----------------------------------------------------------------------------
(* Messages and packets                                                    *)

Calls == Requests \cup Notifies
Ids   == 0 .. IdSpace - 1

\* The notifications readLoop itself sends: its answer to a heartbeat, and
\* what the callback given to OnMessage sends (main.go's EnterGame).
ReaderNotes == {"sys.heartbeat", "mjhaeb.player.message"}

\* A message.Message on its way out.  ID stays zero in a notification.
RequestMessage == [type : {"request"}, id : Ids, call : Requests]
NotifyMessage  == [type : {"notify"}, id : {0}, call : Notifies \cup ReaderNotes]
Message        == RequestMessage \cup NotifyMessage

RequestMsg(r) == [type |-> "request", id |-> id[r], call |-> r]
NotifyMsg(n)  == [type |-> "notify", id |-> 0, call |-> n]

\* A packet on its way in.  A response carries the id it answers, and as its
\* payload the call the server computed it for, which the client never looks
\* at.  "undecodable" is a data packet message.Decode refuses, for instance a
\* route code: this client never fills the route dictionary.  "garbage" is bytes
\* packet.Decode fails at, such as the payload of a packet whose length the
\* header could not hold.
OtherKinds     ==
    {"push", "heartbeat", "kick", "undecodable", "handshake", "garbage"}
ResponsePacket == [kind : {"response"}, id : Ids, call : Requests]
OtherPacket    == [kind : OtherKinds, id : {0}, call : {None}]
Packet         == ResponsePacket \cup OtherPacket

ResponsePkt(m) == [kind |-> "response", id |-> m.id, call |-> m.call]
OtherPkt(k)    == [kind |-> k, id |-> 0, call |-> None]

HasGarbage(packets) == \E i \in DOMAIN packets : packets[i].kind = "garbage"

-----------------------------------------------------------------------------
Init ==
    /\ pc = [c \in Calls |-> "idle"]
    /\ idSeq = 0
    /\ id = [r \in Requests |-> 0]
    /\ pending = [i \in Ids |-> None]
    /\ reply = [r \in Requests |-> <<>>]
    /\ sendCh = <<>>
    /\ writer = "select"
    /\ task = None
    /\ reader = "read"
    /\ batch = <<>>
    /\ held = <<>>
    /\ onMsg = FALSE
    /\ conn = "open"
    /\ toServer = <<>>
    /\ toClient = <<>>
    /\ peer = "up"
    /\ received = {}
    /\ replies = [r \in Requests |-> 0]
    /\ unsolicited = 0

-----------------------------------------------------------------------------
(* Slips the code does not make.  Each is an action or a helper of the      *)
(* sections below with one mistake in it; none is part of the specification *)
(* and each makes one of the properties at the end of this module fail.     *)

\* idSeq read and written back without atomic.Uint32: an increment can be lost.
TakeIdNotAtomic(r) ==
    /\ pc[r] = "idle"
    /\ idSeq' \in {idSeq, (idSeq + 1) % IdSpace}
    /\ id' = [id EXCEPT ![r] = (idSeq + 1) % IdSpace]
    /\ pc' = [pc EXCEPT ![r] = "register"]
    /\ UNCHANGED <<pending, reply, sendCh, writeVars, readVars, onMsg, conn,
                   toServer, toClient, serverVars>>

\* The pending table is indexed with the counter, not with the id drawn from it.
RegisterAtCounter(r) ==
    /\ pc[r] = "register"
    /\ pending' = [pending EXCEPT ![idSeq] = r]
    /\ pc' = [pc EXCEPT ![r] = "enqueue"]
    /\ UNCHANGED <<idSeq, id, reply, sendCh, writeVars, readVars, onMsg, conn,
                   toServer, toClient, serverVars>>

\* The send to sendCh does not wait for room.
EnqueueNotifyUnbounded(n) ==
    /\ pc[n] = "enqueue"
    /\ sendCh' = Append(sendCh, NotifyMsg(n))
    /\ pc' = [pc EXCEPT ![n] = "done"]
    /\ UNCHANGED <<idSeq, id, pending, reply, writeVars, readVars, onMsg, conn,
                   toServer, toClient, serverVars>>

\* writeLoop leaves the last message in sendCh.
WriterTakeAllButOne ==
    /\ writer = "select"
    /\ Len(sendCh) > 1
    /\ sendCh' = Tail(sendCh)
    /\ IF Head(sendCh).call \in Oversize
       THEN writer' = "exited" /\ UNCHANGED task
       ELSE writer' = "write" /\ task' = Head(sendCh)
    /\ UNCHANGED <<callVars, readVars, onMsg, conn, toServer, toClient, serverVars>>

\* writeLoop takes the last message of sendCh first.
WriterTakeLast ==
    /\ writer = "select"
    /\ sendCh # <<>>
    /\ sendCh' = SubSeq(sendCh, 1, Len(sendCh) - 1)
    /\ writer' = "write"
    /\ task' = sendCh[Len(sendCh)]
    /\ UNCHANGED <<callVars, readVars, onMsg, conn, toServer, toClient, serverVars>>

\* writeLoop goes on after a failed write.
WriterFailContinue ==
    /\ writer = "write"
    /\ conn = "closed" \/ peer = "down"
    /\ writer' = "select"
    /\ task' = None
    /\ UNCHANGED <<callVars, sendCh, readVars, onMsg, conn, toServer, toClient,
                   serverVars>>

\* writeLoop gives up when the socket has no room, as on a non-blocking conn.
WriterFailWhenFull ==
    /\ writer = "write"
    /\ conn = "closed" \/ peer = "down" \/ Len(toServer) = NetCap
    /\ writer' = "exited"
    /\ task' = None
    /\ UNCHANGED <<callVars, sendCh, readVars, onMsg, conn, toServer, toClient,
                   serverVars>>

\* readPackets returns the first packet only and drops the rest of buf.
ReadPacketsFirstOnly ==
    /\ reader = "read"
    /\ conn = "open"
    /\ toClient # <<>>
    /\ \E k \in 1 .. Len(toClient) :
          LET got == held \o SubSeq(toClient, 1, k) IN
          /\ toClient' = SubSeq(toClient, k + 1, Len(toClient))
          /\ \/ /\ ~HasGarbage(got)
                /\ batch' = <<Head(got)>> /\ held' = <<>> /\ reader' = "dispatch"
             \/ held' = got /\ UNCHANGED <<batch, reader>>
    /\ UNCHANGED <<callVars, sendCh, writeVars, onMsg, conn, toServer, serverVars>>

\* readLoop without its deferred Close.
ReaderReturnsLeavingConnOpen ==
    /\ reader' = "exited"
    /\ batch' = <<>>
    /\ held' = <<>>
    /\ UNCHANGED conn

\* The next packet of the batch is one of these kinds.
Dispatches(kinds) ==
    /\ reader = "dispatch"
    /\ batch # <<>>
    /\ Head(batch).kind \in kinds

\* A response leaves its entry in the pending table.
HandleResponseKeepEntry ==
    /\ Dispatches({"response"})
    /\ LET m == Head(batch)
           r == pending[m.id]
       IN IF r = None
          THEN UNCHANGED reply
          ELSE /\ reply[r] = <<>> \/ pc[r] = "done"
               /\ reply' = [reply EXCEPT ![r] = Append(@, m.call)]
    /\ batch' = Tail(batch)
    /\ UNCHANGED <<pc, idSeq, id, pending, sendCh, writeVars, reader, held, onMsg,
                   conn, toServer, toClient, serverVars>>

-----------------------------------------------------------------------------
(* The calling goroutines                                                  *)

\* RequestBytes: id := c.idSeq.Add(1), an unsigned 32-bit counter.
TakeId(r) ==
    /\ pc[r] = "idle"
    /\ idSeq' = (idSeq + 1) % IdSpace
    /\ id' = [id EXCEPT ![r] = idSeq']
    /\ pc' = [pc EXCEPT ![r] = "register"]
    /\ UNCHANGED <<pending, reply, sendCh, writeVars, readVars, onMsg, conn,
                   toServer, toClient, serverVars>>

\* RequestBytes: c.pending[id] = ch under pendMu.
Register(r) ==
    /\ pc[r] = "register"
    /\ pending' = [pending EXCEPT ![id[r]] = r]
    /\ pc' = [pc EXCEPT ![r] = "enqueue"]
    /\ UNCHANGED <<idSeq, id, reply, sendCh, writeVars, readVars, onMsg, conn,
                   toServer, toClient, serverVars>>

\* RequestBytes: the select that puts the message on sendCh, and the return
\* of the channel the caller will wait on.
EnqueueRequest(r) ==
    /\ pc[r] = "enqueue"
    /\ Len(sendCh) < SendCap
    /\ sendCh' = Append(sendCh, RequestMsg(r))
    /\ pc' = [pc EXCEPT ![r] = "await"]
    /\ UNCHANGED <<idSeq, id, pending, reply, writeVars, readVars, onMsg, conn,
                   toServer, toClient, serverVars>>

\* The caller's <-resCh.
Await(r) ==
    /\ pc[r] = "await"
    /\ reply[r] # <<>>
    /\ pc' = [pc EXCEPT ![r] = "done"]
    /\ UNCHANGED <<idSeq, id, pending, reply, sendCh, writeVars, readVars, onMsg,
                   conn, toServer, toClient, serverVars>>

\* A goroutine calls Notify.
StartNotify(n) ==
    /\ pc[n] = "idle"
    /\ pc' = [pc EXCEPT ![n] = "enqueue"]
    /\ UNCHANGED <<idSeq, id, pending, reply, sendCh, writeVars, readVars, onMsg,
                   conn, toServer, toClient, serverVars>>

\* NotifyBytes: the select that puts the message on sendCh.
EnqueueNotify(n) ==
    /\ pc[n] = "enqueue"
    /\ Len(sendCh) < SendCap
    /\ sendCh' = Append(sendCh, NotifyMsg(n))
    /\ pc' = [pc EXCEPT ![n] = "done"]
    /\ UNCHANGED <<idSeq, id, pending, reply, writeVars, readVars, onMsg, conn,
                   toServer, toClient, serverVars>>

\* OnMessage: called by main after NewClient has started readLoop.
OnMessage ==
    /\ ~onMsg
    /\ onMsg' = TRUE
    /\ UNCHANGED <<callVars, sendCh, writeVars, readVars, conn, toServer,
                   toClient, serverVars>>

\* Close, called by the application: it closes conn and nothing else.
Close ==
    /\ conn = "open"
    /\ conn' = "closed"
    /\ UNCHANGED <<callVars, sendCh, writeVars, readVars, onMsg, toServer,
                   toClient, serverVars>>

-----------------------------------------------------------------------------
(* writeLoop                                                               *)

\* A message leaves sendCh and is encoded.  packet.Encode refuses one that is
\* larger than MaxPacketSize: writeLoop returns, and conn stays as it is.
WriterTake ==
    /\ writer = "select"
    /\ sendCh # <<>>
    /\ sendCh' = Tail(sendCh)
    /\ IF Head(sendCh).call \in Oversize
       THEN writer' = "exited" /\ UNCHANGED task
       ELSE writer' = "write" /\ task' = Head(sendCh)
    /\ UNCHANGED <<callVars, readVars, onMsg, conn, toServer, toClient, serverVars>>

\* conn.Write copies the packet into the socket, once there is room for it.
WriterWrite ==
    /\ writer = "write"
    /\ conn = "open"
    /\ Len(toServer) < NetCap
    /\ toServer' = Append(toServer, task)
    /\ writer' = "select"
    /\ task' = None
    /\ UNCHANGED <<callVars, sendCh, readVars, onMsg, conn, toClient, serverVars>>

\* conn.Write fails: this end is closed, or the peer has reset the connection.
WriterFail ==
    /\ writer = "write"
    /\ conn = "closed" \/ peer = "down"
    /\ writer' = "exited"
    /\ task' = None
    /\ UNCHANGED <<callVars, sendCh, readVars, onMsg, conn, toServer, toClient,
                   serverVars>>

-----------------------------------------------------------------------------
(* readLoop                                                                *)

\* readPackets: Read until it returns fewer than 1024 bytes, then decode all
\* that buf holds.  What was read stays in buf, undecoded, until the next Read
\* returns, when the Read filled its 1024 bytes, and when packet.Decode fails:
\* the error is logged, and readLoop goes on with the same buf.
ReadPackets ==
    /\ reader = "read"
    /\ conn = "open"
    /\ toClient # <<>>
    /\ \E k \in 1 .. Len(toClient) :
          LET got == held \o SubSeq(toClient, 1, k) IN
          /\ toClient' = SubSeq(toClient, k + 1, Len(toClient))
          /\ \/ /\ ~HasGarbage(got)
                /\ batch' = got /\ held' = <<>> /\ reader' = "dispatch"
             \/ held' = got /\ UNCHANGED <<batch, reader>>
    /\ UNCHANGED <<callVars, sendCh, writeVars, onMsg, conn, toServer, serverVars>>

\* readLoop returns, and its deferred Close closes conn.  What it had read and
\* not handled is gone; the pending requests are not told.
ReaderReturns ==
    /\ reader' = "exited"
    /\ batch' = <<>>
    /\ held' = <<>>
    /\ conn' = "closed"

\* readPackets fails: a Read on a conn closed at either end.  A peer that is
\* gone may have reset the connection, or closed it after a full Read: then
\* packets that had arrived are lost too.
ReadFail ==
    /\ reader = "read"
    /\ conn = "closed" \/ peer = "down"
    /\ ReaderReturns
    /\ UNCHANGED <<callVars, sendCh, writeVars, onMsg, toServer, toClient, serverVars>>

\* The end of the loop over a batch.
BatchDone ==
    /\ reader = "dispatch"
    /\ batch = <<>>
    /\ reader' = "read"
    /\ UNCHANGED <<callVars, sendCh, writeVars, batch, held, onMsg, conn, toServer,
                   toClient, serverVars>>

\* A response: look its id up in pending, delete the entry, send the message
\* to the channel that was there, if any.  The channel has room for one.
HandleResponse ==
    /\ Dispatches({"response"})
    /\ LET m == Head(batch)
           r == pending[m.id]
       IN /\ pending' = [pending EXCEPT ![m.id] = None]
          /\ IF r = None
             THEN UNCHANGED reply
             ELSE /\ reply[r] = <<>> \/ pc[r] = "done"
                  /\ reply' = [reply EXCEPT ![r] = Append(@, m.call)]
    /\ batch' = Tail(batch)
    /\ UNCHANGED <<pc, idSeq, id, sendCh, writeVars, reader, held, onMsg, conn,
                   toServer, toClient, serverVars>>

\* A heartbeat, or a push whose callback sends a notification: readLoop is
\* inside NotifyBytes, on its way to sendCh.
HandleHeartbeat ==
    /\ Dispatches({"heartbeat"})
    /\ reader' = "sys.heartbeat"
    /\ batch' = Tail(batch)
    /\ UNCHANGED <<callVars, sendCh, writeVars, held, onMsg, conn, toServer,
                   toClient, serverVars>>

\* Any other message goes to the callback, if there is one by now; the callback
\* of main.go sends a notification for some messages.
HandlePush ==
    /\ Dispatches({"push"})
    /\ reader' = "dispatch" \/ (onMsg /\ reader' = "mjhaeb.player.message")
    /\ batch' = Tail(batch)
    /\ UNCHANGED <<callVars, sendCh, writeVars, held, onMsg, conn, toServer,
                   toClient, serverVars>>

\* NotifyBytes, called by readLoop: it waits for room as any other caller does.
ReaderNotify ==
    /\ reader \in ReaderNotes
    /\ Len(sendCh) < SendCap
    /\ sendCh' = Append(sendCh, NotifyMsg(reader))
    /\ reader' = "dispatch"
    /\ UNCHANGED <<callVars, writeVars, batch, held, onMsg, conn, toServer,
                   toClient, serverVars>>

\* Kick, and a message for which message.Decode returns an error: readLoop
\* returns.  (A message at which it panics ends the process, and all of this.)
HandleFatal ==
    /\ Dispatches({"kick", "undecodable"})
    /\ ReaderReturns
    /\ UNCHANGED <<callVars, sendCh, writeVars, onMsg, toServer, toClient, serverVars>>

\* The switch has no case for the other packet types.
HandleIgnored ==
    /\ Dispatches({"handshake"})
    /\ batch' = Tail(batch)
    /\ UNCHANGED <<callVars, sendCh, writeVars, reader, held, onMsg, conn, toServer,
                   toClient, serverVars>>

-----------------------------------------------------------------------------
(* The pitaya server and the network: not part of the repository           *)

ServerRead ==
    /\ peer = "up"
    /\ toServer # <<>>
    /\ toServer' = Tail(toServer)
    /\ received' = received \cup {m \in {Head(toServer)} : m.type = "request"}
    /\ UNCHANGED <<callVars, sendCh, writeVars, readVars, onMsg, conn, toClient,
                   peer, replies, unsolicited>>

MaxReplies(r) == IF r \in Repeated THEN 2 ELSE 1

\* Replies come in any order.
ServerReply ==
    /\ peer = "up"
    /\ Len(toClient) < NetCap
    /\ \E m \in received :
          /\ replies[m.call] < MaxReplies(m.call)
          /\ replies' = [replies EXCEPT ![m.call] = @ + 1]
          /\ toClient' = Append(toClient, ResponsePkt(m))
    /\ UNCHANGED <<callVars, sendCh, writeVars, readVars, onMsg, conn, toServer,
                   peer, received, unsolicited>>

ServerSend ==
    /\ peer = "up"
    /\ Len(toClient) < NetCap
    /\ unsolicited < MaxUnsolicited
    /\ \E k \in OtherKinds : toClient' = Append(toClient, OtherPkt(k))
    /\ unsolicited' = unsolicited + 1
    /\ UNCHANGED <<callVars, sendCh, writeVars, readVars, onMsg, conn, toServer,
                   peer, received, replies>>

\* The server closes the connection or crashes.
ServerGone ==
    /\ peer = "up"
    /\ peer' = "down"
    /\ UNCHANGED <<callVars, sendCh, writeVars, readVars, onMsg, conn, toServer,
                   toClient, received, replies, unsolicited>>

-----------------------------------------------------------------------------
Caller ==
    \/ \E r \in Requests : TakeId(r) \/ Register(r) \/ EnqueueRequest(r) \/ Await(r)
    \/ \E n \in Notifies : StartNotify(n) \/ EnqueueNotify(n)
    \/ OnMessage
    \/ Close

WriteLoop == WriterTake \/ WriterWrite \/ WriterFail

ReadLoop ==
    \/ ReadPackets \/ ReadFail \/ BatchDone
    \/ HandleResponse \/ HandleHeartbeat \/ HandlePush \/ ReaderNotify
    \/ HandleFatal \/ HandleIgnored

Server == ServerRead \/ ServerReply \/ ServerSend \/ ServerGone

Next == Caller \/ WriteLoop \/ ReadLoop \/ Server

Spec == Init /\ [][Next]_vars

\* The Go scheduler runs every goroutine that can run; a goroutine that has
\* called Request or Notify does not stop half way.  Whether a call is made is
\* up to the application, and so is Close.  The server is assumed to go on
\* reading its socket; it owes no reply.
Fairness ==
    /\ \A r \in Requests : WF_vars(Register(r) \/ EnqueueRequest(r) \/ Await(r))
    /\ \A n \in Notifies : WF_vars(EnqueueNotify(n))
    /\ WF_vars(WriteLoop)
    /\ WF_vars(ReadLoop)
    /\ WF_vars(ServerRead)

FairSpec == Spec /\ Fairness

-----------------------------------------------------------------------------
(* Properties                                                              *)

CallStates == {"idle", "register", "enqueue", "await", "done"}

\* Every variable has its type; in particular what is queued, in flight or
\* being written is a message or a packet, and no buffer exceeds its capacity.
TypeOK ==
    /\ pc \in [Calls -> CallStates]
    /\ idSeq \in Ids
    /\ id \in [Requests -> Ids]
    /\ pending \in [Ids -> Requests \cup {None}]
    /\ reply \in [Requests -> Seq(Requests)]
    /\ sendCh \in Seq(Message) /\ Len(sendCh) <= SendCap
    /\ writer \in {"select", "write", "exited"}
    /\ IF writer = "write" THEN task \in Message ELSE task = None
    /\ reader \in {"read", "dispatch", "exited"} \cup ReaderNotes
    /\ batch \in Seq(Packet)
    /\ held \in Seq(Packet)
    /\ onMsg \in BOOLEAN
    /\ conn \in {"open", "closed"}
    /\ toServer \in Seq(Message) /\ Len(toServer) <= NetCap
    /\ toClient \in Seq(Packet) /\ Len(toClient) <= NetCap
    /\ peer \in {"up", "down"}
    /\ received \subseteq RequestMessage
    /\ replies \in [Requests -> 0 .. 2]
    /\ unsolicited \in 0 .. MaxUnsolicited

\* The client keeps the promise of RpcCalls: whatever way the goroutines, the
\* server's replies and the connection's end interleave, the channel Request
\* returned gets the reply to that request and not to another one, after the
\* server produced it.
Rpc == INSTANCE RpcCalls WITH
          issued <- {r \in Requests : pc[r] # "idle"},
          served <- {r \in Requests : replies[r] > 0},
          result <- [r \in Requests |-> IF reply[r] = <<>> THEN None ELSE reply[r][1]]

ImplementsRpcCalls == Rpc!Spec

\* readLoop sends a request's channel, whose capacity is one, at most one
\* message, even when the server answers twice: a caller of Request that never
\* receives (login and register of main.go) cannot make readLoop block.
RepliedOnce == \A r \in Requests : Len(reply[r]) <= 1

\* From before its message can reach the server and until its reply is there,
\* a request is in the pending table under its own id: no reply, however fast,
\* finds the table without it, and no other request evicts it.
PendingUntilReplied ==
    \A r \in Requests :
        pc[r] \in {"enqueue", "await"} /\ reply[r] = <<>> => pending[id[r]] = r

\* While writeLoop runs, a request it was given is not lost: it is queued, being
\* written, on the wire, or read by the server.  writeLoop does not go on after
\* a message it failed to write, so the server never sees a gap.
NothingLostWhileWriting ==
    \A r \in Requests :
        pc[r] \in {"await", "done"} /\ writer # "exited" =>
            \/ \E i \in DOMAIN sendCh : sendCh[i] = RequestMsg(r)
            \/ \E i \in DOMAIN toServer : toServer[i] = RequestMsg(r)
            \/ writer = "write" /\ task = RequestMsg(r)
            \/ RequestMsg(r) \in received

\* The one way to a client that looks connected and can send nothing any more,
\* heartbeats included: writeLoop met a message larger than MaxPacketSize.
MuteOnlyByOversize ==
    writer = "exited" /\ conn = "open" /\ peer = "up" =>
        \E c \in Oversize : pc[c] \in {"await", "done"}

InFlight(r) ==
    \E i \in DOMAIN toClient : toClient[i].kind = "response" /\ toClient[i].call = r

\* A reply to r has been read, and lies in buf undecoded.
HeldBack(r) ==
    \E i \in DOMAIN held : held[i].kind = "response" /\ held[i].call = r

\* It will stay there for ever unless something happens that no code brings about:
\* packet.Decode fails at what is in buf, now and after every further Read, or
\* the Read came back full and the server sends nothing more.
Stranded(r) == HeldBack(r) /\ (HasGarbage(held) \/ toClient = <<>>)

\* A reply the server has sent reaches the channel of its request, unless the
\* connection is closed first, or writeLoop has returned and left readLoop to
\* block on a full sendCh, or it ends up in buf and is never decoded.
ReplyDelivered ==
    \A r \in Requests :
        InFlight(r) ~> (reply[r] # <<>> \/ conn = "closed" \/ writer = "exited"
                           \/ []Stranded(r))

\* readLoop, which must not stay in NotifyBytes because it alone empties the
\* connection, gets out of it for as long as writeLoop runs.
ReaderUnblocks ==
    reader \in ReaderNotes ~> (reader \notin ReaderNotes \/ writer = "exited")

\* When the server goes away conn is closed at this end too, or else writeLoop
\* has returned, sendCh is full and readLoop is blocked on it for ever: the
\* loop that would notice the end of the connection is not reading.
ClosedOrJammed ==
    peer = "down" ~>
        \/ conn = "closed"
        \/ writer = "exited" /\ Len(sendCh) = SendCap /\ reader \in ReaderNotes

\* What NotifyBytes and RequestBytes say with "client stopped": a call made on a
\* client whose connection is closed returns.  No code closes stopCh.
CallsReturnOnceClosed ==
    \A c \in Calls : (pc[c] = "enqueue" /\ conn = "closed") ~> pc[c] # "enqueue"

-----------------------------------------------------------------------------
(* The inductive invariants behind ImplementsRpcCalls, RepliedOnce and     *)
(* PendingUntilReplied: what holds however many requests are made, and what *)
(* holds as long as idSeq has not come round.                              *)

\* The requests that have drawn an id, those that have been registered under it, and
\* those whose message is on its way.
Numbered   == {r \in Requests : pc[r] # "idle"}
Registered == {r \in Requests : pc[r] \in {"enqueue", "await", "done"}}
Sent       == {r \in Requests : pc[r] \in {"await", "done"}}

\* Every request message bears the id of its request, and so does every
\* response, wherever it is.
GoodMessages  == {m \in Message : m.type = "request" => m.call \in Sent /\ m.id = id[m.call]}
GoodResponses == {p \in ResponsePacket :
                     p.call \in Sent /\ p.id = id[p.call] /\ replies[p.call] > 0}
GoodPackets   == GoodResponses \cup OtherPacket

WireFaithful ==
    /\ sendCh \in Seq(GoodMessages)
    /\ writer = "write" => task \in GoodMessages
    /\ toServer \in Seq(GoodMessages)
    /\ received \subseteq GoodMessages
    /\ toClient \in Seq(GoodPackets)
    /\ held \in Seq(GoodPackets)
    /\ batch \in Seq(GoodPackets)

\* An entry of the pending table is a registered request without a reply,
\* under its own id.
PendingFaithful ==
    \A i \in Ids :
        pending[i] # None =>
            /\ pending[i] \in Registered
            /\ id[pending[i]] = i
            /\ reply[pending[i]] = <<>>

\* A request has no reply, or one, to a request with its id, after the server
\* produced it.
RepliesById ==
    \A r \in Requests :
        reply[r] # <<>> =>
            /\ r \in Registered
            /\ \E q \in Sent : reply[r] = <<q>> /\ id[q] = id[r] /\ replies[q] > 0

\* A registered request without a reply is in the pending table, unless another one
\* has been registered under the same id.
PendingOrDisplaced ==
    \A r \in Registered :
        reply[r] = <<>> =>
            pending[id[r]] = r \/ \E q \in Registered \ {r} : id[q] = id[r]

\* The invariant that is inductive without any assumption on the number of requests:
\* what is on the wire, in the pending table and in the channels is there by its id.
ById ==
    /\ TypeOK
    /\ WireFaithful
    /\ PendingFaithful
    /\ RepliesById
    /\ PendingOrDisplaced

\* There are more ids than requests.
NoWrap == Cardinality(Requests) < IdSpace

\* idSeq counts the requests, and no two of them have the same id.
IdsUnique ==
    /\ idSeq = Cardinality(Numbered)
    /\ \A r \in Numbered : id[r] \in 1 .. idSeq
    /\ \A r, q \in Numbered : id[r] = id[q] => r = q

\* A request has no reply, or its own, after the server produced it.
RepliesFaithful ==
    \A r \in Requests :
        \/ reply[r] = <<>>
        \/ reply[r] = <<r>> /\ r \in Sent /\ replies[r] > 0

\* With an id of its own for each request, what is found by its id is what belongs to
\* the request; hence a reply looked up by its id lands on its own request.
Correlated ==
    /\ ById
    /\ IdsUnique
    /\ RepliesFaithful
    /\ PendingUntilReplied
=============================================================================
