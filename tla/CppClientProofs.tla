-------------------------- MODULE CppClientProofs ---------------------------
(***************************************************************************)
(* Proofs about CppClient, for every set of calls, every capacity and      *)
(* every bound: its type invariant; how far the owner and the two threads  *)
(* can be from each other, and with it when the socket is closed; what is  *)
(* found by its id, however often an id is used (ById); that a client that *)
(* is destroyed leaves no thread and no waiting caller behind; and, as     *)
(* long as fewer requests are made than there are message ids, that no     *)
(* promise is lost while the client exists, and that it implements         *)
(* RpcCalls.                                                               *)
(***************************************************************************)
EXTENDS CppClient, DataLemmas

-----------------------------------------------------------------------------
(* Start and Stop                                                          *)

\* The part of the state that Start and Stop work on.
Threads ==
    /\ thread \in Places
    /\ joinable \in [recv : BOOLEAN, send : BOOLEAN]
    /\ Ordered

LEMMA InitThreads == Init => Threads
BY DEF Init, Threads, Places, Ordered, At, Starting, Destroying

\* A step that moves the send thread around its loop, or wakes it up, without
\* starting it, lets nobody pass who did not pass before.
LEMMA SendMoves ==
    ASSUME Threads, Alive,
           NEW s \in {"loop", "check", "park", "waiting", "write", "record", "exited"},
           thread.send \notin {"none", "exited"},
           At("send", "loop") /\ stop => s \in {"loop", "exited"},
           thread' = [thread EXCEPT !.send = s],
           UNCHANGED <<joinable, stop, sock>>
    PROVE  Threads'
BY DEF Threads, Places, Ordered, At, Starting, Destroying

\* The same of the receive thread, while it is in its loop.
LEMMA RecvMoves ==
    ASSUME Threads, Alive, NEW s \in {"loop", "read", "dispatch", "heartbeat", "stop"},
           thread.recv \in {"loop", "read", "dispatch", "heartbeat"},
           thread' = [thread EXCEPT !.recv = s],
           UNCHANGED <<joinable, stop, sock>>
    PROVE  Threads'
BY DEF Threads, Places, Ordered, At, Starting, Destroying

LEMMA WokenIs ==
    ASSUME Threads
    PROVE  \/ Woken = thread.send
           \/ At("send", "waiting") /\ Woken = "check"
BY DEF Woken, At

\* A notification that reaches the send thread, which may be nowhere yet.
LEMMA WakeMoves ==
    ASSUME Threads, Alive, thread' = [thread EXCEPT !.send = Woken],
           UNCHANGED <<joinable, stop, sock>>
    PROVE  Threads'
<1>1. CASE Woken = thread.send
  BY <1>1 DEF Threads, Places, Ordered, At, Starting, Destroying
<1>2. CASE At("send", "waiting") /\ Woken = "check"
  BY <1>2, SendMoves DEF At
<1>3. QED
  BY <1>1, <1>2, WokenIs

LEMMA OwnerThreads ==
    ASSUME Threads, Owner
    PROVE  Threads'
<1> USE DEF Threads, Places, Ordered, At, Runs, Goto, Alive, Starting, Destroying, stopVars
<1>1. CASE SpawnRecv
  BY <1>1 DEF SpawnRecv
<1>2. CASE AssignRecv
  BY <1>2 DEF AssignRecv
<1>3. CASE SpawnSend
  BY <1>3 DEF SpawnSend
<1>4. CASE AssignSend
  BY <1>4 DEF AssignSend
<1>5. CASE BeginOnMessage \/ EndOnMessage
  BY <1>5 DEF BeginOnMessage, EndOnMessage
<1>6. CASE OwnerStop
  BY <1>6 DEF OwnerStop
<1>7. CASE DestroyClose
  BY <1>7 DEF DestroyClose
<1>8. CASE DestroyMembers
  BY <1>8 DEF DestroyMembers
<1>9. QED
  BY <1>1, <1>2, <1>3, <1>4, <1>5, <1>6, <1>7, <1>8 DEF Owner

LEMMA StoppingThreads ==
    ASSUME Threads, NEW t \in {"owner", "recv"}, Stopping(t)
    PROVE  Threads'
<1> USE DEF Threads, Places, Ordered, At, Runs, Goto, Alive, Starting, Destroying, stopVars
<1>1. CASE StopFlag(t)
  BY <1>1 DEF StopFlag
<1>2. CASE StopWake(t)
  <2>1. thread' = [thread EXCEPT !.send = Woken, ![t] = "joinRecv"] /\ At(t, "wake")
        /\ UNCHANGED <<joinable, stop, proc>>
    BY <1>2 DEF StopWake
  <2>2. sock' = IF sock = "open" THEN "shutdown" ELSE sock
    BY <1>2 DEF StopWake
  <2>3. CASE Woken = thread.send
    BY <2>1, <2>2, <2>3
  <2>4. CASE At("send", "waiting") /\ Woken = "check"
    BY <2>1, <2>2, <2>4
  <2>5. QED
    BY <2>3, <2>4, WokenIs
<1>3. CASE StopJoinRecv(t)
  <2>1. CASE UNCHANGED thread
    BY <1>3, <2>1 DEF StopJoinRecv
  <2>2. CASE thread' = [thread EXCEPT ![t] = "joinSend"]
    BY <1>3, <2>2 DEF StopJoinRecv
  <2>3. QED
    BY <1>3, <2>1, <2>2 DEF StopJoinRecv
<1>4. CASE StopJoinSend(t)
  BY <1>4 DEF StopJoinSend
<1>5. CASE StopClose(t)
  BY <1>5 DEF StopClose
<1>6. QED
  BY <1>1, <1>2, <1>3, <1>4, <1>5 DEF Stopping

LEMMA StepThreads == Threads /\ [Next]_vars => Threads'
<1> SUFFICES ASSUME Threads, [Next]_vars PROVE Threads'
  OBVIOUS
<1> USE DEF stopVars
<1>1. CASE Caller
  <2>1. /\ Alive /\ UNCHANGED stopVars
        /\ UNCHANGED thread \/ thread' = [thread EXCEPT !.send = Woken]
    BY <1>1 DEF Caller, TakeId, Push, Await, Notify, NotifyReturn, Goto
  <2>2. CASE UNCHANGED thread
    BY <2>1, <2>2 DEF Threads, Ordered, At, Alive, Starting, Destroying
  <2>3. QED
    BY <2>1, <2>2, WakeMoves
<1>2. CASE Owner
  BY <1>2, OwnerThreads
<1>3. CASE \E t \in {"owner", "recv"} : Stopping(t)
  BY <1>3, StoppingThreads
<1>4. CASE SendThread \/ SpuriousWakeup
  <2> USE DEF Runs, At, Goto
  <2>1. CASE SendThrow
    BY <2>1 DEF SendThrow, Threads, Ordered, Alive, Starting, Destroying
  <2>2. CASE SendLost
    <3>1. CASE UNCHANGED thread
      BY <2>2, <3>1 DEF SendLost, Threads, Ordered, Alive, Starting, Destroying
    <3>2. CASE thread' = [thread EXCEPT !.send = "record"]
      BY <2>2, <3>2, SendMoves DEF SendLost
    <3>3. QED
      BY <2>2, <3>1, <3>2 DEF SendLost
  <2>3. CASE SendLoop
    BY <2>3, SendMoves DEF SendLoop
  <2>4. CASE SendCheck
    BY <2>4, SendMoves DEF SendCheck
  <2>5. CASE SendPark \/ SpuriousWakeup
    BY <2>5, SendMoves DEF SendPark, SpuriousWakeup
  <2>6. CASE SendWrite
    BY <2>6, SendMoves DEF SendWrite
  <2>7. CASE SendRecord
    BY <2>7, SendMoves DEF SendRecord
  <2>8. QED
    BY <1>4, <2>1, <2>2, <2>3, <2>4, <2>5, <2>6, <2>7 DEF SendThread
<1>5. CASE RecvThread
  <2> USE DEF Dispatches, Runs, At, Goto
  <2>1. CASE RecvLoop \/ ReadPackets \/ ReadFail \/ BatchDone
    BY <1>5, <2>1, RecvMoves DEF RecvLoop, ReadPackets, ReadFail, BatchDone
  <2>2. CASE HandleResponse \/ HandlePush \/ HandleUndecodable \/ HandleIgnored
    BY <2>2 DEF HandleResponse, HandlePush, HandleUndecodable, HandleIgnored, Threads, Ordered,
                Alive, Starting, Destroying
  <2>3. CASE HandleHeartbeat
    BY <2>3, WokenIs DEF HandleHeartbeat, Threads, Places, Ordered, Alive, Starting, Destroying
  <2>4. CASE HeartbeatSent \/ HandleKick
    BY <2>4, RecvMoves DEF HeartbeatSent, HandleKick
  <2>5. QED
    BY <1>5, <2>1, <2>2, <2>3, <2>4 DEF RecvThread
<1>6. CASE Server \/ UNCHANGED vars
  BY <1>6 DEF Server, ServerRead, ServerReply, ServerSend, ServerGone, vars, Threads,
              Ordered, At, Alive, Starting, Destroying
<1>7. QED
  BY <1>1, <1>2, <1>3, <1>4, <1>5, <1>6 DEF Next

\* How far the owner, the receive thread and the send thread can be from each other, in
\* every interleaving of Start, Stop on either thread, and the destructor.
THEOREM ThreadsOrdered == Spec => []Ordered
<1>1. Threads => Ordered
  BY DEF Threads
<1>2. QED
  BY <1>1, InitThreads, StepThreads, PTL DEF Spec

\* Whichever thread Stop runs on, and however far Start has got, Stop closes the socket
\* only when neither thread will read from it or write to it again; and a destructor that
\* closes it sooner meets a thread that is joinable still, and does not return.
THEOREM ClosedWhenUnusedAlways == Spec => []ClosedWhenUnused
<1>1. Ordered => ClosedWhenUnused
  BY DEF Ordered, ClosedWhenUnused, At, Destroying
<1>2. QED
  BY <1>1, ThreadsOrdered, PTL

-----------------------------------------------------------------------------
(* The type of every variable                                              *)

\* A step of Start, of Stop, or from one place of a loop to the next: it touches
\* neither the calls, nor the queues, nor the network; the send thread keeps the
\* item it has, and the receive thread neither begins nor ends a heartbeat.
Quiet ==
    /\ UNCHANGED <<dataVars, netVars>>
    /\ thread' \in Places
    /\ joinable' \in [recv : BOOLEAN, send : BOOLEAN]
    /\ stop' \in BOOLEAN
    /\ on_message' \in {"unset", "setting", "set"}
    /\ sock' \in {"open", "shutdown", "closed"}
    /\ proc' \in {"running", "aborted", "killed"}
    /\ thread.send \in {"write", "record"} <=> thread'.send \in {"write", "record"}
    /\ thread.recv = "heartbeat" <=> thread'.recv = "heartbeat"
    /\ At("owner", "destroyed") <=> At("owner", "destroyed")'
    /\ Destroying' => Destroying \/ \A r \in Requests : pc[r] # "push"

QuietAction ==
    \/ Owner /\ ~DestroyMembers
    \/ \E t \in {"owner", "recv"} : Stopping(t)
    \/ SendLoop \/ SendPark \/ SendThrow \/ SendLost \/ SpuriousWakeup
    \/ RecvLoop \/ ReadFail \/ BatchDone \/ HandleUndecodable

LEMMA QuietStep ==
    ASSUME Typed, Threads, QuietAction \/ UNCHANGED vars
    PROVE  Quiet
<1> USE DEF Typed, Quiet, Places, Runs, At, Goto, Destroying, stopVars
<1>1. CASE Owner /\ ~DestroyMembers
  <2>1. CASE SpawnRecv
    <3>1. At("recv", "none")
      BY <2>1 DEF SpawnRecv, Threads, Ordered
    <3>2. thread' \in Places /\ thread'.send = thread.send /\ thread'.recv = "loop"
      BY <2>1 DEF SpawnRecv
    <3>3. QED
      BY <2>1, <3>1, <3>2 DEF SpawnRecv
  <2>2. CASE AssignRecv
    BY <2>2 DEF AssignRecv
  <2>3. CASE SpawnSend
    <3>1. At("send", "none")
      BY <2>3 DEF SpawnSend, Threads, Ordered
    <3>2. thread' \in Places /\ thread'.send = "loop" /\ thread'.recv = thread.recv
      BY <2>3 DEF SpawnSend
    <3>3. QED
      BY <2>3, <3>1, <3>2 DEF SpawnSend
  <2>4. CASE AssignSend
    BY <2>4 DEF AssignSend
  <2>5. CASE BeginOnMessage \/ EndOnMessage
    BY <2>5 DEF BeginOnMessage, EndOnMessage
  <2>6. CASE OwnerStop
    BY <2>6 DEF OwnerStop
  <2>7. CASE DestroyClose
    BY <2>7 DEF DestroyClose
  <2>8. QED
    BY <1>1, <2>1, <2>2, <2>3, <2>4, <2>5, <2>6, <2>7 DEF Owner
<1>2. CASE \E t \in {"owner", "recv"} : Stopping(t)
  <2> PICK t \in {"owner", "recv"} : Stopping(t)
    BY <1>2
  <2>1. CASE StopFlag(t)
    BY <2>1 DEF StopFlag
  <2>2. CASE StopWake(t)
    <3>1. thread' = [thread EXCEPT !.send = Woken, ![t] = "joinRecv"] /\ At(t, "wake")
      BY <2>2 DEF StopWake
    <3>2. Woken \in {"none", "loop", "check", "park", "waiting", "write", "record", "exited"}
          /\ (Woken \in {"write", "record"} <=> thread.send \in {"write", "record"})
      BY DEF Woken
    <3>3. /\ thread' \in Places /\ thread'.send = Woken
          /\ thread'.recv = IF t = "recv" THEN "joinRecv" ELSE thread.recv
          /\ Destroying' <=> Destroying
          /\ thread.owner = "destroyed" <=> thread'.owner = "destroyed"
      BY <3>1, <3>2
    <3>4. QED
      BY <2>2, <3>1, <3>2, <3>3 DEF StopWake
  <2>3. CASE StopJoinRecv(t)
    <3>1. proc' \in {"running", "aborted", "killed"}
          /\ joinable' \in [recv : BOOLEAN, send : BOOLEAN]
      BY <2>3 DEF StopJoinRecv
    <3>2. thread[t] = "joinRecv" /\ (thread' = thread \/ thread' = [thread EXCEPT ![t] = "joinSend"])
      BY <2>3 DEF StopJoinRecv
    <3>3. thread' \in Places /\ thread'.send = thread.send
          /\ (thread.recv = "heartbeat" <=> thread'.recv = "heartbeat")
      BY <3>2
    <3>4. QED
      BY <2>3, <3>1, <3>3 DEF StopJoinRecv
  <2>4. CASE StopJoinSend(t)
    <3>1. thread[t] = "joinSend" /\ thread' = [thread EXCEPT ![t] = "close"]
      BY <2>4 DEF StopJoinSend
    <3>2. thread' \in Places /\ thread'.send = thread.send
          /\ (thread.recv = "heartbeat" <=> thread'.recv = "heartbeat")
      BY <3>1
    <3>3. joinable' \in [recv : BOOLEAN, send : BOOLEAN]
      BY <2>4 DEF StopJoinSend
    <3>4. QED
      BY <2>4, <3>2, <3>3 DEF StopJoinSend
  <2>5. CASE StopClose(t)
    BY <2>5, ZenonT(30) DEF StopClose
  <2>6. QED
    BY <2>1, <2>2, <2>3, <2>4, <2>5 DEF Stopping
<1>3. CASE SendLoop \/ SendPark \/ SendThrow \/ SendLost \/ SpuriousWakeup
  BY <1>3 DEF SendLoop, SendPark, SendThrow, SendLost, SpuriousWakeup
<1>4. CASE RecvLoop \/ ReadFail \/ BatchDone \/ HandleUndecodable
  BY <1>4 DEF RecvLoop, ReadFail, BatchDone, HandleUndecodable, Dispatches
<1>5. CASE UNCHANGED vars
  BY <1>5 DEF vars
<1>6. QED
  BY <1>1, <1>2, <1>3, <1>4, <1>5 DEF QuietAction

\* What a thread puts on send_q_ is a message.
LEMMA MessagesOut ==
    ASSUME Typed
    PROVE  /\ \A r \in Requests : RequestMsg(r) \in Message
           /\ \A n \in Notifies \cup {"sys.heartbeat"} : NotifyMsg(n) \in Message
<1>1. 0 \in Ids /\ \A r \in Requests : id[r] \in Ids
  BY ConstantsAssumption DEF Ids, Typed
<1>2. QED
  BY <1>1 DEF RequestMsg, NotifyMsg, Message, RequestMessage, NotifyMessage

LEMMA InitTyped == Init => Typed
<1> SUFFICES ASSUME Init PROVE Typed
  OBVIOUS
<1>1. \A S : <<>> \in Seq(S) /\ Len(<<>>) = 0
  BY EmptySeq
<1>2. 0 \in Ids
  BY ConstantsAssumption DEF Ids
<1>3. thread \in Places /\ task = None /\ thread.send = "none"
  BY DEF Init, Places
<1>4. replies \in [Requests -> 0 .. MaxReplies] /\ unsolicited \in 0 .. MaxUnsolicited
  BY ConstantsAssumption DEF Init
<1>5. Len(toServer) <= NetCap /\ Len(toClient) <= NetCap
  BY <1>1, ConstantsAssumption DEF Init
<1>6. QED
  BY <1>1, <1>2, <1>3, <1>4, <1>5 DEF Init, Typed

LEMMA WokenPlace ==
    ASSUME thread \in Places, NEW s \in {"heartbeat"}
    PROVE  /\ [thread EXCEPT !.send = Woken] \in Places
           /\ [thread EXCEPT !.send = Woken, !.recv = s] \in Places
           /\ Woken \in {"write", "record"} <=> thread.send \in {"write", "record"}
BY DEF Places, Woken, At

\* The send thread moves on in its loop; the receive thread moves on in its loop
\* and the send thread stays where it is.
LEMMA SendPlace ==
    ASSUME thread \in Places, NEW s \in {"loop", "write", "record", "park", "exited"}
    PROVE  /\ [thread EXCEPT !["send"] = s] \in Places
           /\ [thread EXCEPT !["send"] = s].send = s
BY DEF Places

LEMMA RecvPlace ==
    ASSUME thread \in Places, NEW s \in {"loop", "dispatch"}
    PROVE  /\ [thread EXCEPT !["recv"] = s] \in Places
           /\ [thread EXCEPT !["recv"] = s].send = thread.send
BY DEF Places

LEMMA CallerTyped ==
    ASSUME Typed, Caller
    PROVE  Typed'
<1> USE DEF Typed, sendVars, stopVars, netVars, serverVars, Goto
<1>1. ASSUME NEW r \in Requests, TakeId(r) PROVE Typed'
  <2>1. id_seq' \in Ids
    BY <1>1, ConstantsAssumption DEF TakeId, Ids
  <2>2. QED
    BY <1>1, <2>1 DEF TakeId, Calls
<1>2. ASSUME NEW r \in Requests, Push(r) PROVE Typed'
  <2>1. send_q' \in Seq(Message)
    BY <1>2, MessagesOut, QueueAppend DEF Push, PushItem
  <2>2. thread' \in Places /\ (thread'.send \in {"write", "record"} <=> thread.send \in {"write", "record"})
    BY <1>2, WokenPlace DEF Push, Places
  <2>3. QED
    BY <1>2, <2>1, <2>2, ZenonT(30) DEF Push, Calls
<1>3. ASSUME NEW r \in Requests, Await(r) PROVE Typed'
  BY <1>3 DEF Await, Calls
<1>4. ASSUME NEW n \in Notifies, Notify(n) PROVE Typed'
  <2>1. send_q' \in Seq(Message)
    BY <1>4, MessagesOut, QueueAppend DEF Notify, PushItem
  <2>2. thread' \in Places /\ (thread'.send \in {"write", "record"} <=> thread.send \in {"write", "record"})
    BY <1>4, WokenPlace DEF Notify, Places
  <2>3. QED
    BY <1>4, <2>1, <2>2, ZenonT(30) DEF Notify, Calls
<1>5. ASSUME NEW n \in Notifies, NotifyReturn(n) PROVE Typed'
  BY <1>5 DEF NotifyReturn, Calls
<1>6. QED
  BY <1>1, <1>2, <1>3, <1>4, <1>5 DEF Caller

LEMMA SendTyped ==
    ASSUME Typed, SendCheck \/ SendWrite \/ SendRecord
    PROVE  Typed'
<1> USE DEF Typed, callVars, sendVars, stopVars, dataVars, netVars, serverVars
<1>1. CASE SendCheck
  <2>1. CASE UNCHANGED sendVars /\ Goto("send", "exited")
    <3>1. thread' \in Places /\ thread'.send = "exited"
      BY <2>1, SendPlace DEF Goto
    <3>2. thread.send = "check"
      BY <1>1 DEF SendCheck, Runs, At
    <3>3. QED
      BY <1>1, <2>1, <3>1, <3>2 DEF SendCheck
  <2>2. CASE UNCHANGED sendVars /\ Goto("send", "park")
    <3>1. thread' \in Places /\ thread'.send = "park"
      BY <2>2, SendPlace DEF Goto
    <3>2. thread.send = "check"
      BY <1>1 DEF SendCheck, Runs, At
    <3>3. QED
      BY <1>1, <2>2, <3>1, <3>2 DEF SendCheck
  <2>3. CASE send_q # <<>> /\ task' = Head(send_q) /\ send_q' = Tail(send_q)
             /\ Goto("send", "write")
    <3>1. task' \in Message /\ send_q' \in Seq(Message)
      BY <2>3, QueueTail
    <3>2. thread' \in Places /\ thread'.send = "write"
      BY <2>3, SendPlace DEF Goto
    <3>3. QED
      BY <1>1, <3>1, <3>2 DEF SendCheck
  <2>4. QED
    BY <1>1, <2>1, <2>2, <2>3 DEF SendCheck
<1>2. CASE SendWrite
  <2>1. toServer' \in Seq(Message) /\ Len(toServer') <= NetCap
    BY <1>2, QueueAppend, LenProperties, ConstantsAssumption DEF SendWrite, Runs, At
  <2>2. thread' \in Places /\ thread'.send = "record" /\ thread.send = "write"
    BY <1>2, SendPlace DEF SendWrite, Runs, At, Goto
  <2>3. QED
    BY <1>2, <2>1, <2>2 DEF SendWrite
<1>3. CASE SendRecord
  <2>1. task \in Message
    BY <1>3 DEF SendRecord, Runs, At
  <2>2. thread' \in Places /\ thread'.send = "loop" /\ task' = None
    BY <1>3, SendPlace DEF SendRecord, Goto, ScopeEnd
  <2>3. CASE task.type = "notify"
    <3>1. task.call \in Notifies \cup {"sys.heartbeat"}
      BY <2>1, <2>3 DEF Message, RequestMessage, NotifyMessage
    <3>2. acked' \subseteq Notifies \cup {"sys.heartbeat"} /\ UNCHANGED <<pending, result>>
      BY <1>3, <2>3, <3>1 DEF SendRecord
    <3>3. QED
      BY <1>3, <2>2, <3>2 DEF SendRecord
  <2>4. CASE task.type # "notify"
    <3>1. task.call \in Requests /\ task.id \in Ids
      BY <2>1, <2>4 DEF Message, RequestMessage, NotifyMessage
    <3>2. acked' = acked
      BY <1>3, <2>4 DEF SendRecord, SetsPromise
    <3>3. pending' \in [Ids -> Requests \cup {None}]
          /\ result' \in [Requests -> Requests \cup {None, "broken"}]
      BY <1>3, <2>4, <3>1 DEF SendRecord, KeyOf
    <3>4. QED
      BY <1>3, <2>2, <3>2, <3>3 DEF SendRecord
  <2>5. QED
    BY <2>3, <2>4
<1>4. QED
  BY <1>1, <1>2, <1>3

LEMMA RecvTyped ==
    ASSUME Typed,
           \/ ReadPackets \/ HandleResponse \/ HandleHeartbeat \/ HeartbeatSent
           \/ HandleKick \/ HandlePush \/ HandleIgnored
    PROVE  Typed'
<1> USE DEF Typed, callVars, sendVars, stopVars, dataVars, netVars, serverVars
<1>1. CASE ReadPackets
  <2>1. PICK k \in 1 .. Len(toClient) :
           /\ batch' = SubSeq(toClient, 1, k)
           /\ toClient' = SubSeq(toClient, k + 1, Len(toClient))
    BY <1>1 DEF ReadPackets
  <2>2. batch' \in Seq(Packet) /\ toClient' \in Seq(Packet) /\ Len(toClient') <= NetCap
    BY <2>1, QueueCut, LenProperties, ConstantsAssumption
  <2>3. thread' \in Places /\ thread'.send = thread.send
    BY <1>1, RecvPlace DEF ReadPackets, Goto
  <2>4. QED
    BY <1>1, <2>2, <2>3 DEF ReadPackets
<1>2. CASE HandleResponse
  <2> DEFINE m == Head(batch)
  <2>1. batch # <<>> /\ m.kind = "response"
    BY <1>2 DEF HandleResponse, Dispatches
  <2>2. m \in Packet /\ Tail(batch) \in Seq(Packet)
    BY <2>1, QueueTail
  <2>3. m.id \in Ids /\ m.call \in Requests
    BY <2>1, <2>2 DEF Packet, ResponsePacket, OtherPacket, OtherKinds
  <2>4. pending' = [pending EXCEPT ![m.id] = None]
        /\ result' = [q \in Requests |-> IF q = pending[m.id] THEN m.call ELSE result[q]]
        /\ batch' = Tail(batch)
    BY <1>2 DEF HandleResponse
  <2>5. /\ pending' \in [Ids -> Requests \cup {None}]
        /\ result' \in [Requests -> Requests \cup {None, "broken"}]
    BY <2>3, <2>4
  <2>6. QED
    BY <1>2, <2>2, <2>4, <2>5 DEF HandleResponse
<1>3. CASE HandleHeartbeat
  <2>1. send_q' \in Seq(Message)
    BY <1>3, MessagesOut, QueueAppend DEF HandleHeartbeat, PushItem
  <2>2. batch' \in Seq(Packet)
    BY <1>3, QueueTail DEF HandleHeartbeat, Dispatches
  <2>3. thread' \in Places /\ (thread'.send \in {"write", "record"} <=> thread.send \in {"write", "record"})
    BY <1>3, WokenPlace DEF HandleHeartbeat, Places
  <2>4. QED
    BY <1>3, <2>1, <2>2, <2>3 DEF HandleHeartbeat
<1>4. CASE HeartbeatSent
  <2>1. thread' \in Places /\ thread'.send = thread.send
    BY <1>4, RecvPlace DEF HeartbeatSent, Goto
  <2>2. acked' \subseteq Notifies \cup {"sys.heartbeat"}
    BY <1>4 DEF HeartbeatSent
  <2>3. QED
    BY <1>4, <2>1, <2>2 DEF HeartbeatSent
<1>5. CASE HandleKick
  <2>1. thread' \in Places /\ thread'.send = thread.send
    BY <1>5, RecvPlace DEF HandleKick, Goto
  <2>2. batch' \in Seq(Packet)
    BY <1>5, EmptySeq DEF HandleKick
  <2>3. QED
    BY <1>5, <2>1, <2>2 DEF HandleKick
<1>6. CASE HandlePush
  <2>1. batch' \in Seq(Packet)
    BY <1>6, QueueTail DEF HandlePush, Dispatches
  <2>2. proc' \in {"running", "aborted", "killed"}
    BY <1>6 DEF HandlePush
  <2>3. QED
    BY <1>6, <2>1, <2>2 DEF HandlePush
<1>7. CASE HandleIgnored
  <2>1. batch' \in Seq(Packet)
    BY <1>7, QueueTail DEF HandleIgnored, Dispatches
  <2>2. QED
    BY <1>7, <2>1 DEF HandleIgnored
<1>8. QED
  BY <1>1, <1>2, <1>3, <1>4, <1>5, <1>6, <1>7

LEMMA ServerTyped ==
    ASSUME Typed, Server
    PROVE  Typed'
<1> USE DEF Typed, callVars, sendVars, stopVars, dataVars
<1>1. CASE ServerRead
  <2>1. /\ Head(toServer) \in Message
        /\ toServer' \in Seq(Message)
        /\ Len(toServer') <= NetCap
    BY <1>1, QueueTail, LenProperties, ConstantsAssumption DEF ServerRead
  <2>2. received' \subseteq RequestMessage
    BY <1>1, <2>1 DEF ServerRead, Message, NotifyMessage
  <2>3. QED
    BY <1>1, <2>1, <2>2 DEF ServerRead
<1>2. CASE ServerReply
  <2>1. PICK m \in received :
           /\ replies[m.call] < MaxReplies
           /\ replies' = [replies EXCEPT ![m.call] = @ + 1]
           /\ toClient' = Append(toClient, ResponsePkt(m))
    BY <1>2 DEF ServerReply
  <2>2. m.call \in Requests /\ ResponsePkt(m) \in Packet
    BY <2>1 DEF RequestMessage, ResponsePkt, Packet, ResponsePacket
  <2>3. toClient' \in Seq(Packet) /\ Len(toClient') <= NetCap
    BY <1>2, <2>1, <2>2, QueueAppend, LenProperties, ConstantsAssumption DEF ServerReply
  <2>4. replies' \in [Requests -> 0 .. MaxReplies]
    BY <2>1, <2>2, ConstantsAssumption
  <2>5. QED
    BY <1>2, <2>3, <2>4 DEF ServerReply
<1>3. CASE ServerSend
  <2>1. PICK k \in Kinds : toClient' = Append(toClient, OtherPkt(k))
    BY <1>3 DEF ServerSend
  <2>2. OtherPkt(k) \in Packet
    BY ConstantsAssumption DEF OtherPkt, Packet, OtherPacket
  <2>3. toClient' \in Seq(Packet) /\ Len(toClient') <= NetCap
    BY <1>3, <2>1, <2>2, QueueAppend, LenProperties, ConstantsAssumption DEF ServerSend
  <2>4. unsolicited' \in 0 .. MaxUnsolicited
    BY <1>3, ConstantsAssumption DEF ServerSend
  <2>5. QED
    BY <1>3, <2>3, <2>4 DEF ServerSend
<1>4. CASE ServerGone
  BY <1>4 DEF ServerGone
<1>5. QED
  BY <1>1, <1>2, <1>3, <1>4 DEF Server

\* ~Client destroys the members.
LEMMA DestroyTyped ==
    ASSUME Typed, DestroyMembers
    PROVE  Typed'
<1> USE DEF Typed, DestroyMembers
<1>1. pending' \in [Ids -> Requests \cup {None}] /\ send_q' \in Seq(Message)
  BY EmptySeq
<1>2. result' \in [Requests -> Requests \cup {None, "broken"}]
      /\ acked' \subseteq Notifies \cup {"sys.heartbeat"}
  OBVIOUS
<1>3. thread' \in Places /\ thread'.send = thread.send
  BY DEF Goto, Places
<1>4. proc' \in {"running", "aborted", "killed"}
  OBVIOUS
<1>5. QED
  BY <1>1, <1>2, <1>3, <1>4 DEF netVars, serverVars

\* Every step is one of these six.
LEMMA StepIs ==
    [Next]_vars =>
        \/ QuietAction \/ UNCHANGED vars
        \/ Caller
        \/ DestroyMembers
        \/ SendCheck \/ SendWrite \/ SendRecord
        \/ ReadPackets \/ HandleResponse \/ HandleHeartbeat \/ HeartbeatSent
        \/ HandleKick \/ HandlePush \/ HandleIgnored
        \/ Server
BY DEF Next, QuietAction, SendThread, RecvThread

LEMMA StepTyped == Typed /\ Threads /\ [Next]_vars => Typed'
<1> SUFFICES ASSUME Typed, Threads, [Next]_vars PROVE Typed'
  OBVIOUS
<1>1. CASE QuietAction \/ UNCHANGED vars
  BY <1>1, QuietStep
     DEF Quiet, Typed, dataVars, callVars, sendVars, netVars, serverVars
<1>2. QED
  BY <1>1, StepIs, CallerTyped, DestroyTyped, SendTyped, RecvTyped, ServerTyped

-----------------------------------------------------------------------------
(* The queue of the send thread                                            *)

\* Pushing an item for a call that has none leaves no call with two.
LEMMA QueuePush ==
    ASSUME Typed, NoDouble, NEW m \in Message, ~Queued(m.call), send_q' = Append(send_q, m)
    PROVE  NoDouble' /\ \A c : Queued(c)' <=> (Queued(c) \/ c = m.call)
<1>1. send_q \in Seq(Message)
  BY DEF Typed
<1>2. /\ DOMAIN send_q = 1 .. Len(send_q) /\ Len(send_q) \in Nat
      /\ DOMAIN send_q' = 1 .. Len(send_q) + 1
      /\ send_q'[Len(send_q) + 1] = m
      /\ \A i \in 1 .. Len(send_q) : send_q'[i] = send_q[i]
  BY <1>1, AppendProperties, LenProperties
<1>3. NoDouble'
  BY <1>2 DEF NoDouble, Queued
<1>4. \A c : Queued(c)' <=> (Queued(c) \/ c = m.call)
  BY <1>2 DEF Queued
<1>5. QED
  BY <1>3, <1>4

\* Taking the first item leaves none for its call.
LEMMA QueuePop ==
    ASSUME Typed, NoDouble, send_q # <<>>, send_q' = Tail(send_q)
    PROVE  /\ NoDouble' /\ Queued(Head(send_q).call)
           /\ \A c : Queued(c)' <=> (Queued(c) /\ c # Head(send_q).call)
<1>1. send_q \in Seq(Message)
  BY DEF Typed
<1>2. /\ DOMAIN send_q = 1 .. Len(send_q) /\ Len(send_q) \in Nat /\ Len(send_q) >= 1
      /\ DOMAIN send_q' = 1 .. Len(send_q) - 1
      /\ Head(send_q) = send_q[1]
      /\ \A i \in 1 .. Len(send_q) - 1 : send_q'[i] = send_q[i + 1]
  BY <1>1, HeadTailProperties, LenProperties, EmptySeq
<1>3. NoDouble'
  <2> SUFFICES ASSUME NEW i \in DOMAIN send_q', NEW j \in DOMAIN send_q',
                      send_q'[i].call = send_q'[j].call
               PROVE  i = j
    BY DEF NoDouble
  <2>1. i + 1 \in DOMAIN send_q /\ j + 1 \in DOMAIN send_q
    BY <1>2
  <2>2. send_q[i + 1].call = send_q[j + 1].call
    BY <1>2
  <2>3. i + 1 = j + 1
    BY <2>1, <2>2 DEF NoDouble
  <2>4. QED
    BY <1>2, <2>3
<1>4. Queued(Head(send_q).call)
  BY <1>2 DEF Queued
<1>5. ASSUME NEW c PROVE Queued(c)' <=> (Queued(c) /\ c # Head(send_q).call)
  <2>1. ASSUME Queued(c)' PROVE Queued(c) /\ c # Head(send_q).call
    <3>1. PICK i \in 1 .. Len(send_q) - 1 : send_q[i + 1].call = c
      BY <1>2, <2>1 DEF Queued
    <3>2. i + 1 \in DOMAIN send_q /\ 1 \in DOMAIN send_q /\ i + 1 # 1
      BY <1>2
    <3>3. QED
      BY <1>2, <3>1, <3>2 DEF Queued, NoDouble
  <2>2. ASSUME Queued(c), c # Head(send_q).call PROVE Queued(c)'
    <3>1. PICK i \in 1 .. Len(send_q) : send_q[i].call = c
      BY <1>2, <2>2 DEF Queued
    <3>2. i - 1 \in 1 .. Len(send_q) - 1 /\ (i - 1) + 1 = i
      BY <1>2, <2>2, <3>1
    <3>3. send_q'[i - 1] = send_q[i]
      BY <1>2, <3>2
    <3>4. QED
      BY <1>2, <3>1, <3>2, <3>3 DEF Queued
  <2>3. QED
    BY <2>1, <2>2
<1>6. QED
  BY <1>3, <1>4, <1>5

\* send_q_ holds no more items than there are calls, and one heartbeat.
LEMMA QueueShort ==
    ASSUME Typed, NoDouble
    PROVE  Len(send_q) <= Cardinality(Calls) + 1
<1> DEFINE S == 1 .. Len(send_q)
           T == Calls \cup {"sys.heartbeat"}
           f == [i \in S |-> send_q[i].call]
<1>1. DOMAIN send_q = S /\ Len(send_q) \in Nat /\ \A i \in S : send_q[i] \in Message
  BY LenProperties, ElementOfSeq DEF Typed
<1>2. \A i \in S : send_q[i].call \in T
  BY <1>1 DEF Message, RequestMessage, NotifyMessage, Calls
<1>3. f \in Injection(S, T)
  BY <1>1, <1>2 DEF NoDouble, Injection, IsInjective
<1>4. IsFiniteSet(Calls) /\ IsFiniteSet(T) /\ "sys.heartbeat" \notin Calls
  BY ConstantsAssumption, FS_Union, FS_AddElement DEF Calls
<1>5. Cardinality(T) = Cardinality(Calls) + 1
  BY <1>4, FS_AddElement
<1>6. Cardinality(S) <= Cardinality(T)
  BY <1>3, <1>4, FS_Injection
<1>7. Cardinality(S) = Len(send_q)
  BY <1>1, FS_Interval
<1>8. QED
  BY <1>5, <1>6, <1>7

LEMMA InitOnce == Init => QueuedOnce
<1> SUFFICES ASSUME Init PROVE QueuedOnce
  OBVIOUS
<1>1. \A c : ~Queued(c) /\ ~InHand(c)
  BY EmptySeq DEF Init, Queued, InHand
<1>2. NoDouble
  BY EmptySeq DEF Init, NoDouble
<1>3. None \notin Requests
  BY ConstantsAssumption
<1>4. QED
  BY <1>1, <1>2, <1>3 DEF Init, QueuedOnce, Unrecorded

\* The send thread still has the item it had, if it had one.
SameHands ==
    /\ task' = task
    /\ thread.send \in {"write", "record"} <=> thread'.send \in {"write", "record"}

\* A client that is destroyed stays so.
StaysDestroyed == At("owner", "destroyed") => At("owner", "destroyed")'

LEMMA HandsKept == SameHands => \A c : InHand(c)' <=> InHand(c)
BY DEF SameHands, InHand

LEMMA QueueKept ==
    send_q' = send_q => (NoDouble' <=> NoDouble) /\ \A c : Queued(c)' <=> Queued(c)
BY DEF NoDouble, Queued

\* A step that moves no item, sets no promise, and changes no call.
LEMMA OnceKept ==
    ASSUME QueuedOnce, SameHands, UNCHANGED <<pc, result, acked, send_q, pending>>,
           thread.recv = "heartbeat" <=> thread'.recv = "heartbeat"
    PROVE  QueuedOnce'
BY HandsKept, QueueKept DEF QueuedOnce, Unrecorded, At

\* A call pushes its item.
LEMMA PushOnce ==
    ASSUME Typed, Threads, QueuedOnce,
           \/ \E r \in Requests : Push(r)
           \/ \E n \in Notifies : Notify(n)
           \/ HandleHeartbeat
    PROVE  QueuedOnce'
<1> USE ConstantsAssumption
<1>1. SameHands
  <2>1. task' = task /\ thread'.send = Woken
    BY DEF Push, Notify, HandleHeartbeat, Goto, Typed, Places
  <2>2. Woken \in {"write", "record"} <=> thread.send \in {"write", "record"}
    BY WokenPlace DEF Typed
  <2>3. QED
    BY <2>1, <2>2 DEF SameHands
<1>2. \A c : InHand(c)' <=> InHand(c)
  BY <1>1, HandsKept
<1>3. ASSUME NEW r \in Requests, Push(r) PROVE QueuedOnce'
  <2>1. ~Unrecorded(r)
    BY <1>3 DEF Push, QueuedOnce
  <2>2. NoDouble' /\ \A c : Queued(c)' <=> (Queued(c) \/ c = r)
    <3>1. send_q' = Append(send_q, RequestMsg(r)) /\ RequestMsg(r).call = r
      BY <1>3 DEF Push, PushItem, RequestMsg
    <3>2. QED
      BY <2>1, <3>1, MessagesOut, QueuePush DEF Unrecorded, QueuedOnce
  <2>3. /\ pc' = [pc EXCEPT ![r] = "await"] /\ UNCHANGED <<result, acked, pending>>
        /\ thread'.recv = thread.recv
    BY <1>3 DEF Push, Goto, Typed, Places
  <2>4. pc[r] = "push"
    BY <1>3 DEF Push
  <2>5. QED
    BY <1>2, <2>1, <2>2, <2>3, <2>4 DEF QueuedOnce, Unrecorded, At, Typed, Calls
<1>4. ASSUME NEW n \in Notifies, Notify(n) PROVE QueuedOnce'
  <2>1. ~Unrecorded(n)
    BY <1>4 DEF Notify, QueuedOnce
  <2>2. NoDouble' /\ \A c : Queued(c)' <=> (Queued(c) \/ c = n)
    <3>1. send_q' = Append(send_q, NotifyMsg(n)) /\ NotifyMsg(n).call = n
      BY <1>4 DEF Notify, PushItem, NotifyMsg
    <3>2. QED
      BY <2>1, <3>1, MessagesOut, QueuePush DEF Unrecorded, QueuedOnce
  <2>3. /\ pc' = [pc EXCEPT ![n] = "wait"] /\ UNCHANGED <<result, acked, pending>>
        /\ thread'.recv = thread.recv
    BY <1>4 DEF Notify, Goto, Typed, Places
  <2>4. pc[n] = "idle"
    BY <1>4 DEF Notify
  <2>5. QED
    BY <1>2, <2>1, <2>2, <2>3, <2>4 DEF QueuedOnce, Unrecorded, At, Typed, Calls
<1>5. CASE HandleHeartbeat
  <2>1. At("recv", "dispatch")
    BY <1>5 DEF HandleHeartbeat, Dispatches, Runs
  <2>2. ~Unrecorded("sys.heartbeat") /\ "sys.heartbeat" \notin acked
    BY <2>1 DEF QueuedOnce, At
  <2>3. NoDouble' /\ \A c : Queued(c)' <=> (Queued(c) \/ c = "sys.heartbeat")
    <3>1. /\ send_q' = Append(send_q, NotifyMsg("sys.heartbeat"))
          /\ NotifyMsg("sys.heartbeat").call = "sys.heartbeat"
      BY <1>5 DEF HandleHeartbeat, PushItem, NotifyMsg
    <3>2. QED
      BY <2>2, <3>1, MessagesOut, QueuePush DEF Unrecorded, QueuedOnce
  <2>4. UNCHANGED <<pc, result, acked, pending>> /\ thread'.recv = "heartbeat"
    BY <1>5 DEF HandleHeartbeat, callVars, Typed, Places
  <2>5. QED
    BY <1>2, <2>1, <2>2, <2>3, <2>4 DEF QueuedOnce, Unrecorded, At, Calls
<1>6. QED
  BY <1>3, <1>4, <1>5

\* The other steps of the callers.
LEMMA CallerOnce ==
    ASSUME Typed, QueuedOnce,
           \/ \E r \in Requests : TakeId(r) \/ Await(r)
           \/ \E n \in Notifies : NotifyReturn(n)
    PROVE  QueuedOnce'
<1> USE ConstantsAssumption
<1>1. UNCHANGED <<result, acked, send_q, pending, thread>> /\ SameHands
  BY DEF TakeId, Await, NotifyReturn, sendVars, SameHands
<1>2. /\ \A c : InHand(c)' <=> InHand(c)
      /\ NoDouble' <=> NoDouble
      /\ \A c : Queued(c)' <=> Queued(c)
  BY <1>1, HandsKept, QueueKept
<1>3. \A r \in Requests : \/ pc'[r] = pc[r]
                          \/ pc[r] = "idle" /\ pc'[r] = "push"
                          \/ pc[r] = "await" /\ pc'[r] = "done" /\ result[r] # None
  BY DEF TakeId, Await, NotifyReturn, Typed, Calls
<1>4. \A n \in Notifies : pc'[n] = pc[n] \/ (pc'[n] = "done" /\ n \in acked)
  BY DEF TakeId, Await, NotifyReturn, Typed, Calls
<1>5. QED
  BY <1>1, <1>2, <1>3, <1>4 DEF QueuedOnce, Unrecorded, At

\* The send thread takes an item, writes it, and records its promise.
LEMMA SendOnce ==
    ASSUME Typed, QueuedOnce, SendCheck \/ SendWrite \/ SendRecord
    PROVE  QueuedOnce'
<1> USE ConstantsAssumption
<1>1. CASE SendCheck
  <2>1. UNCHANGED <<pc, result, acked, pending>> /\ thread'.recv = thread.recv
    BY <1>1 DEF SendCheck, callVars, Goto, Typed, Places
  <2>2. thread.send = "check" /\ \A c : ~InHand(c)
    BY <1>1 DEF SendCheck, Runs, At, InHand
  <2>3. CASE UNCHANGED sendVars /\ thread'.send \in {"exited", "park"}
    <3>1. SameHands /\ UNCHANGED send_q
      BY <2>2, <2>3 DEF SameHands, sendVars
    <3>2. QED
      BY <2>1, <3>1, OnceKept
  <2>4. CASE send_q # <<>> /\ task' = Head(send_q) /\ send_q' = Tail(send_q)
             /\ thread'.send = "write"
    <3>1. /\ NoDouble' /\ Queued(task'.call)
          /\ \A c : Queued(c)' <=> (Queued(c) /\ c # task'.call)
      BY <2>4, QueuePop DEF QueuedOnce
    <3>2. \A c : InHand(c)' <=> c = task'.call
      BY <2>4 DEF InHand
    <3>3. QED
      BY <2>1, <2>2, <3>1, <3>2 DEF QueuedOnce, Unrecorded, At
  <2>5. QED
    BY <1>1, <2>3, <2>4 DEF SendCheck, Goto, Typed, Places
<1>2. CASE SendWrite
  <2>1. /\ UNCHANGED <<pc, result, acked, pending, send_q>> /\ thread'.recv = thread.recv
        /\ SameHands
    BY <1>2 DEF SendWrite, dataVars, callVars, sendVars, Goto, Runs, At, Typed, Places, SameHands
  <2>2. QED
    BY <2>1, OnceKept
<1>3. CASE SendRecord
  <2>1. /\ UNCHANGED <<pc, send_q>> /\ thread'.recv = thread.recv
        /\ thread.send = "record" /\ thread'.send = "loop"
    BY <1>3 DEF SendRecord, Goto, Runs, At, Typed, Places
  <2>2. /\ \A c : ~InHand(c)' /\ (InHand(c) <=> c = task.call)
        /\ NoDouble' <=> NoDouble
        /\ \A c : Queued(c)' <=> Queued(c)
    BY <2>1, QueueKept DEF InHand
  <2>3. task \in Message
    BY <2>1 DEF Typed
  <2>4. CASE task.type = "notify"
    <3>1. UNCHANGED <<pending, result>> /\ acked' = acked \cup {task.call}
      BY <1>3, <2>4 DEF SendRecord, SetsPromise
    <3>2. task.call \in Notifies \cup {"sys.heartbeat"}
      BY <2>3, <2>4 DEF Message, RequestMessage, NotifyMessage
    <3>3. ~Queued(task.call) /\ Unrecorded(task.call)
      BY <2>2, <3>2 DEF QueuedOnce, Unrecorded, Calls
    <3>4. QED
      BY <2>1, <2>2, <3>1, <3>2, <3>3 DEF QueuedOnce, Unrecorded, At
  <2>5. CASE task.type # "notify"
    <3>1. task.call \in Requests /\ task.id \in Ids
      BY <2>3, <2>5 DEF Message, RequestMessage, NotifyMessage
    <3>2. acked' = acked
      BY <1>3, <2>5 DEF SendRecord, SetsPromise
    <3>3. ~Queued(task.call) /\ Unrecorded(task.call) /\ pc[task.call] = "await"
      BY <2>2, <3>1 DEF QueuedOnce, Unrecorded, Calls
    <3>4. \A r \in Requests : r # task.call =>
             result'[r] = result[r] /\ \A i \in Ids : pending'[i] = r => pending[i] = r
      BY <1>3, <2>5, <3>1 DEF SendRecord, KeyOf, Typed
    <3>5. QED
      BY <2>1, <2>2, <3>1, <3>2, <3>3, <3>4 DEF QueuedOnce, Unrecorded, At
  <2>6. QED
    BY <2>4, <2>5
<1>4. QED
  BY <1>1, <1>2, <1>3

\* The promises on send_q_ and in pending_ are broken, and the one of an item that the
\* send thread has in hand is not.
LEMMA DestroyOnce ==
    ASSUME Typed, QueuedOnce, DestroyMembers
    PROVE  QueuedOnce'
<1> USE ConstantsAssumption
<1>1. /\ send_q' = <<>> /\ pc' = pc /\ task' = task
      /\ thread'.send = thread.send /\ thread'.recv = thread.recv
      /\ acked' = acked \cup {n \in Notifies : Queued(n)}
      /\ \A i \in Ids : pending'[i] = None
      /\ \A r \in Requests :
            result'[r] = IF Queued(r) \/ \E i \in Ids : pending[i] = r
                         THEN "broken" ELSE result[r]
  BY DEF DestroyMembers, Goto, Typed, Places
<1>2. NoDouble' /\ \A c : ~Queued(c)'
  BY <1>1, EmptySeq DEF NoDouble, Queued
<1>3. \A c : InHand(c)' <=> InHand(c)
  BY <1>1 DEF InHand
<1>4. ASSUME NEW r \in Requests, pc[r] \in {"idle", "push"} \/ InHand(r)
      PROVE  result'[r] = None
  BY <1>1, <1>4 DEF QueuedOnce, Unrecorded, Calls
<1>5. ASSUME NEW n \in Notifies, pc[n] = "idle" \/ InHand(n)
      PROVE  n \notin acked'
  BY <1>1, <1>5 DEF QueuedOnce, Unrecorded, Calls
<1>6. "sys.heartbeat" \in acked' <=> "sys.heartbeat" \in acked
  BY <1>1
<1>7. QED
  BY <1>1, <1>2, <1>3, <1>4, <1>5, <1>6 DEF QueuedOnce, Unrecorded, At

\* The receive thread and the server.
LEMMA RecvOnce ==
    ASSUME Typed, QueuedOnce,
           \/ ReadPackets \/ HandleResponse \/ HeartbeatSent
           \/ HandleKick \/ HandlePush \/ HandleIgnored \/ Server
    PROVE  QueuedOnce'
<1> USE ConstantsAssumption DEF dataVars, callVars, sendVars
<1>1. UNCHANGED <<pc, send_q>> /\ SameHands
  <2>1. CASE Server
    BY <2>1 DEF Server, ServerRead, ServerReply, ServerSend, ServerGone, SameHands
  <2>2. CASE ReadPackets \/ HeartbeatSent \/ HandleKick
    BY <2>2 DEF ReadPackets, HeartbeatSent, HandleKick, Goto, SameHands, Typed, Places
  <2>3. CASE HandleResponse \/ HandlePush \/ HandleIgnored
    BY <2>3 DEF HandleResponse, HandlePush, HandleIgnored, SameHands
  <2>4. QED
    BY <2>1, <2>2, <2>3
<1>2. /\ \A c : InHand(c)' <=> InHand(c)
      /\ NoDouble' <=> NoDouble
      /\ \A c : Queued(c)' <=> Queued(c)
  BY <1>1, HandsKept, QueueKept
<1>3. CASE Server \/ HandlePush \/ HandleIgnored
  <2>1. UNCHANGED <<thread, result, acked, pending>>
    BY <1>3 DEF Server, ServerRead, ServerReply, ServerSend, ServerGone, HandlePush,
                HandleIgnored
  <2>2. QED
    BY <1>1, <2>1, OnceKept
<1>4. CASE ReadPackets \/ HandleKick
  <2>1. /\ UNCHANGED <<result, acked, pending>>
        /\ thread.recv # "heartbeat" /\ thread'.recv # "heartbeat"
    BY <1>4 DEF ReadPackets, HandleKick, Dispatches, Runs, At, Goto, Typed, Places
  <2>2. QED
    BY <1>1, <2>1, OnceKept
<1>5. CASE HeartbeatSent
  <2>1. UNCHANGED <<result, pending>> /\ acked' = acked \ {"sys.heartbeat"}
        /\ "sys.heartbeat" \in acked
    BY <1>5 DEF HeartbeatSent
  <2>2. ~Unrecorded("sys.heartbeat")
    BY <2>1 DEF QueuedOnce
  <2>3. QED
    BY <1>1, <1>2, <2>1, <2>2 DEF QueuedOnce, Unrecorded, At
<1>6. CASE HandleResponse
  <2> DEFINE m == Head(batch)
  <2>1. batch # <<>> /\ m.kind = "response" /\ UNCHANGED <<acked, thread>>
    BY <1>6 DEF HandleResponse, Dispatches
  <2>2. m \in Packet
    BY <2>1, QueueTail DEF Typed
  <2>3. m.id \in Ids
    BY <2>1, <2>2 DEF Packet, ResponsePacket, OtherPacket, OtherKinds
  <2>4. pending' = [pending EXCEPT ![m.id] = None]
        /\ result' = [q \in Requests |-> IF q = pending[m.id] THEN m.call ELSE result[q]]
    BY <1>6 DEF HandleResponse
  <2>5. \A r \in Requests : \A i \in Ids : pending'[i] = r => pending[i] = r
    BY <2>3, <2>4 DEF Typed
  <2>6. \A r \in Requests : (\A i \in Ids : pending[i] # r) => result'[r] = result[r]
    BY <2>3, <2>4
  <2>7. QED
    BY <1>1, <1>2, <2>1, <2>5, <2>6 DEF QueuedOnce, Unrecorded, At
<1>7. QED
  BY <1>3, <1>4, <1>5, <1>6

\* The invariant that is inductive whatever the number of requests.
Sound == Threads /\ Typed /\ QueuedOnce

LEMMA StepSound == Sound /\ [Next]_vars => Sound'
<1> SUFFICES ASSUME Threads, Typed, QueuedOnce, [Next]_vars PROVE QueuedOnce'
  BY StepThreads, StepTyped DEF Sound
<1>1. CASE QuietAction \/ UNCHANGED vars
  BY <1>1, QuietStep, OnceKept DEF Quiet, dataVars, callVars, sendVars, SameHands
<1>2. CASE Caller
  BY <1>2, PushOnce, CallerOnce DEF Caller
<1>3. QED
  BY <1>1, <1>2, StepIs, PushOnce, DestroyOnce, SendOnce, RecvOnce

THEOREM SoundAlways == Spec => []Sound
<1>1. Init => Sound
  BY InitThreads, InitTyped, InitOnce DEF Sound
<1>2. QED
  BY <1>1, StepSound, PTL DEF Spec

\* Type correctness, for every value of the constants, and the length of send_q_,
\* which nothing in the code limits: one item of each call, and one heartbeat.
THEOREM TypeCorrect == Spec => []TypeOK
<1>1. Sound => TypeOK
  BY QueueShort DEF Sound, QueuedOnce, TypeOK
<1>2. QED
  BY <1>1, SoundAlways, PTL

-----------------------------------------------------------------------------
(* The correlation of replies with requests                                *)

\* What is faithful stays faithful when requests only advance, keep their ids,
\* and the server only answers more.
LEMMA FaithfulGrows ==
    ASSUME Sent \subseteq Sent',
           \A r \in Sent : id'[r] = id[r],
           \A r \in Sent : replies[r] > 0 => replies'[r] > 0
    PROVE  GoodMessages \subseteq GoodMessages' /\ GoodPackets \subseteq GoodPackets'
<1>1. GoodMessages \subseteq GoodMessages'
  BY DEF GoodMessages, Message, RequestMessage, NotifyMessage
<1>2. GoodPackets \subseteq GoodPackets'
  BY DEF GoodPackets
<1>3. QED
  BY <1>1, <1>2

\* The queues, left alone while the faithful sets grow.
LEMMA WireKept ==
    ASSUME WireFaithful,
           GoodMessages \subseteq GoodMessages', GoodPackets \subseteq GoodPackets'
    PROVE  /\ send_q' = send_q => send_q' \in Seq(GoodMessages')
           /\ SameHands => (thread'.send \in {"write", "record"} => task' \in GoodMessages')
           /\ toServer' = toServer => toServer' \in Seq(GoodMessages')
           /\ received' = received => received' \subseteq GoodMessages'
           /\ toClient' = toClient => toClient' \in Seq(GoodPackets')
           /\ batch' = batch => batch' \in Seq(GoodPackets')
BY SeqMonotonic DEF WireFaithful, SameHands

\* A step that neither advances a request nor sets a future, and that drops no item.
LEMMA CallsKept ==
    ASSUME Sound, ById, StaysDestroyed, UNCHANGED <<id, result, pending>>,
           \A r \in Requests : pc'[r] = pc[r],
           \A r \in Requests : replies[r] > 0 => replies'[r] > 0,
           \A r \in Requests : Unrecorded(r) => Unrecorded(r)'
    PROVE  /\ PendingFaithful' /\ ResultsById' /\ PromiseInPlace'
           /\ GoodMessages \subseteq GoodMessages' /\ GoodPackets \subseteq GoodPackets'
<1>1. Sent' = Sent
  BY DEF Sent
<1>2. PendingFaithful'
  <2>1. PendingFaithful /\ pending \in [Ids -> Requests \cup {None}]
    BY DEF ById, Sound, Typed
  <2>2. QED
    BY <2>1 DEF PendingFaithful
<1>3. ResultsById'
  <2> SUFFICES ASSUME NEW r \in Requests
               PROVE  \/ result[r] = None
                      \/ /\ result[r] = "broken"
                         /\ At("owner", "destroyed")' \/ \E q \in Sent \ {r} : id[q] = id[r]
                      \/ \E q \in Sent : result[r] = q /\ id[q] = id[r] /\ replies'[q] > 0
    BY <1>1 DEF ResultsById
  <2>1. \/ result[r] = None
        \/ /\ result[r] = "broken"
           /\ At("owner", "destroyed") \/ \E q \in Sent \ {r} : id[q] = id[r]
        \/ \E q \in Sent : result[r] = q /\ id[q] = id[r] /\ replies[q] > 0
    BY DEF ById, ResultsById
  <2>2. QED
    BY <2>1 DEF Sent, StaysDestroyed
<1>4. PromiseInPlace'
  BY DEF ById, PromiseInPlace
<1>5. GoodMessages \subseteq GoodMessages' /\ GoodPackets \subseteq GoodPackets'
  BY <1>1, FaithfulGrows DEF Sent
<1>6. QED
  BY <1>2, <1>3, <1>4, <1>5

\* The types the steps below rely on.
LEMMA SoundTypes ==
    ASSUME Sound
    PROVE  /\ pc \in [Calls -> {"idle", "push", "await", "wait", "done"}]
           /\ id_seq \in Ids /\ id \in [Requests -> Ids]
           /\ result \in [Requests -> Requests \cup {None, "broken"}]
           /\ pending \in [Ids -> Requests \cup {None}]
           /\ thread \in Places
           /\ received \subseteq RequestMessage
           /\ replies \in [Requests -> 0 .. MaxReplies]
BY DEF Sound, Typed

Faithful == WireFaithful /\ PendingFaithful /\ ResultsById /\ PromiseInPlace

LEMMA ByIdIs == Sound /\ Faithful => ById
BY QueueShort DEF Sound, Faithful, Threads, QueuedOnce, TypeOK, ById

LEMMA ByIdNext == Sound' /\ Faithful' => ById'
BY ByIdIs, PTL

\* A notification is faithful: it bears nobody's id.
LEMMA NotesFaithful ==
    \A n \in Notifies \cup {"sys.heartbeat"} : NotifyMsg(n) \in GoodMessages
<1>1. 0 \in Ids
  BY ConstantsAssumption DEF Ids
<1>2. QED
  BY <1>1 DEF NotifyMsg, GoodMessages, Message, NotifyMessage

LEMMA InitById == Init => ById
<1> SUFFICES ASSUME Init PROVE ById
  OBVIOUS
<1>1. Sound
  BY InitThreads, InitTyped, InitOnce DEF Sound
<1>2. WireFaithful
  BY EmptySeq DEF Init, WireFaithful
<1>3. PendingFaithful /\ ResultsById /\ PromiseInPlace
  BY DEF Init, PendingFaithful, ResultsById, PromiseInPlace, Calls
<1>4. QED
  BY <1>1, <1>2, <1>3, ByIdIs DEF Faithful

\* Drawing an id: nothing bears it on this request's account yet, and its future, which
\* nobody has, is neither set nor broken.
LEMMA TakeIdById ==
    ASSUME Sound, Sound', ById, StaysDestroyed, NEW r \in Requests, TakeId(r)
    PROVE  ById'
<1> USE SoundTypes DEF Faithful
<1>0. Faithful
  BY DEF ById
<1>1. UNCHANGED <<thread, result, pending, replies, send_q, task, toServer, toClient,
                  received, batch>> /\ SameHands
  BY DEF TakeId, sendVars, netVars, serverVars, SameHands
<1>2. pc[r] = "idle" /\ pc'[r] = "push" /\ result[r] = None
  BY DEF TakeId, Calls, Sound, QueuedOnce
<1>3. \A q \in Requests : q # r => pc'[q] = pc[q] /\ id'[q] = id[q]
  BY DEF TakeId, Calls
<1>4. Sent' = Sent /\ r \notin Sent /\ Sent \subseteq Requests
  BY <1>2, <1>3 DEF Sent
<1>5. GoodMessages \subseteq GoodMessages' /\ GoodPackets \subseteq GoodPackets'
  BY <1>1, <1>3, <1>4, FaithfulGrows
<1>6. WireFaithful'
  BY <1>0, <1>1, <1>5, WireKept DEF WireFaithful
<1>7. PendingFaithful'
  BY <1>0, <1>1, <1>2, <1>3 DEF PendingFaithful
<1>8. ResultsById'
  <2> SUFFICES ASSUME NEW q \in Requests, q # r
               PROVE  \/ result[q] = None
                      \/ /\ result[q] = "broken"
                         /\ At("owner", "destroyed")' \/ \E p \in Sent \ {q} : id'[p] = id'[q]
                      \/ \E p \in Sent : result[q] = p /\ id'[p] = id'[q] /\ replies[p] > 0
    BY <1>1, <1>2, <1>4 DEF ResultsById
  <2>1. \/ result[q] = None
        \/ /\ result[q] = "broken"
           /\ At("owner", "destroyed") \/ \E p \in Sent \ {q} : id[p] = id[q]
        \/ \E p \in Sent : result[q] = p /\ id[p] = id[q] /\ replies[p] > 0
    BY <1>0 DEF ResultsById
  <2>2. \A p \in Sent : id'[p] = id[p]
    BY <1>3, <1>4
  <2>3. id'[q] = id[q]
    BY <1>3
  <2>4. QED
    BY <2>1, <2>2, <2>3 DEF StaysDestroyed
<1>9. PromiseInPlace'
  <2>1. \A q \in Requests : Unrecorded(q)' <=> Unrecorded(q)
    BY <1>1, HandsKept, QueueKept DEF Unrecorded
  <2>2. QED
    BY <1>0, <1>1, <1>2, <1>3, <2>1 DEF PromiseInPlace
<1>10. QED
  BY <1>6, <1>7, <1>8, <1>9, ByIdNext DEF Faithful

LEMMA PushById ==
    ASSUME Sound, Sound', ById, StaysDestroyed, NEW r \in Requests, Push(r)
    PROVE  ById'
<1> USE SoundTypes DEF Faithful
<1>0. Faithful
  BY DEF ById
<1>1. /\ UNCHANGED <<id_seq, id, result, pending, replies, toServer, toClient, received, batch>>
      /\ pc[r] = "push" /\ pc' = [pc EXCEPT ![r] = "await"] /\ task' = task
      /\ send_q' = Append(send_q, RequestMsg(r)) /\ thread' = [thread EXCEPT !.send = Woken]
  BY DEF Push, PushItem, Goto, netVars, serverVars
<1>2. SameHands
  BY <1>1, WokenPlace DEF SameHands, Places
<1>3. Sent' = Sent \cup {r}
  BY <1>1 DEF Sent, Calls
<1>4. pc'[r] = "await" /\ \A q \in Requests : q # r => pc'[q] = pc[q]
  BY <1>1 DEF Calls
<1>5. GoodMessages \subseteq GoodMessages' /\ GoodPackets \subseteq GoodPackets'
  BY <1>1, <1>3, FaithfulGrows
<1>6. send_q' \in Seq(GoodMessages')
  <2>1. RequestMsg(r) \in GoodMessages'
    <3>1. RequestMsg(r) \in Message /\ RequestMsg(r).call = r /\ RequestMsg(r).id = id'[r]
      BY <1>1, MessagesOut DEF Sound, RequestMsg
    <3>2. QED
      BY <1>3, <3>1 DEF GoodMessages, Message, RequestMessage, NotifyMessage
  <2>2. send_q \in Seq(GoodMessages')
    BY <1>0, <1>5, SeqMonotonic DEF WireFaithful
  <2>3. QED
    BY <1>1, <2>1, <2>2, QueueAppend
<1>7. WireFaithful'
  BY <1>0, <1>1, <1>2, <1>5, <1>6, WireKept DEF WireFaithful
<1>8. PendingFaithful'
  BY <1>0, <1>1 DEF PendingFaithful, Calls
<1>9. ResultsById'
  BY <1>0, <1>1, <1>3 DEF ResultsById, StaysDestroyed
<1>10. PromiseInPlace'
  <2>1. Queued(r)' /\ \A q : Unrecorded(q) => Unrecorded(q)'
    <3>1. ~Queued(r) /\ NoDouble /\ Typed /\ RequestMsg(r) \in Message /\ RequestMsg(r).call = r
      BY <1>1, MessagesOut DEF Sound, QueuedOnce, Unrecorded, RequestMsg
    <3>2. \A c : Queued(c)' <=> (Queued(c) \/ c = r)
      BY <1>1, <3>1, QueuePush
    <3>3. QED
      BY <1>2, <3>2, HandsKept DEF Unrecorded
  <2>2. QED
    BY <1>0, <1>1, <2>1 DEF PromiseInPlace, Unrecorded, Calls
<1>11. QED
  BY <1>7, <1>8, <1>9, <1>10, ByIdNext

LEMMA AwaitById ==
    ASSUME Sound, Sound', ById, StaysDestroyed, NEW r \in Requests, Await(r)
    PROVE  ById'
<1> USE SoundTypes DEF Faithful
<1>0. Faithful
  BY DEF ById
<1>1. /\ UNCHANGED <<id_seq, id, result, pending, replies, send_q, toServer, toClient,
                     received, batch>>
      /\ SameHands /\ result[r] # None
      /\ pc[r] = "await" /\ pc' = [pc EXCEPT ![r] = "done"]
  BY DEF Await, sendVars, netVars, serverVars, SameHands
<1>2. Sent' = Sent
  BY <1>1 DEF Sent, Calls
<1>3. \A q \in Requests : q # r => pc'[q] = pc[q]
  BY <1>1 DEF Calls
<1>4. GoodMessages \subseteq GoodMessages' /\ GoodPackets \subseteq GoodPackets'
  BY <1>1, <1>2, FaithfulGrows
<1>5. WireFaithful'
  BY <1>0, <1>1, <1>4, WireKept DEF WireFaithful
<1>6. PendingFaithful'
  BY <1>0, <1>1 DEF PendingFaithful, Calls
<1>7. ResultsById'
  BY <1>0, <1>1, <1>2 DEF ResultsById, StaysDestroyed
<1>8. PromiseInPlace'
  <2>1. \A q : Unrecorded(q)' <=> Unrecorded(q)
    BY <1>1, HandsKept, QueueKept DEF Unrecorded
  <2>2. QED
    BY <1>0, <1>1, <1>3, <2>1 DEF PromiseInPlace, Calls
<1>9. QED
  BY <1>5, <1>6, <1>7, <1>8, ByIdNext

\* Notifications, and the heartbeat of the receive thread.
LEMMA NotesById ==
    ASSUME Sound, Sound', ById, StaysDestroyed,
           (\E n \in Notifies : Notify(n) \/ NotifyReturn(n)) \/ HandleHeartbeat
    PROVE  ById'
<1> USE SoundTypes DEF Faithful
<1>0. Faithful
  BY DEF ById
<1>1. UNCHANGED <<id_seq, id, result, pending, replies, toServer, toClient, received>>
  BY DEF Notify, NotifyReturn, HandleHeartbeat, callVars, netVars, serverVars
<1>2. \A r \in Requests : pc'[r] = pc[r]
  BY ConstantsAssumption DEF Notify, NotifyReturn, HandleHeartbeat, callVars, Calls
<1>3. SameHands
  <2>1. task' = task /\ (thread'.send = Woken \/ UNCHANGED thread)
    BY DEF Notify, NotifyReturn, HandleHeartbeat, sendVars, Goto, Places
  <2>2. QED
    BY <2>1, WokenPlace DEF SameHands
<1>4. \/ send_q' = send_q
      \/ \E n \in Notifies \cup {"sys.heartbeat"} :
            send_q' = Append(send_q, NotifyMsg(n)) /\ ~Queued(n)
  <2>1. ASSUME NEW n \in Notifies, Notify(n) PROVE send_q' = Append(send_q, NotifyMsg(n)) /\ ~Queued(n)
    BY <2>1 DEF Notify, PushItem, Sound, QueuedOnce, Unrecorded
  <2>2. CASE HandleHeartbeat
    BY <2>2 DEF HandleHeartbeat, PushItem, Dispatches, Runs, At, Sound, QueuedOnce, Unrecorded
  <2>3. CASE \E n \in Notifies : NotifyReturn(n)
    BY <2>3 DEF NotifyReturn, sendVars
  <2>4. QED
    BY <2>1, <2>2, <2>3
<1>5. \A q \in Requests : Unrecorded(q) => Unrecorded(q)'
  <2>1. CASE send_q' = send_q
    BY <1>3, <2>1, HandsKept, QueueKept DEF Unrecorded
  <2>2. ASSUME NEW n \in Notifies \cup {"sys.heartbeat"},
               send_q' = Append(send_q, NotifyMsg(n)), ~Queued(n)
        PROVE  \A q \in Requests : Unrecorded(q) => Unrecorded(q)'
    <3>1. NotifyMsg(n) \in Message /\ NotifyMsg(n).call = n /\ NoDouble /\ Typed
      BY MessagesOut DEF Sound, QueuedOnce, NotifyMsg
    <3>2. \A c : Queued(c)' <=> (Queued(c) \/ c = n)
      BY <2>2, <3>1, QueuePush
    <3>3. QED
      BY <1>3, <3>2, HandsKept DEF Unrecorded
  <2>3. QED
    BY <1>4, <2>1, <2>2
<1>6. /\ PendingFaithful' /\ ResultsById' /\ PromiseInPlace'
      /\ GoodMessages \subseteq GoodMessages' /\ GoodPackets \subseteq GoodPackets'
  BY <1>1, <1>2, <1>5, CallsKept
<1>7. send_q' \in Seq(GoodMessages')
  <2>1. send_q' \in Seq(GoodMessages)
    <3>1. send_q \in Seq(GoodMessages)
      BY <1>0 DEF WireFaithful
    <3>2. ASSUME NEW n \in Notifies \cup {"sys.heartbeat"}
          PROVE  Append(send_q, NotifyMsg(n)) \in Seq(GoodMessages)
      BY <3>1, NotesFaithful, QueueAppend
    <3>3. QED
      BY <1>4, <3>1, <3>2
  <2>2. QED
    BY <1>6, <2>1, SeqMonotonic
<1>8. batch' \in Seq(GoodPackets')
  <2>1. batch' = batch \/ (batch # <<>> /\ batch' = Tail(batch))
    BY DEF Notify, NotifyReturn, HandleHeartbeat, Dispatches
  <2>2. batch' \in Seq(GoodPackets)
    BY <1>0, <2>1, QueueTail DEF WireFaithful
  <2>3. QED
    BY <1>6, <2>2, SeqMonotonic
<1>9. WireFaithful'
  BY <1>0, <1>1, <1>3, <1>6, <1>7, <1>8, WireKept DEF WireFaithful
<1>10. QED
  BY <1>6, <1>9, ByIdNext

\* The send thread takes an item and writes it.
LEMMA WriteById ==
    ASSUME Sound, Sound', ById, StaysDestroyed, SendCheck \/ SendWrite
    PROVE  ById'
<1> USE SoundTypes DEF Faithful
<1>0. Faithful
  BY DEF ById
<1>1. UNCHANGED <<pc, id_seq, id, result, pending, batch, replies, toClient, received>>
  BY DEF SendCheck, SendWrite, dataVars, callVars, netVars, serverVars
<1>2. CASE SendCheck
  <2>1. thread.send = "check" /\ toServer' = toServer
    BY <1>2 DEF SendCheck, Runs, At, netVars
  <2>2. CASE UNCHANGED sendVars /\ thread'.send \in {"exited", "park"}
    <3>1. SameHands /\ UNCHANGED send_q
      BY <2>1, <2>2 DEF SameHands, sendVars
    <3>2. \A q : Unrecorded(q)' <=> Unrecorded(q)
      BY <3>1, HandsKept, QueueKept DEF Unrecorded
    <3>3. /\ PendingFaithful' /\ ResultsById' /\ PromiseInPlace'
          /\ GoodMessages \subseteq GoodMessages' /\ GoodPackets \subseteq GoodPackets'
      BY <1>1, <3>2, CallsKept
    <3>4. WireFaithful'
      BY <1>0, <1>1, <2>1, <3>1, <3>3, WireKept DEF WireFaithful
    <3>5. QED
      BY <3>3, <3>4, ByIdNext
  <2>3. CASE send_q # <<>> /\ task' = Head(send_q) /\ send_q' = Tail(send_q)
             /\ thread'.send = "write"
    <3>1. Typed /\ NoDouble
      BY DEF Sound, QueuedOnce
    <3>2. \A c : Queued(c)' <=> (Queued(c) /\ c # task'.call)
      BY <2>3, <3>1, QueuePop
    <3>3. \A c : (InHand(c)' <=> c = task'.call) /\ ~InHand(c)
      BY <2>1, <2>3 DEF InHand
    <3>4. \A q : Unrecorded(q) => Unrecorded(q)'
      BY <3>2, <3>3 DEF Unrecorded
    <3>5. /\ PendingFaithful' /\ ResultsById' /\ PromiseInPlace'
          /\ GoodMessages \subseteq GoodMessages' /\ GoodPackets \subseteq GoodPackets'
      BY <1>1, <3>4, CallsKept
    <3>6. task' \in GoodMessages /\ send_q' \in Seq(GoodMessages)
      BY <1>0, <2>3, QueueTail DEF WireFaithful
    <3>7. task' \in GoodMessages' /\ send_q' \in Seq(GoodMessages')
      BY <3>5, <3>6, SeqMonotonic
    <3>8. WireFaithful'
      BY <1>0, <1>1, <2>1, <3>5, <3>7, WireKept DEF WireFaithful
    <3>9. QED
      BY <3>5, <3>8, ByIdNext
  <2>4. QED
    BY <1>2, <2>2, <2>3 DEF SendCheck, Goto, Places
<1>3. CASE SendWrite
  <2>1. /\ SameHands /\ UNCHANGED send_q /\ toServer' = Append(toServer, task)
        /\ thread.send = "write"
    BY <1>3 DEF SendWrite, dataVars, sendVars, Goto, Runs, At, Places, SameHands
  <2>2. \A q : Unrecorded(q)' <=> Unrecorded(q)
    BY <2>1, HandsKept, QueueKept DEF Unrecorded
  <2>3. /\ PendingFaithful' /\ ResultsById' /\ PromiseInPlace'
        /\ GoodMessages \subseteq GoodMessages' /\ GoodPackets \subseteq GoodPackets'
    BY <1>1, <2>2, CallsKept
  <2>4. toServer' \in Seq(GoodMessages)
    BY <1>0, <2>1, QueueAppend DEF WireFaithful
  <2>5. toServer' \in Seq(GoodMessages')
    BY <2>3, <2>4, SeqMonotonic
  <2>6. WireFaithful'
    BY <1>0, <1>1, <2>1, <2>3, <2>5, WireKept DEF WireFaithful
  <2>7. QED
    BY <2>3, <2>6, ByIdNext
<1>4. QED
  BY <1>2, <1>3

\* The promise of a request is recorded under its own id if there is none; if there is
\* one, it is of another request with that id, and this promise is broken.
LEMMA RecordById ==
    ASSUME Sound, Sound', ById, StaysDestroyed, SendRecord
    PROVE  ById'
<1> USE SoundTypes DEF Faithful
<1>0. Faithful
  BY DEF ById
<1>1. /\ UNCHANGED <<pc, id, send_q, batch, replies, toServer, toClient, received>>
      /\ thread.send = "record" /\ thread'.send = "loop"
  BY DEF SendRecord, Runs, At, Goto, Places, netVars, serverVars
<1>2. \A c : (InHand(c) <=> c = task.call) /\ ~InHand(c)'
  BY <1>1 DEF InHand
<1>3. \A c : Queued(c)' <=> Queued(c)
  BY <1>1, QueueKept
<1>4. Sent' = Sent
  BY <1>1 DEF Sent
<1>5. GoodMessages \subseteq GoodMessages' /\ GoodPackets \subseteq GoodPackets'
  BY <1>1, <1>4, FaithfulGrows
<1>6. WireFaithful'
  BY <1>0, <1>1, <1>5, WireKept DEF WireFaithful
<1>7. task \in GoodMessages
  BY <1>0, <1>1 DEF WireFaithful
<1>8. CASE task.type = "notify"
  <2>1. UNCHANGED <<pending, result>> /\ task.call \notin Requests
    BY <1>7, <1>8, ConstantsAssumption
       DEF SendRecord, GoodMessages, Message, RequestMessage, NotifyMessage
  <2>2. \A q \in Requests : Unrecorded(q) => Unrecorded(q)'
    BY <1>2, <1>3, <2>1 DEF Unrecorded
  <2>3. PendingFaithful' /\ ResultsById' /\ PromiseInPlace'
    BY <1>1, <2>1, <2>2, CallsKept
  <2>4. QED
    BY <1>6, <2>3, ByIdNext
<1>9. CASE task.type # "notify"
  <2> DEFINE r == task.call
  <2>1. r \in Sent /\ r \in Requests /\ task.id = id[r] /\ task.id \in Ids
    BY <1>7, <1>9 DEF GoodMessages, Message, RequestMessage, NotifyMessage, Sent
  <2>2. pc[r] = "await" /\ result[r] = None /\ \A i \in Ids : pending[i] # r
    <3>1. Unrecorded(r)
      BY <1>2 DEF Unrecorded
    <3>2. QED
      BY <2>1, <3>1 DEF Sound, QueuedOnce
  <2>3. \A q \in Requests \ {r} : Unrecorded(q) => Unrecorded(q)'
    BY <1>2, <1>3 DEF Unrecorded
  <2>4. CASE pending[task.id] = None
    <3>1. pending' = [pending EXCEPT ![task.id] = r] /\ result' = result
      BY <1>9, <2>4 DEF SendRecord, KeyOf
    <3>2. PendingFaithful'
      BY <1>0, <1>1, <2>1, <2>2, <3>1 DEF PendingFaithful
    <3>3. ResultsById'
      BY <1>0, <1>1, <1>4, <3>1 DEF ResultsById, StaysDestroyed
    <3>4. PromiseInPlace'
      <4> SUFFICES ASSUME NEW q \in Requests, pc[q] = "await", result[q] = None
                   PROVE  Unrecorded(q)' \/ pending'[id[q]] = q
        BY <1>1, <3>1 DEF PromiseInPlace
      <4>1. CASE q = r
        BY <2>1, <3>1, <4>1
      <4>2. CASE q # r
        <5>1. Unrecorded(q) \/ pending[id[q]] = q
          BY <1>0 DEF PromiseInPlace
        <5>2. pending[id[q]] = q => pending'[id[q]] = q
          BY <2>4, <3>1, ConstantsAssumption
        <5>3. QED
          BY <2>3, <4>2, <5>1, <5>2
      <4>3. QED
        BY <4>1, <4>2
    <3>5. QED
      BY <1>6, <3>2, <3>3, <3>4, ByIdNext
  <2>5. CASE pending[task.id] # None
    <3>1. result' = [result EXCEPT ![r] = "broken"] /\ pending' = pending
      BY <1>9, <2>5 DEF SendRecord, KeyOf
    <3>2. pending[task.id] \in Sent \ {r} /\ id[pending[task.id]] = id[r]
      BY <1>0, <2>1, <2>2, <2>5 DEF PendingFaithful, Sent
    <3>3. PendingFaithful'
      BY <1>0, <1>1, <2>2, <3>1 DEF PendingFaithful
    <3>4. ResultsById'
      <4> SUFFICES ASSUME NEW q \in Requests
                   PROVE  \/ result'[q] = None
                          \/ /\ result'[q] = "broken"
                             /\ At("owner", "destroyed")' \/ \E p \in Sent \ {q} : id[p] = id[q]
                          \/ \E p \in Sent : result'[q] = p /\ id[p] = id[q] /\ replies[p] > 0
        BY <1>1, <1>4 DEF ResultsById
      <4>1. CASE q = r
        BY <3>1, <3>2, <4>1
      <4>2. CASE q # r
        BY <1>0, <3>1, <4>2 DEF ResultsById, StaysDestroyed
      <4>3. QED
        BY <4>1, <4>2
    <3>5. PromiseInPlace'
      <4> SUFFICES ASSUME NEW q \in Requests, pc[q] = "await", result'[q] = None
                   PROVE  Unrecorded(q)' \/ pending[id[q]] = q
        BY <1>1, <3>1 DEF PromiseInPlace
      <4>1. q # r /\ result[q] = None
        BY <3>1, ConstantsAssumption
      <4>2. Unrecorded(q) \/ pending[id[q]] = q
        BY <1>0, <4>1 DEF PromiseInPlace
      <4>3. QED
        BY <2>3, <4>1, <4>2
    <3>6. QED
      BY <1>6, <3>3, <3>4, <3>5, ByIdNext
  <2>6. QED
    BY <2>4, <2>5
<1>10. QED
  BY <1>8, <1>9

\* The heart of the matter: the promise a response finds under its id is one of a
\* request with the id of the one the response was computed for, and is not set yet.
LEMMA ResponseFinds ==
    ASSUME Sound, ById, HandleResponse
    PROVE  LET m == Head(batch)
               r == pending[m.id] IN
           /\ m.id \in Ids /\ m.call \in Sent /\ m.id = id[m.call] /\ replies[m.call] > 0
           /\ r # None => r \in Sent /\ id[r] = m.id /\ result[r] = None
           /\ pending' = [pending EXCEPT ![m.id] = None]
           /\ \A q \in Requests : result'[q] = IF q = r THEN m.call ELSE result[q]
           /\ batch # <<>> /\ batch' = Tail(batch)
<1> USE SoundTypes DEF Faithful
<1> DEFINE m == Head(batch)
<1>0. Faithful
  BY DEF ById
<1>1. batch # <<>> /\ m.kind = "response" /\ batch' = Tail(batch)
  BY DEF HandleResponse, Dispatches
<1>2. m \in GoodPackets
  BY <1>0, <1>1, QueueTail DEF WireFaithful
<1>3. m.id \in Ids /\ m.call \in Sent /\ m.id = id[m.call] /\ replies[m.call] > 0
  BY <1>1, <1>2 DEF GoodPackets, Packet, ResponsePacket, OtherPacket, OtherKinds
<1>4. pending[m.id] # None =>
          pending[m.id] \in Sent /\ id[pending[m.id]] = m.id /\ result[pending[m.id]] = None
  BY <1>0, <1>3 DEF PendingFaithful, Sent
<1>5. /\ pending' = [pending EXCEPT ![m.id] = None]
      /\ \A q \in Requests : result'[q] = IF q = pending[m.id] THEN m.call ELSE result[q]
  BY DEF HandleResponse
<1>6. QED
  BY <1>1, <1>3, <1>4, <1>5

LEMMA ResponseById ==
    ASSUME Sound, Sound', ById, StaysDestroyed, HandleResponse
    PROVE  ById'
<1> USE SoundTypes DEF Faithful
<1> DEFINE m == Head(batch)
           r == pending[m.id]
<1>0. Faithful
  BY DEF ById
<1>1. /\ UNCHANGED <<pc, id, send_q, replies, toServer, toClient, received>>
      /\ SameHands
  BY DEF HandleResponse, sendVars, netVars, serverVars, SameHands
<1>2. /\ m.id \in Ids /\ m.call \in Sent /\ m.id = id[m.call] /\ replies[m.call] > 0
      /\ r # None => r \in Sent /\ id[r] = m.id /\ result[r] = None
      /\ pending' = [pending EXCEPT ![m.id] = None]
      /\ \A q \in Requests : result'[q] = IF q = r THEN m.call ELSE result[q]
      /\ batch # <<>> /\ batch' = Tail(batch)
  BY ResponseFinds
<1>3. Sent' = Sent
  BY <1>1 DEF Sent
<1>4. /\ m.call \in Requests /\ m.call # None /\ m.call # "broken"
      /\ \A q \in Requests : q # None
  BY <1>2, ConstantsAssumption DEF Sent
<1>5. GoodMessages \subseteq GoodMessages' /\ GoodPackets \subseteq GoodPackets'
  BY <1>1, <1>3, FaithfulGrows
<1>6. WireFaithful'
  <2>1. batch' \in Seq(GoodPackets)
    BY <1>0, <1>2, QueueTail DEF WireFaithful
  <2>2. batch' \in Seq(GoodPackets')
    BY <1>5, <2>1, SeqMonotonic
  <2>3. QED
    BY <1>0, <1>1, <1>5, <2>2, WireKept DEF WireFaithful
<1>7. PendingFaithful'
  <2> SUFFICES ASSUME NEW i \in Ids, pending'[i] # None
               PROVE  pc[pending'[i]] = "await" /\ id[pending'[i]] = i
                      /\ result'[pending'[i]] = None
    BY <1>1 DEF PendingFaithful
  <2>1. i # m.id /\ pending'[i] = pending[i] /\ pending[i] \in Requests
    BY <1>2
  <2>2. pc[pending[i]] = "await" /\ id[pending[i]] = i /\ result[pending[i]] = None
    BY <1>0, <2>1 DEF PendingFaithful
  <2>3. pending[i] # r
    BY <1>2, <2>1, <2>2
  <2>4. QED
    BY <1>2, <2>1, <2>2, <2>3
<1>8. ResultsById'
  <2> SUFFICES ASSUME NEW q \in Requests
               PROVE  \/ result'[q] = None
                      \/ /\ result'[q] = "broken"
                         /\ At("owner", "destroyed")' \/ \E p \in Sent \ {q} : id[p] = id[q]
                      \/ \E p \in Sent : result'[q] = p /\ id[p] = id[q] /\ replies[p] > 0
    BY <1>1, <1>3 DEF ResultsById
  <2>1. CASE q = r
    BY <1>2, <1>4, <2>1
  <2>2. CASE q # r
    BY <1>0, <1>2, <2>2 DEF ResultsById, StaysDestroyed
  <2>3. QED
    BY <2>1, <2>2
<1>9. PromiseInPlace'
  <2> SUFFICES ASSUME NEW q \in Requests, pc[q] = "await", result'[q] = None
               PROVE  Unrecorded(q)' \/ pending'[id[q]] = q
    BY <1>1 DEF PromiseInPlace
  <2>1. q # r /\ result[q] = None /\ id[q] \in Ids
    BY <1>2, <1>4
  <2>2. Unrecorded(q) \/ pending[id[q]] = q
    BY <1>0, <2>1 DEF PromiseInPlace
  <2>3. Unrecorded(q)' <=> Unrecorded(q)
    BY <1>1, HandsKept, QueueKept DEF Unrecorded
  <2>4. QED
    BY <1>2, <2>1, <2>2, <2>3
<1>10. QED
  BY <1>6, <1>7, <1>8, <1>9, ByIdNext

\* The other steps of the receive thread.
LEMMA ReceiveById ==
    ASSUME Sound, Sound', ById, StaysDestroyed,
           ReadPackets \/ HeartbeatSent \/ HandleKick \/ HandlePush \/ HandleIgnored
    PROVE  ById'
<1> USE SoundTypes DEF Faithful
<1>0. Faithful
  BY DEF ById
<1>1. /\ UNCHANGED <<pc, id_seq, id, result, pending, replies, send_q, toServer, received>>
      /\ SameHands
  <2>1. CASE ReadPackets \/ HeartbeatSent \/ HandleKick
    BY <2>1 DEF ReadPackets, HeartbeatSent, HandleKick, Goto, Places, callVars, sendVars,
                netVars, serverVars, SameHands
  <2>2. CASE HandlePush \/ HandleIgnored
    BY <2>2 DEF HandlePush, HandleIgnored, callVars, sendVars, netVars, serverVars, SameHands
  <2>3. QED
    BY <2>1, <2>2
<1>2. \A q : Unrecorded(q)' <=> Unrecorded(q)
  BY <1>1, HandsKept, QueueKept DEF Unrecorded
<1>3. /\ PendingFaithful' /\ ResultsById' /\ PromiseInPlace'
      /\ GoodMessages \subseteq GoodMessages' /\ GoodPackets \subseteq GoodPackets'
  BY <1>1, <1>2, CallsKept
<1>4. batch' \in Seq(GoodPackets) /\ toClient' \in Seq(GoodPackets)
  <2>1. batch \in Seq(GoodPackets) /\ toClient \in Seq(GoodPackets)
    BY <1>0 DEF WireFaithful
  <2>2. CASE ReadPackets
    <3>1. PICK k \in 1 .. Len(toClient) :
             /\ batch' = SubSeq(toClient, 1, k)
             /\ toClient' = SubSeq(toClient, k + 1, Len(toClient))
      BY <2>2 DEF ReadPackets
    <3>2. QED
      BY <2>1, <3>1, QueueCut
  <2>3. CASE HeartbeatSent
    BY <2>1, <2>3 DEF HeartbeatSent, netVars
  <2>4. CASE HandleKick
    BY <2>1, <2>4, EmptySeq DEF HandleKick, netVars
  <2>5. CASE HandlePush \/ HandleIgnored
    <3>1. batch # <<>> /\ batch' = Tail(batch) /\ toClient' = toClient
      BY <2>5 DEF HandlePush, HandleIgnored, Dispatches, netVars
    <3>2. QED
      BY <2>1, <3>1, QueueTail
  <2>6. QED
    BY <2>2, <2>3, <2>4, <2>5
<1>5. batch' \in Seq(GoodPackets') /\ toClient' \in Seq(GoodPackets')
  BY <1>3, <1>4, SeqMonotonic
<1>6. WireFaithful'
  BY <1>0, <1>1, <1>3, <1>5, WireKept DEF WireFaithful
<1>7. QED
  BY <1>3, <1>6, ByIdNext

\* The server reads requests as they are and answers them under their ids.
LEMMA ServerById ==
    ASSUME Sound, Sound', ById, StaysDestroyed, Server
    PROVE  ById'
<1> USE SoundTypes DEF Faithful
<1>0. Faithful
  BY DEF ById
<1>1. UNCHANGED <<pc, id_seq, id, result, pending, send_q, batch>> /\ SameHands
  BY DEF Server, ServerRead, ServerReply, ServerSend, ServerGone, dataVars, callVars,
         sendVars, SameHands
<1>2. \A r \in Requests : replies[r] > 0 => replies'[r] > 0
  <2>1. CASE ServerReply
    <3>1. PICK m \in received : replies' = [replies EXCEPT ![m.call] = @ + 1]
      BY <2>1 DEF ServerReply
    <3>2. \A r \in Requests : replies[r] \in Nat
      BY ConstantsAssumption
    <3>3. QED
      BY <3>1, <3>2
  <2>2. CASE ~ServerReply
    BY <2>2 DEF Server, ServerRead, ServerSend, ServerGone
  <2>3. QED
    BY <2>1, <2>2
<1>3. \A q : Unrecorded(q)' <=> Unrecorded(q)
  BY <1>1, HandsKept, QueueKept DEF Unrecorded
<1>4. /\ PendingFaithful' /\ ResultsById' /\ PromiseInPlace'
      /\ GoodMessages \subseteq GoodMessages' /\ GoodPackets \subseteq GoodPackets'
  BY <1>1, <1>2, <1>3, CallsKept
<1>5. WireFaithful'
  <2>1. CASE ServerRead
    <3>1. toServer # <<>> /\ toServer' = Tail(toServer)
      BY <2>1 DEF ServerRead
    <3>2. Head(toServer) \in GoodMessages /\ Tail(toServer) \in Seq(GoodMessages)
      BY <1>0, <3>1, QueueTail DEF WireFaithful
    <3>3. toServer' \in Seq(GoodMessages') /\ received' \subseteq GoodMessages'
      BY <1>0, <1>4, <2>1, <3>1, <3>2, SeqMonotonic DEF ServerRead, WireFaithful
    <3>4. QED
      BY <1>0, <1>1, <1>4, <2>1, <3>3, WireKept DEF WireFaithful, ServerRead
  <2>2. CASE ServerReply
    <3>1. PICK m \in received :
             /\ replies' = [replies EXCEPT ![m.call] = @ + 1]
             /\ toClient' = Append(toClient, ResponsePkt(m))
      BY <2>2 DEF ServerReply
    <3>2. m \in RequestMessage /\ m.call \in Sent /\ m.id = id[m.call]
      BY <1>0, <3>1 DEF WireFaithful, GoodMessages, RequestMessage
    <3>3. replies'[m.call] > 0
      BY <3>1, <3>2, ConstantsAssumption DEF RequestMessage
    <3>4. ResponsePkt(m) \in GoodPackets'
      <4>1. ResponsePkt(m) \in Packet
        BY <3>2 DEF ResponsePkt, ResponsePacket, RequestMessage, Packet
      <4>2. m.call \in Sent' /\ m.id = id'[m.call]
        BY <1>1, <3>2 DEF Sent
      <4>3. QED
        BY <3>3, <4>1, <4>2 DEF GoodPackets, ResponsePkt
    <3>5. toClient' \in Seq(GoodPackets')
      BY <1>0, <1>4, <3>1, <3>4, QueueAppend, SeqMonotonic DEF WireFaithful
    <3>6. QED
      BY <1>0, <1>1, <1>4, <2>2, <3>5, WireKept DEF WireFaithful, ServerReply
  <2>3. CASE ServerSend
    <3>1. PICK k \in Kinds : toClient' = Append(toClient, OtherPkt(k))
      BY <2>3 DEF ServerSend
    <3>2. OtherPkt(k) \in GoodPackets
      BY ConstantsAssumption DEF OtherPkt, OtherPacket, OtherKinds, GoodPackets, Packet
    <3>3. toClient' \in Seq(GoodPackets')
      BY <1>0, <1>4, <3>1, <3>2, QueueAppend, SeqMonotonic DEF WireFaithful
    <3>4. QED
      BY <1>0, <1>1, <1>4, <2>3, <3>3, WireKept DEF WireFaithful, ServerSend
  <2>4. CASE ServerGone
    BY <1>0, <1>1, <1>4, <2>4, WireKept DEF WireFaithful, ServerGone
  <2>5. QED
    BY <2>1, <2>2, <2>3, <2>4 DEF Server
<1>6. QED
  BY <1>4, <1>5, ByIdNext

\* A quiet step moves nothing the correlation is about.
LEMMA QuietById ==
    ASSUME Sound, Sound', ById, StaysDestroyed, Quiet
    PROVE  ById'
<1> USE SoundTypes DEF Faithful
<1>0. Faithful
  BY DEF ById
<1>1. /\ UNCHANGED <<pc, id_seq, id, result, pending, replies, send_q, batch, toServer,
                     toClient, received>>
      /\ SameHands
  BY DEF Quiet, dataVars, callVars, sendVars, netVars, serverVars, SameHands
<1>2. \A q : Unrecorded(q)' <=> Unrecorded(q)
  BY <1>1, HandsKept, QueueKept DEF Unrecorded
<1>3. /\ PendingFaithful' /\ ResultsById' /\ PromiseInPlace'
      /\ GoodMessages \subseteq GoodMessages' /\ GoodPackets \subseteq GoodPackets'
  BY <1>1, <1>2, CallsKept
<1>4. WireFaithful'
  BY <1>0, <1>1, <1>3, WireKept DEF WireFaithful
<1>5. QED
  BY <1>3, <1>4, ByIdNext

\* The destructor breaks the promises that are on send_q_ or in pending_, and leaves the
\* one of an item in hand where it is.
LEMMA DestroyById ==
    ASSUME Sound, Sound', ById, StaysDestroyed, DestroyMembers
    PROVE  ById'
<1> USE SoundTypes, ConstantsAssumption DEF Faithful
<1>0. Faithful
  BY DEF ById
<1>1. /\ UNCHANGED <<pc, id, task, replies, batch, toServer, toClient, received>>
      /\ send_q' = <<>> /\ At("owner", "destroyed")' /\ SameHands
      /\ \A i \in Ids : pending'[i] = None
      /\ \A r \in Requests :
            result'[r] = IF Queued(r) \/ \E i \in Ids : pending[i] = r
                         THEN "broken" ELSE result[r]
  BY DEF DestroyMembers, Goto, At, Places, SameHands, netVars, serverVars
<1>2. Sent' = Sent
  BY <1>1 DEF Sent
<1>3. GoodMessages \subseteq GoodMessages' /\ GoodPackets \subseteq GoodPackets'
  BY <1>1, <1>2, FaithfulGrows
<1>4. WireFaithful'
  <2>1. send_q' \in Seq(GoodMessages')
    BY <1>1, EmptySeq
  <2>2. QED
    BY <1>0, <1>1, <1>3, <2>1, WireKept DEF WireFaithful
<1>5. PendingFaithful'
  BY <1>1 DEF PendingFaithful
<1>6. ResultsById'
  BY <1>0, <1>1, <1>2 DEF ResultsById
<1>7. PromiseInPlace'
  <2> SUFFICES ASSUME NEW r \in Requests, pc[r] = "await", result'[r] = None
               PROVE  InHand(r)'
    BY <1>1 DEF PromiseInPlace, Unrecorded
  <2>1. ~Queued(r) /\ (\A i \in Ids : pending[i] # r) /\ result[r] = None
    BY <1>1
  <2>2. InHand(r)
    BY <1>0, <2>1 DEF PromiseInPlace, Unrecorded
  <2>3. QED
    BY <1>1, <2>2, HandsKept
<1>8. QED
  BY <1>4, <1>5, <1>6, <1>7, ByIdNext

LEMMA StepStaysDestroyed ==
    ASSUME Sound, [Next]_vars
    PROVE  StaysDestroyed
<1> USE SoundTypes DEF StaysDestroyed, At, Goto, Places
<1>1. CASE QuietAction \/ UNCHANGED vars
  BY <1>1, QuietStep DEF Quiet, Sound
<1>2. CASE Caller
  BY <1>2 DEF Caller, TakeId, Push, Await, Notify, NotifyReturn
<1>3. CASE DestroyMembers
  BY <1>3 DEF DestroyMembers, Runs
<1>4. CASE SendCheck \/ SendWrite \/ SendRecord
  BY <1>4 DEF SendCheck, SendWrite, SendRecord
<1>5. CASE ReadPackets \/ HandleResponse \/ HandleHeartbeat \/ HeartbeatSent \/ HandleKick
           \/ HandlePush \/ HandleIgnored
  BY <1>5 DEF ReadPackets, HandleResponse, HandleHeartbeat, HeartbeatSent, HandleKick,
              HandlePush, HandleIgnored
<1>6. CASE Server
  BY <1>6 DEF Server, ServerRead, ServerReply, ServerSend, ServerGone
<1>7. QED
  BY <1>1, <1>2, <1>3, <1>4, <1>5, <1>6, StepIs

LEMMA StepById == Sound /\ ById /\ [Next]_vars => Sound' /\ ById'
<1> SUFFICES ASSUME Sound, ById, [Next]_vars PROVE Sound' /\ ById'
  OBVIOUS
<1>1. Sound' /\ StaysDestroyed
  BY StepSound, StepStaysDestroyed
<1>2. CASE QuietAction \/ UNCHANGED vars
  BY <1>1, <1>2, QuietStep, QuietById DEF Sound
<1>3. CASE Caller
  BY <1>1, <1>3, TakeIdById, PushById, AwaitById, NotesById
     DEF Caller
<1>4. CASE DestroyMembers
  BY <1>1, <1>4, DestroyById
<1>5. QED
  BY <1>1, <1>2, <1>3, <1>4, StepIs, WriteById, RecordById, ResponseById,
     NotesById, ReceiveById, ServerById

\* However many requests are made, and so also after id_seq_ has come round: what is on
\* the wire, in pending_ and in the futures is there by its id.  A future can get only a
\* reply to a request with the same id, and is broken only if there is another such one,
\* or by the destructor.
THEOREM ByIdAlways == Spec => [](Sound /\ ById)
<1>1. Init => Sound /\ ById
  BY InitThreads, InitTyped, InitOnce, InitById DEF Sound
<1>2. QED
  BY <1>1, StepById, PTL DEF Spec

-----------------------------------------------------------------------------
(* The end of the client                                                   *)

\* When the process is gone nothing happens any more.
LEMMA DeadStill == ~Alive /\ [Next]_vars => UNCHANGED vars
<1> SUFFICES ASSUME ~Alive, Next PROVE FALSE
  OBVIOUS
<1> USE DEF Runs, Dispatches
<1>1. CASE Caller
  BY <1>1 DEF Caller, TakeId, Push, Await, Notify, NotifyReturn
<1>2. CASE Owner
  BY <1>2 DEF Owner, SpawnRecv, AssignRecv, SpawnSend, AssignSend, BeginOnMessage,
              EndOnMessage, OwnerStop, DestroyClose, DestroyMembers
<1>3. CASE \E t \in {"owner", "recv"} : Stopping(t)
  BY <1>3 DEF Stopping, StopFlag, StopWake, StopJoinRecv, StopJoinSend, StopClose
<1>4. CASE SendThread \/ SpuriousWakeup
  BY <1>4 DEF SendThread, SendLoop, SendCheck, SendPark, SendThrow, SendWrite, SendLost,
              SendRecord, SpuriousWakeup
<1>5. CASE RecvThread
  BY <1>5 DEF RecvThread, RecvLoop, ReadPackets, ReadFail, BatchDone, HandleResponse,
              HandleHeartbeat, HeartbeatSent, HandleKick, HandlePush, HandleUndecodable,
              HandleIgnored
<1>6. CASE Server
  BY <1>6 DEF Server, ServerRead, ServerReply, ServerSend, ServerGone
<1>7. QED
  BY <1>1, <1>2, <1>3, <1>4, <1>5, <1>6 DEF Next

\* When the destructor begins nobody is in Request, and nobody enters it later; what it
\* has emptied stays empty; and the promise of a Notify that waits is not lost.
Emptied ==
    /\ Destroying => \A r \in Requests : pc[r] # "push"
    /\ At("owner", "destroyed") /\ Alive => send_q = <<>> /\ \A i \in Ids : pending[i] = None
    /\ \A n \in Notifies : pc[n] = "wait" => n \in acked \/ Unrecorded(n)

\* A step that drops no item, of a client that has not been destroyed.
LEMMA EmptiedKept ==
    ASSUME Emptied, ~At("owner", "destroyed"), thread'.owner = thread.owner,
           \A r \in Requests : pc'[r] = "push" => pc[r] = "push" \/ ~Destroying,
           \A n \in Notifies : pc'[n] = "wait" => pc[n] = "wait" \/ Unrecorded(n)',
           \A n \in Notifies : n \in acked \/ Unrecorded(n) => (n \in acked \/ Unrecorded(n))'
    PROVE  Emptied'
BY DEF Emptied, At, Destroying

LEMMA QuietEmptied ==
    ASSUME Emptied, Quiet, Alive' => Alive
    PROVE  Emptied'
<1>1. UNCHANGED <<pc, acked, send_q, pending>> /\ SameHands
  BY DEF Quiet, dataVars, callVars, sendVars, SameHands
<1>2. \A c : Unrecorded(c)' <=> Unrecorded(c)
  BY <1>1, HandsKept, QueueKept DEF Unrecorded
<1>3. QED
  BY <1>1, <1>2 DEF Emptied, Quiet

LEMMA CallerEmptied ==
    ASSUME Sound, Emptied, Caller
    PROVE  Emptied'
<1> USE SoundTypes, ConstantsAssumption
<1>1. \A r \in Requests : r \notin Notifies
  OBVIOUS
<1>2. ASSUME NEW r \in Requests, TakeId(r) \/ Await(r) PROVE Emptied'
  <2>1. UNCHANGED <<acked, send_q, pending, thread, task, proc>> /\ SameHands
    BY <1>2 DEF TakeId, Await, sendVars, stopVars, SameHands
  <2>2. \A c : Unrecorded(c)' <=> Unrecorded(c)
    BY <2>1, HandsKept, QueueKept DEF Unrecorded
  <2>3. \A n \in Notifies : pc'[n] = pc[n]
    BY <1>1, <1>2 DEF TakeId, Await, Calls
  <2>4. \A q \in Requests : pc'[q] = "push" => pc[q] = "push" \/ ~Destroying
    BY <1>2 DEF TakeId, Await, Calls, InUse
  <2>5. QED
    BY <2>1, <2>2, <2>3, <2>4 DEF Emptied, At, Destroying, Alive
<1>3. ASSUME NEW c \in Calls, (Push(c) /\ c \in Requests) \/ (Notify(c) /\ c \in Notifies)
      PROVE  Emptied'
  <2>1. /\ thread' = [thread EXCEPT !.send = Woken] /\ task' = task /\ acked' = acked
        /\ Alive /\ ~At("owner", "destroyed")
    BY <1>3 DEF Push, Notify, Goto, Emptied, At, InUse, Destroying
  <2>2. SameHands
    BY <2>1, WokenPlace DEF SameHands, Places
  <2>3. \A d : Queued(d)' <=> (Queued(d) \/ d = c)
    <3>1. PICK m \in Message : m.call = c /\ send_q' = Append(send_q, m)
      BY <1>3, MessagesOut DEF Push, Notify, PushItem, RequestMsg, NotifyMsg, Sound
    <3>2. ~Queued(c) /\ Typed /\ NoDouble
      BY <1>3 DEF Push, Notify, Sound, QueuedOnce, Unrecorded
    <3>3. QED
      BY <3>1, <3>2, QueuePush
  <2>4. \A d : Unrecorded(d)' <=> (Unrecorded(d) \/ d = c)
    BY <2>2, <2>3, HandsKept DEF Unrecorded
  <2>5. \A d \in Calls : d # c => pc'[d] = pc[d]
    BY <1>3 DEF Push, Notify
  <2>6. c \in Requests => pc'[c] = "await"
    BY <1>1, <1>3 DEF Push
  <2>7. QED
    BY <2>1, <2>4, <2>5, <2>6, EmptiedKept DEF Calls, Places
<1>4. ASSUME NEW n \in Notifies, NotifyReturn(n) PROVE Emptied'
  <2>1. UNCHANGED <<acked, send_q, pending, thread, task, proc>> /\ SameHands
    BY <1>4 DEF NotifyReturn, sendVars, stopVars, SameHands
  <2>2. \A c : Unrecorded(c)' <=> Unrecorded(c)
    BY <2>1, HandsKept, QueueKept DEF Unrecorded
  <2>3. \A c \in Calls : pc'[c] = pc[c] \/ pc'[c] = "done"
    BY <1>4 DEF NotifyReturn, Calls
  <2>4. QED
    BY <2>1, <2>2, <2>3 DEF Emptied, At, Destroying, Alive, Calls
<1>5. ASSUME NEW r \in Requests, Push(r) PROVE Emptied'
  <2>1. r \in Calls /\ (Push(r) /\ r \in Requests)
    BY <1>5 DEF Calls
  <2>2. QED
    BY <1>3, <2>1
<1>6. ASSUME NEW n \in Notifies, Notify(n) PROVE Emptied'
  <2>1. n \in Calls /\ (Notify(n) /\ n \in Notifies)
    BY <1>6 DEF Calls
  <2>2. QED
    BY <1>3, <2>1
<1>7. QED
  BY <1>2, <1>4, <1>5, <1>6 DEF Caller

\* Once the destructor has destroyed the members of a client that survives it, neither
\* thread takes a step.
LEMMA ThreadsEnded ==
    ASSUME Sound, Alive, At("owner", "destroyed")
    PROVE  At("recv", "exited") /\ At("send", "exited")
BY DEF Sound, Threads, Ordered, At, Starting

LEMMA SendEmptied ==
    ASSUME Sound, Emptied, SendCheck \/ SendWrite \/ SendRecord
    PROVE  Emptied'
<1> USE SoundTypes, ConstantsAssumption
<1>1. UNCHANGED pc /\ thread'.owner = thread.owner /\ ~At("owner", "destroyed")
  BY ThreadsEnded
     DEF SendCheck, SendWrite, SendRecord, dataVars, callVars, Runs, At, Goto, Places
<1>2. CASE SendCheck
  <2>1. acked' = acked /\ thread.send = "check"
    BY <1>2 DEF SendCheck, callVars, Runs, At
  <2>2. CASE UNCHANGED sendVars /\ thread'.send \in {"exited", "park"}
    <3>1. SameHands /\ UNCHANGED send_q
      BY <2>1, <2>2 DEF SameHands, sendVars
    <3>2. \A c : Unrecorded(c)' <=> Unrecorded(c)
      BY <3>1, HandsKept, QueueKept DEF Unrecorded
    <3>3. QED
      BY <1>1, <2>1, <3>2, EmptiedKept DEF Emptied
  <2>3. CASE send_q # <<>> /\ task' = Head(send_q) /\ send_q' = Tail(send_q)
             /\ thread'.send = "write"
    <3>1. \A c : Queued(c)' <=> (Queued(c) /\ c # task'.call)
      BY <2>3, QueuePop DEF Sound, QueuedOnce
    <3>2. \A c : (InHand(c)' <=> c = task'.call) /\ ~InHand(c)
      BY <2>1, <2>3 DEF InHand
    <3>3. \A c : Unrecorded(c) => Unrecorded(c)'
      BY <3>1, <3>2 DEF Unrecorded
    <3>4. QED
      BY <1>1, <2>1, <3>3, EmptiedKept
  <2>4. QED
    BY <1>2, <2>2, <2>3 DEF SendCheck, Goto, Places
<1>3. CASE SendWrite
  <2>1. UNCHANGED <<send_q, acked>> /\ SameHands
    BY <1>3 DEF SendWrite, dataVars, callVars, sendVars, Goto, Runs, At, Places, SameHands
  <2>2. \A c : Unrecorded(c)' <=> Unrecorded(c)
    BY <2>1, HandsKept, QueueKept DEF Unrecorded
  <2>3. QED
    BY <1>1, <2>1, <2>2, EmptiedKept
<1>4. CASE SendRecord
  <2>1. send_q' = send_q /\ thread.send = "record" /\ task \in Message
        /\ acked' = acked \cup {c \in {task.call} : task.type = "notify"}
    BY <1>4 DEF SendRecord, SetsPromise, Runs, At, Sound, Typed
  <2>2. \A n \in Notifies : InHand(n) => n \in acked'
    BY <2>1 DEF InHand, Message, RequestMessage, NotifyMessage
  <2>3. \A c : Queued(c)' <=> Queued(c)
    BY <2>1, QueueKept
  <2>4. \A n \in Notifies : n \in acked \/ Unrecorded(n) => (n \in acked \/ Unrecorded(n))'
    BY <2>1, <2>2, <2>3 DEF Unrecorded
  <2>5. QED
    BY <1>1, <2>4, EmptiedKept
<1>5. QED
  BY <1>2, <1>3, <1>4

LEMMA RecvEmptied ==
    ASSUME Sound, Emptied,
           \/ ReadPackets \/ HandleResponse \/ HandleHeartbeat \/ HeartbeatSent
           \/ HandleKick \/ HandlePush \/ HandleIgnored
    PROVE  Emptied'
<1> USE SoundTypes, ConstantsAssumption
<1>1. UNCHANGED pc /\ thread'.owner = thread.owner /\ ~At("owner", "destroyed")
  BY ThreadsEnded
     DEF ReadPackets, HandleResponse, HandleHeartbeat, HeartbeatSent, HandleKick,
         HandlePush, HandleIgnored, Dispatches, callVars, Runs, At, Goto, Places
<1>2. SameHands /\ \A n \in Notifies : n \in acked' <=> n \in acked
  <2>1. CASE ReadPackets \/ HeartbeatSent \/ HandleKick
    BY <2>1 DEF ReadPackets, HeartbeatSent, HandleKick, callVars, sendVars, Goto, Places,
                SameHands
  <2>2. CASE HandleResponse \/ HandlePush \/ HandleIgnored
    BY <2>2 DEF HandleResponse, HandlePush, HandleIgnored, callVars, sendVars, SameHands
  <2>3. CASE HandleHeartbeat
    BY <2>3, WokenPlace DEF HandleHeartbeat, callVars, SameHands, Places
  <2>4. QED
    BY <2>1, <2>2, <2>3
<1>3. \A n \in Notifies : Queued(n) => Queued(n)'
  <2>1. CASE HandleHeartbeat
    <3>1. /\ send_q' = Append(send_q, NotifyMsg("sys.heartbeat"))
          /\ NotifyMsg("sys.heartbeat") \in Message
          /\ NotifyMsg("sys.heartbeat").call = "sys.heartbeat"
      BY <2>1, MessagesOut DEF HandleHeartbeat, PushItem, NotifyMsg, Sound
    <3>2. Typed /\ NoDouble /\ ~Queued("sys.heartbeat")
      BY <2>1 DEF HandleHeartbeat, Dispatches, Runs, At, Sound, QueuedOnce, Unrecorded
    <3>3. QED
      BY <3>1, <3>2, QueuePush
  <2>2. CASE ~HandleHeartbeat
    <3>1. send_q' = send_q
      BY <2>2 DEF ReadPackets, HandleResponse, HeartbeatSent, HandleKick, HandlePush,
                  HandleIgnored, sendVars
    <3>2. QED
      BY <3>1, QueueKept
  <2>3. QED
    BY <2>1, <2>2
<1>4. QED
  BY <1>1, <1>2, <1>3, HandsKept, EmptiedKept DEF Unrecorded

LEMMA DestroyEmptied ==
    ASSUME Sound, Emptied, DestroyMembers
    PROVE  Emptied'
<1> USE SoundTypes
<1>1. /\ pc' = pc /\ send_q' = <<>> /\ task' = task /\ thread'.send = thread.send
      /\ acked' = acked \cup {n \in Notifies : Queued(n)}
      /\ \A i \in Ids : pending'[i] = None
      /\ Destroying
  BY DEF DestroyMembers, Goto, Runs, At, Places, Destroying
<1>2. \A c : InHand(c)' <=> InHand(c)
  BY <1>1 DEF InHand
<1>3. QED
  BY <1>1, <1>2 DEF Emptied, Unrecorded

LEMMA ServerEmptied ==
    ASSUME Sound, Emptied, Server
    PROVE  Emptied'
<1>1. UNCHANGED <<pc, acked, send_q, pending, thread, proc>> /\ SameHands
  BY DEF Server, ServerRead, ServerReply, ServerSend, ServerGone, dataVars, callVars,
         sendVars, stopVars, SameHands
<1>2. \A c : Unrecorded(c)' <=> Unrecorded(c)
  BY <1>1, HandsKept, QueueKept DEF Unrecorded
<1>3. QED
  BY <1>1, <1>2 DEF Emptied, At, Destroying, Alive

LEMMA StepEmptied == Sound /\ Emptied /\ [Next]_vars => Emptied'
<1> SUFFICES ASSUME Sound, Emptied, [Next]_vars PROVE Emptied'
  OBVIOUS
<1>1. Alive' => Alive
  BY DeadStill DEF vars, stopVars, Alive
<1>2. CASE QuietAction \/ UNCHANGED vars
  BY <1>1, <1>2, QuietStep, QuietEmptied DEF Sound
<1>3. QED
  BY <1>2, StepIs, CallerEmptied, DestroyEmptied, SendEmptied, RecvEmptied, ServerEmptied

\* A client that is destroyed in a process that goes on has no thread left, and nobody
\* waits for it: whatever was on send_q_ or in pending_ then was broken, and nothing that
\* was neither there nor answered existed.
THEOREM NothingLeftBehindAlways == Spec => []NothingLeftBehind
<1>1. Init => Emptied
  BY DEF Init, Emptied, At, Destroying, Calls
<1>2. Sound /\ ById /\ Emptied => NothingLeftBehind
  <2> SUFFICES ASSUME Sound, ById, Emptied, At("owner", "destroyed"), Alive
               PROVE  /\ At("recv", "exited") /\ At("send", "exited")
                      /\ \A r \in Requests : pc[r] = "await" => result[r] # None
                      /\ \A n \in Notifies : pc[n] = "wait" => n \in acked
    BY DEF NothingLeftBehind
  <2>1. At("recv", "exited") /\ At("send", "exited")
    BY ThreadsEnded
  <2>2. \A c : ~Unrecorded(c)
    BY <2>1, EmptySeq DEF Emptied, Unrecorded, Queued, InHand, At
  <2>3. \A r \in Requests : pc[r] = "await" => result[r] # None
    BY <2>2, SoundTypes, ConstantsAssumption DEF ById, PromiseInPlace, Emptied
  <2>4. QED
    BY <2>1, <2>2, <2>3 DEF Emptied
<1>3. QED
  BY <1>1, <1>2, StepEmptied, ByIdAlways, PTL DEF Spec

-----------------------------------------------------------------------------
(* As long as no id comes back                                             *)

\* The id a request draws is new: id_seq_ has not come round.
LEMMA TakeIdUnique ==
    ASSUME NoWrap, Sound, IdsUnique, NEW r \in Requests, TakeId(r)
    PROVE  IdsUnique'
<1> USE SoundTypes
<1>1. r \notin Numbered /\ Numbered' = Numbered \cup {r}
  BY DEF TakeId, Numbered, Calls
<1>2. IsFiniteSet(Numbered) /\ Cardinality(Numbered \cup {r}) = Cardinality(Numbered) + 1
  BY <1>1, ConstantsAssumption, FS_Subset, FS_AddElement DEF Numbered
<1>3. id_seq' = id_seq + 1
  <2>1. Cardinality(Numbered \cup {r}) <= Cardinality(Requests)
    BY ConstantsAssumption, FS_Subset DEF Numbered
  <2>2. Cardinality(Numbered) \in Nat /\ Cardinality(Requests) \in Nat
    BY <1>2, ConstantsAssumption, FS_CardinalityType
  <2>3. id_seq \in Nat /\ id_seq + 1 < IdSpace
    BY <1>2, <2>1, <2>2, ConstantsAssumption DEF NoWrap, IdsUnique
  <2>4. QED
    BY <2>3, ConstantsAssumption DEF TakeId
<1>4. id_seq' = Cardinality(Numbered')
  BY <1>1, <1>2, <1>3 DEF IdsUnique
<1>5. id'[r] = id_seq' /\ \A q \in Numbered : id'[q] = id[q]
  BY <1>1 DEF TakeId, Numbered
<1>6. id_seq \in Nat
  BY ConstantsAssumption DEF Ids
<1>7. QED
  BY <1>1, <1>3, <1>4, <1>5, <1>6 DEF IdsUnique

\* Only TakeId draws an id.
LEMMA OnlyTakeIdDraws ==
    ASSUME Sound, [Next]_vars, ~ \E r \in Requests : TakeId(r)
    PROVE  UNCHANGED <<id, id_seq>> /\ \A r \in Requests : pc'[r] # "idle" <=> pc[r] # "idle"
<1> USE SoundTypes, ConstantsAssumption DEF dataVars, callVars, netVars, serverVars
<1>1. CASE QuietAction \/ UNCHANGED vars
  BY <1>1, QuietStep DEF Quiet, Sound
<1>2. CASE Caller
  BY <1>2 DEF Caller, Push, Await, Notify, NotifyReturn, Calls
<1>3. CASE SendCheck \/ SendWrite \/ SendRecord
  BY <1>3 DEF SendCheck, SendWrite, SendRecord
<1>4. CASE ReadPackets \/ HandleResponse \/ HandleHeartbeat \/ HeartbeatSent \/ HandleKick
           \/ HandlePush \/ HandleIgnored
  BY <1>4 DEF ReadPackets, HandleResponse, HandleHeartbeat, HeartbeatSent, HandleKick,
              HandlePush, HandleIgnored
<1>5. CASE Server
  BY <1>5 DEF Server, ServerRead, ServerReply, ServerSend, ServerGone
<1>6. CASE DestroyMembers
  BY <1>6 DEF DestroyMembers
<1>7. QED
  BY <1>1, <1>2, <1>3, <1>4, <1>5, <1>6, StepIs

LEMMA StepUnique ==
    ASSUME NoWrap, Sound, IdsUnique, [Next]_vars
    PROVE  IdsUnique'
<1>1. CASE ~ \E r \in Requests : TakeId(r)
  <2>1. UNCHANGED <<id, id_seq>> /\ Numbered' = Numbered
    BY <1>1, OnlyTakeIdDraws DEF Numbered
  <2>2. QED
    BY <2>1 DEF IdsUnique
<1>2. QED
  BY <1>1, TakeIdUnique

\* With unique ids, a request with the id of another is that one, and only the destructor
\* breaks a future.
LEMMA UniqueIsCorrelated ==
    ASSUME Sound, ById, IdsUnique
    PROVE  Correlated
<1> USE SoundTypes
<1>1. Sent \subseteq Numbered /\ \A q, p \in Numbered : id[q] = id[p] => q = p
  BY DEF Sent, Numbered, IdsUnique
<1>2. \A r \in Requests : pc[r] \in {"idle", "push"} => result[r] = None
  BY DEF Sound, QueuedOnce
<1>3. RepliesFaithful
  <2> SUFFICES ASSUME NEW r \in Requests, result[r] # None
               PROVE  \/ result[r] = r /\ r \in Sent /\ replies[r] > 0
                      \/ result[r] = "broken" /\ At("owner", "destroyed")
    BY DEF RepliesFaithful
  <2>1. r \in Numbered
    BY <1>2 DEF Numbered
  <2>2. \/ result[r] = "broken" /\ (At("owner", "destroyed") \/ \E q \in Sent \ {r} : id[q] = id[r])
        \/ \E q \in Sent : result[r] = q /\ id[q] = id[r] /\ replies[q] > 0
    BY DEF ById, ResultsById
  <2>3. QED
    BY <1>1, <2>1, <2>2
<1>4. PromiseKept
  <2> SUFFICES ASSUME NEW r \in Requests, pc[r] = "await"
               PROVE  /\ result[r] = None => Unrecorded(r) \/ pending[id[r]] = r
                      /\ result[r] = "broken" => At("owner", "destroyed")
    BY DEF PromiseKept, Unrecorded
  <2>1. result[r] = "broken" => At("owner", "destroyed")
    BY <1>3, ConstantsAssumption DEF RepliesFaithful
  <2>2. QED
    BY <2>1 DEF ById, PromiseInPlace
<1>5. QED
  BY <1>3, <1>4 DEF Correlated

LEMMA InitCorrelated == Init => Sound /\ Correlated
<1> SUFFICES ASSUME Init PROVE Sound /\ Correlated
  OBVIOUS
<1>1. Sound
  BY InitThreads, InitTyped, InitOnce DEF Sound
<1>2. Numbered = {}
  BY DEF Init, Numbered, Calls
<1>3. IdsUnique
  BY <1>2, FS_EmptySet DEF Init, IdsUnique
<1>4. QED
  BY <1>1, <1>3, InitById, UniqueIsCorrelated

LEMMA StepCorrelated ==
    NoWrap /\ Sound /\ Correlated /\ [Next]_vars => Sound' /\ Correlated'
<1> SUFFICES ASSUME NoWrap, Sound, Correlated, [Next]_vars PROVE Sound' /\ Correlated'
  OBVIOUS
<1>1. Sound' /\ ById' /\ IdsUnique'
  BY StepById, StepUnique DEF Correlated
<1>2. (Sound /\ ById /\ IdsUnique => Correlated)'
  BY UniqueIsCorrelated, PTL
<1>3. QED
  BY <1>1, <1>2

\* The inductive invariant holds as long as fewer requests are made than there
\* are message ids.
THEOREM CorrelatedAlways ==
    ASSUME NoWrap PROVE Spec => [](Sound /\ Correlated)
<1>1. Sound /\ Correlated /\ [Next]_vars => Sound' /\ Correlated'
  BY StepCorrelated
<1>2. QED
  BY <1>1, InitCorrelated, PTL DEF Spec

\* The promise of a request that is not answered is in send_q_, in the hands of the
\* send thread, or in pending_ under the id of the request: nothing but the destructor of
\* the client destroys it.
THEOREM PromiseKeptAlways ==
    ASSUME NoWrap PROVE Spec => []PromiseKept
<1>1. Correlated => PromiseKept
  BY DEF Correlated
<1>2. QED
  BY <1>1, CorrelatedAlways, PTL

-----------------------------------------------------------------------------
(* The client implements RpcCalls                                          *)

\* The variables of RpcCalls, as the client's state gives them.
IssuedHere == {r \in Requests : pc[r] # "idle"}
ServedHere == {r \in Requests : replies[r] > 0}
ResultHere == [r \in Requests |-> IF result[r] = "broken" THEN None ELSE result[r]]

LEMMA TakeIdIssues ==
    ASSUME Sound, NEW r \in Requests, TakeId(r)
    PROVE  Rpc!Issue(r)
<1>1. r \notin IssuedHere /\ IssuedHere' = IssuedHere \cup {r}
  BY SoundTypes DEF TakeId, IssuedHere, Calls
<1>2. ServedHere' = ServedHere /\ ResultHere' = ResultHere
  BY DEF TakeId, netVars, serverVars, ServedHere, ResultHere
<1>3. QED
  BY <1>1, <1>2 DEF Rpc!Issue, IssuedHere, ServedHere, ResultHere

\* The server's first answer to a request serves it; a duplicate is a stutter.
LEMMA ServerReplyServes ==
    ASSUME Sound, Correlated, ServerReply
    PROVE  (\E r \in Requests : Rpc!Serve(r)) \/ UNCHANGED Rpc!vars
<1> USE SoundTypes
<1>1. PICK m \in received : replies' = [replies EXCEPT ![m.call] = @ + 1]
  BY DEF ServerReply
<1>2. m.call \in Requests /\ m.call \in IssuedHere
  BY <1>1 DEF Correlated, ById, WireFaithful, GoodMessages, RequestMessage, Sent, IssuedHere
<1>3. IssuedHere' = IssuedHere /\ ResultHere' = ResultHere
  BY DEF ServerReply, dataVars, callVars, IssuedHere, ResultHere
<1>4. ServedHere' = ServedHere \cup {m.call}
  <2>1. \A r \in Requests : replies[r] \in Nat
    BY ConstantsAssumption
  <2>2. \A r \in Requests : replies'[r] = IF r = m.call THEN replies[r] + 1 ELSE replies[r]
    BY <1>1, <1>2
  <2>3. \A r \in Requests : replies'[r] > 0 <=> (replies[r] > 0 \/ r = m.call)
    BY <2>1, <2>2
  <2>4. QED
    BY <1>2, <2>3 DEF ServedHere
<1>5. CASE m.call \in ServedHere
  <2>1. ServedHere' = ServedHere
    BY <1>4, <1>5
  <2>2. QED
    BY <1>3, <2>1 DEF Rpc!vars, IssuedHere, ServedHere, ResultHere
<1>6. CASE m.call \notin ServedHere
  <2>1. Rpc!Serve(m.call)
    BY <1>2, <1>3, <1>4, <1>6 DEF Rpc!Serve, IssuedHere, ServedHere, ResultHere
  <2>2. QED
    BY <1>2, <2>1
<1>7. QED
  BY <1>5, <1>6

\* A response that finds a promise resolves the request it was computed for; one
\* that finds none is a stutter.
LEMMA ResponseResolves ==
    ASSUME Sound, Correlated, HandleResponse
    PROVE  (\E r \in Requests : Rpc!Resolve(r)) \/ UNCHANGED Rpc!vars
<1> USE SoundTypes, ConstantsAssumption
<1> DEFINE m == Head(batch)
           r == pending[m.id]
<1>1. IssuedHere' = IssuedHere /\ ServedHere' = ServedHere
  BY DEF HandleResponse, netVars, serverVars, IssuedHere, ServedHere
<1>2. /\ m.call \in Sent /\ m.id = id[m.call] /\ replies[m.call] > 0
      /\ r # None => r \in Sent /\ id[r] = m.id /\ result[r] = None
      /\ \A q \in Requests : result'[q] = IF q = r THEN m.call ELSE result[q]
  BY ResponseFinds DEF Correlated
<1>3. m.call \in Requests /\ m.call # "broken" /\ m.call # None /\ m.call \in ServedHere
  BY <1>2 DEF Sent, ServedHere
<1>4. CASE r = None
  <2>1. ResultHere' = ResultHere
    BY <1>2, <1>4 DEF ResultHere
  <2>2. QED
    BY <1>1, <2>1 DEF Rpc!vars, IssuedHere, ServedHere, ResultHere
<1>5. CASE r # None
  <2>1. r = m.call
    BY <1>2, <1>5 DEF Correlated, IdsUnique, Numbered, Sent
  <2>2. PICK q \in Requests : q = m.call
    BY <1>3
  <2>3. ResultHere[q] = None /\ ResultHere' = [ResultHere EXCEPT ![q] = q]
    BY <1>2, <1>3, <1>5, <2>1, <2>2 DEF ResultHere
  <2>4. Rpc!Resolve(q)
    BY <1>1, <1>3, <2>2, <2>3 DEF Rpc!Resolve, IssuedHere, ServedHere, ResultHere
  <2>5. QED
    BY <2>4
<1>6. QED
  BY <1>4, <1>5

\* To record a promise sets no future: the place under the id is free.
LEMMA RecordStutters ==
    ASSUME Sound, Correlated, SendRecord
    PROVE  result' = result
<1> USE SoundTypes
<1>0. IdsUnique /\ WireFaithful /\ PendingFaithful
  BY DEF Correlated, ById
<1>1. thread.send = "record" /\ task \in GoodMessages
  BY <1>0 DEF SendRecord, Runs, At, WireFaithful
<1>2. CASE task.type = "notify"
  BY <1>2 DEF SendRecord
<1>3. CASE task.type # "notify"
  <2>1. /\ task.call \in Sent /\ task.id = id[task.call] /\ task.id \in Ids
        /\ task.call \in Requests
    BY <1>1, <1>3 DEF GoodMessages, Message, RequestMessage, NotifyMessage, Sent
  <2>2. pending[task.id] # task.call
    BY <1>1, <2>1 DEF Sound, QueuedOnce, Unrecorded, InHand
  <2>3. pending[task.id] = None
    BY <1>0, <2>1, <2>2 DEF PendingFaithful, IdsUnique, Numbered, Sent
  <2>4. QED
    BY <1>3, <2>3 DEF SendRecord, KeyOf
<1>4. QED
  BY <1>2, <1>3

\* Every other step is one RpcCalls does not see.
LEMMA OthersStutter ==
    ASSUME Sound, Correlated, [Next]_vars,
           ~ \E r \in Requests : TakeId(r), ~ServerReply, ~HandleResponse
    PROVE  UNCHANGED Rpc!vars
<1> USE SoundTypes, ConstantsAssumption DEF dataVars, callVars, netVars, serverVars
<1>1. CASE ~DestroyMembers
  <2>1. UNCHANGED <<result, replies>> /\ \A r \in Requests : pc'[r] # "idle" <=> pc[r] # "idle"
    <3>1. CASE QuietAction \/ UNCHANGED vars
      BY <3>1, QuietStep DEF Quiet, Sound
    <3>2. CASE Caller
      BY <3>2 DEF Caller, Push, Await, Notify, NotifyReturn, Calls
    <3>3. CASE SendCheck \/ SendWrite
      BY <3>3 DEF SendCheck, SendWrite
    <3>4. CASE SendRecord
      BY <3>4, RecordStutters DEF SendRecord
    <3>5. CASE ReadPackets \/ HandleHeartbeat \/ HeartbeatSent \/ HandleKick \/ HandlePush
               \/ HandleIgnored
      BY <3>5 DEF ReadPackets, HandleHeartbeat, HeartbeatSent, HandleKick, HandlePush,
                  HandleIgnored
    <3>6. CASE Server
      BY <3>6 DEF Server, ServerRead, ServerSend, ServerGone
    <3>7. QED
      BY <1>1, <3>1, <3>2, <3>3, <3>4, <3>5, <3>6, StepIs
  <2>2. QED
    BY <2>1 DEF Rpc!vars
<1>2. CASE DestroyMembers
  <2>1. UNCHANGED <<pc, replies>>
    BY <1>2 DEF DestroyMembers
  <2>2. \A r \in Requests : Queued(r) \/ (\E i \in Ids : pending[i] = r) => result[r] = None
    <3>1. \A r \in Requests : Queued(r) => result[r] = None
      BY DEF Sound, QueuedOnce, Unrecorded
    <3>2. \A i \in Ids : pending[i] # None => result[pending[i]] = None
      BY DEF Correlated, ById, PendingFaithful
    <3>3. QED
      BY <3>1, <3>2
  <2>3. \A r \in Requests :
           result'[r] = IF Queued(r) \/ \E i \in Ids : pending[i] = r
                        THEN "broken" ELSE result[r]
    BY <1>2 DEF DestroyMembers
  <2>4. \A r \in Requests : (IF result'[r] = "broken" THEN None ELSE result'[r])
                                = (IF result[r] = "broken" THEN None ELSE result[r])
    BY <2>2, <2>3
  <2>5. QED
    BY <2>1, <2>4 DEF Rpc!vars
<1>3. QED
  BY <1>1, <1>2

\* CppClient implements RpcCalls, as long as fewer requests are made than there are
\* message ids: whatever way the callers, the two threads, Start, Stop and the server
\* interleave, the future of Request gets the reply to that very request, once, after
\* the server produced it, although its promise is recorded only after the write.
THEOREM CppClientImplementsRpcCalls ==
    ASSUME NoWrap PROVE Spec => ImplementsRpcCalls
<1>1. Init => Rpc!Init
  <2> SUFFICES ASSUME Init PROVE Rpc!Init
    OBVIOUS
  <2>1. \A r \in Requests : pc[r] = "idle" /\ replies[r] = 0 /\ result[r] = None
    BY DEF Init, Calls
  <2>2. QED
    BY <2>1 DEF Rpc!Init
<1>2. Sound /\ Correlated /\ [Next]_vars => [Rpc!Next]_Rpc!vars
  <2> SUFFICES ASSUME Sound, Correlated, [Next]_vars PROVE [Rpc!Next]_Rpc!vars
    OBVIOUS
  <2>1. CASE \E r \in Requests : TakeId(r)
    BY <2>1, TakeIdIssues DEF Rpc!Next
  <2>2. CASE ServerReply
    BY <2>2, ServerReplyServes DEF Rpc!Next
  <2>3. CASE HandleResponse
    BY <2>3, ResponseResolves DEF Rpc!Next
  <2>4. CASE ~ (\E r \in Requests : TakeId(r)) /\ ~ServerReply /\ ~HandleResponse
    BY <2>4, OthersStutter
  <2>5. QED
    BY <2>1, <2>2, <2>3, <2>4
<1>3. QED
  BY <1>1, <1>2, CorrelatedAlways, PTL DEF Spec, ImplementsRpcCalls, Rpc!Spec
=============================================================================
