--------------------------- MODULE GoClientProofs ---------------------------
(***************************************************************************)
(* Proofs about GoClient, for every set of calls, every capacity and every *)
(* bound: its type invariant; what is found by its id, however often an id *)
(* is used (ById); that no message is lost while writeLoop runs; and, as   *)
(* long as fewer requests are made than there are message ids, that it     *)
(* implements RpcCalls.                                                    *)
(***************************************************************************)
EXTENDS GoClient, DataLemmas

\* A channel that gets its first message.
LEMMA FirstItem == \A x : Append(<<>>, x) = <<x>> /\ <<x>> # <<>>
<1> SUFFICES ASSUME NEW x PROVE Append(<<>>, x) = <<x>> /\ <<x>> # <<>>
  OBVIOUS
<1>1. <<>> \in Seq({x}) /\ <<x>> \in Seq({x})
  OBVIOUS
<1>2. Len(<<>>) = 0 /\ Len(<<x>>) = 1
  OBVIOUS
<1>3. Append(<<>>, x) \in Seq({x}) /\ Len(Append(<<>>, x)) = 1 /\ Append(<<>>, x)[1] = x
  BY <1>1, <1>2, AppendProperties
<1>4. Append(<<>>, x) = <<x>>
  BY <1>1, <1>2, <1>3, SeqEqual
<1>5. QED
  BY <1>2, <1>4

\* What a goroutine puts on sendCh is a message.
LEMMA MessagesOut ==
    ASSUME TypeOK
    PROVE  /\ \A r \in Requests : RequestMsg(r) \in Message
           /\ \A n \in Notifies \cup ReaderNotes : NotifyMsg(n) \in Message
<1>1. 0 \in Ids /\ \A r \in Requests : id[r] \in Ids
  BY ConstantsAssumption DEF Ids, TypeOK
<1>2. QED
  BY <1>1 DEF RequestMsg, NotifyMsg, Message, RequestMessage, NotifyMessage

-----------------------------------------------------------------------------
(* The type invariant                                                      *)

\* How often a request was answered is a number.
LEMMA ReplyCounts == TypeOK => \A r \in Requests : replies[r] \in Nat
<1> SUFFICES ASSUME TypeOK PROVE \A r \in Requests : replies[r] \in Nat
  OBVIOUS
<1>1. replies \in [Requests -> 0 .. 2]
  BY DEF TypeOK
<1>2. QED
  BY <1>1

LEMMA InitType == Init => TypeOK
<1> SUFFICES ASSUME Init PROVE TypeOK
  OBVIOUS
<1>1. \A S : <<>> \in Seq(S) /\ Len(<<>>) = 0
  BY EmptySeq
<1>2. 0 \in Ids
  BY ConstantsAssumption DEF Ids
<1>3. QED
  BY <1>1, <1>2, ConstantsAssumption
     DEF Init, TypeOK, CallStates, Calls, ReaderNotes

LEMMA StepType == TypeOK /\ [Next]_vars => TypeOK'
<1> SUFFICES ASSUME TypeOK, [Next]_vars PROVE TypeOK'
  OBVIOUS
<1> USE DEF TypeOK, CallStates, ReaderNotes
<1>1. ASSUME NEW r \in Requests, TakeId(r) PROVE TypeOK'
  <2>1. idSeq' \in Ids
    BY <1>1, ConstantsAssumption DEF TakeId, Ids
  <2>2. QED
    BY <1>1, <2>1 DEF TakeId, writeVars, readVars, serverVars, Calls
<1>2. ASSUME NEW r \in Requests, Register(r) PROVE TypeOK'
  BY <1>2 DEF Register, writeVars, readVars, serverVars, Calls
<1>3. ASSUME NEW r \in Requests, EnqueueRequest(r) PROVE TypeOK'
  <2>1. sendCh' \in Seq(Message) /\ Len(sendCh') <= SendCap
    BY <1>3, MessagesOut, QueueAppend, LenProperties, ConstantsAssumption
       DEF EnqueueRequest
  <2>2. QED
    BY <1>3, <2>1 DEF EnqueueRequest, writeVars, readVars, serverVars, Calls
<1>4. ASSUME NEW r \in Requests, Await(r) PROVE TypeOK'
  BY <1>4 DEF Await, writeVars, readVars, serverVars, Calls
<1>5. ASSUME NEW n \in Notifies, StartNotify(n) PROVE TypeOK'
  BY <1>5 DEF StartNotify, writeVars, readVars, serverVars, Calls
<1>6. ASSUME NEW n \in Notifies, EnqueueNotify(n) PROVE TypeOK'
  <2>1. sendCh' \in Seq(Message) /\ Len(sendCh') <= SendCap
    BY <1>6, MessagesOut, QueueAppend, LenProperties, ConstantsAssumption
       DEF EnqueueNotify
  <2>2. QED
    BY <1>6, <2>1 DEF EnqueueNotify, writeVars, readVars, serverVars, Calls
<1>7. ASSUME OnMessage PROVE TypeOK'
  BY <1>7 DEF OnMessage, callVars, writeVars, readVars, serverVars
<1>8. ASSUME Close PROVE TypeOK'
  BY <1>8 DEF Close, callVars, writeVars, readVars, serverVars
<1>9. ASSUME WriterTake PROVE TypeOK'
  <2>1. /\ Head(sendCh) \in Message
        /\ sendCh' \in Seq(Message)
        /\ Len(sendCh') <= SendCap
    BY <1>9, QueueTail, LenProperties, ConstantsAssumption DEF WriterTake
  <2>2. QED
    BY <1>9, <2>1 DEF WriterTake, callVars, readVars, serverVars
<1>10. ASSUME WriterWrite PROVE TypeOK'
  <2>1. toServer' \in Seq(Message) /\ Len(toServer') <= NetCap
    BY <1>10, QueueAppend, LenProperties, ConstantsAssumption DEF WriterWrite
  <2>2. QED
    BY <1>10, <2>1 DEF WriterWrite, callVars, readVars, serverVars
<1>11. ASSUME WriterFail PROVE TypeOK'
  BY <1>11 DEF WriterFail, callVars, readVars, serverVars
<1>12. ASSUME ReadPackets PROVE TypeOK'
  <2>1. PICK k \in 1 .. Len(toClient) :
           LET got == held \o SubSeq(toClient, 1, k) IN
           /\ toClient' = SubSeq(toClient, k + 1, Len(toClient))
           /\ \/ ~HasGarbage(got) /\ batch' = got /\ held' = <<>> /\ reader' = "dispatch"
              \/ held' = got /\ UNCHANGED <<batch, reader>>
    BY <1>12 DEF ReadPackets
  <2>2. /\ SubSeq(toClient, 1, k) \in Seq(Packet)
        /\ toClient' \in Seq(Packet)
        /\ Len(toClient') <= NetCap
    BY <2>1, QueueCut, LenProperties, ConstantsAssumption
  <2>3. held \o SubSeq(toClient, 1, k) \in Seq(Packet)
    BY <2>2, ConcatProperties
  <2>4. batch' \in Seq(Packet) /\ held' \in Seq(Packet)
    BY <2>1, <2>3, EmptySeq
  <2>5. reader' \in {"read", "dispatch", "exited"} \cup ReaderNotes
    BY <2>1
  <2>6. QED
    BY <1>12, <2>2, <2>4, <2>5
       DEF ReadPackets, callVars, writeVars, serverVars
<1>13. ASSUME ReadFail PROVE TypeOK'
  BY <1>13, EmptySeq DEF ReadFail, ReaderReturns, callVars, writeVars, serverVars
<1>14. ASSUME BatchDone PROVE TypeOK'
  BY <1>14 DEF BatchDone, callVars, writeVars, serverVars
<1>15. ASSUME HandleResponse PROVE TypeOK'
  <2> DEFINE m == Head(batch)
             r == pending[m.id]
  <2>1. batch # <<>> /\ m.kind = "response" /\ batch' = Tail(batch)
    BY <1>15 DEF HandleResponse, Dispatches
  <2>2. m \in Packet /\ batch' \in Seq(Packet)
    BY <2>1, QueueTail
  <2>3. m.id \in Ids /\ m.call \in Requests
    BY <2>1, <2>2 DEF Packet, ResponsePacket, OtherPacket, OtherKinds
  <2>4. pending' \in [Ids -> Requests \cup {None}]
    BY <1>15, <2>3 DEF HandleResponse
  <2>5. reply' \in [Requests -> Seq(Requests)]
    <3>1. CASE r = None
      BY <1>15, <3>1 DEF HandleResponse
    <3>2. CASE r # None
      <4>1. r \in Requests
        BY <2>3, <3>2
      <4>2. Append(reply[r], m.call) \in Seq(Requests)
        BY <2>3, <4>1, QueueAppend
      <4>3. QED
        BY <1>15, <3>2, <4>1, <4>2 DEF HandleResponse
    <3>3. QED
      BY <3>1, <3>2
  <2>6. QED
    BY <1>15, <2>2, <2>4, <2>5 DEF HandleResponse, writeVars, serverVars
<1>16. ASSUME HandleHeartbeat PROVE TypeOK'
  <2>1. batch' \in Seq(Packet)
    BY <1>16, QueueTail DEF HandleHeartbeat, Dispatches
  <2>2. QED
    BY <1>16, <2>1 DEF HandleHeartbeat, callVars, writeVars, serverVars
<1>17. ASSUME HandlePush PROVE TypeOK'
  <2>1. batch' \in Seq(Packet)
    BY <1>17, QueueTail DEF HandlePush, Dispatches
  <2>2. QED
    BY <1>17, <2>1 DEF HandlePush, callVars, writeVars, serverVars
<1>18. ASSUME ReaderNotify PROVE TypeOK'
  <2>1. sendCh' \in Seq(Message) /\ Len(sendCh') <= SendCap
    BY <1>18, MessagesOut, QueueAppend, LenProperties, ConstantsAssumption
       DEF ReaderNotify
  <2>2. QED
    BY <1>18, <2>1 DEF ReaderNotify, callVars, writeVars, serverVars
<1>19. ASSUME HandleFatal PROVE TypeOK'
  BY <1>19, EmptySeq DEF HandleFatal, ReaderReturns, callVars, writeVars, serverVars
<1>20. ASSUME HandleIgnored PROVE TypeOK'
  <2>1. batch' \in Seq(Packet)
    BY <1>20, QueueTail DEF HandleIgnored, Dispatches
  <2>2. QED
    BY <1>20, <2>1 DEF HandleIgnored, callVars, writeVars, serverVars
<1>21. ASSUME ServerRead PROVE TypeOK'
  <2>1. /\ Head(toServer) \in Message
        /\ toServer' \in Seq(Message)
        /\ Len(toServer') <= NetCap
    BY <1>21, QueueTail, LenProperties, ConstantsAssumption DEF ServerRead
  <2>2. received' \subseteq RequestMessage
    BY <1>21, <2>1 DEF ServerRead, Message, NotifyMessage
  <2>3. QED
    BY <1>21, <2>1, <2>2 DEF ServerRead, callVars, writeVars, readVars
<1>22. ASSUME ServerReply PROVE TypeOK'
  <2>1. PICK m \in received :
           /\ replies[m.call] < MaxReplies(m.call)
           /\ replies' = [replies EXCEPT ![m.call] = @ + 1]
           /\ toClient' = Append(toClient, ResponsePkt(m))
    BY <1>22 DEF ServerReply
  <2>2. m.call \in Requests /\ ResponsePkt(m) \in Packet
    BY <2>1 DEF RequestMessage, ResponsePkt, Packet, ResponsePacket
  <2>3. toClient' \in Seq(Packet) /\ Len(toClient') <= NetCap
    BY <1>22, <2>1, <2>2, QueueAppend, LenProperties, ConstantsAssumption
       DEF ServerReply
  <2>4. replies' \in [Requests -> 0 .. 2]
    <3>1. replies \in [Requests -> 0 .. 2]
      BY DEF TypeOK
    <3>2. replies[m.call] \in 0 .. 2 /\ MaxReplies(m.call) \in 1 .. 2
      BY <2>2, <3>1 DEF MaxReplies
    <3>3. replies[m.call] + 1 \in 0 .. 2
      BY <2>1, <3>2
    <3>4. QED
      BY <2>1, <2>2, <3>1, <3>3
  <2>5. QED
    BY <1>22, <2>3, <2>4, SMTT(20) DEF ServerReply, callVars, writeVars, readVars
<1>23. ASSUME ServerSend PROVE TypeOK'
  <2>1. PICK k \in OtherKinds : toClient' = Append(toClient, OtherPkt(k))
    BY <1>23 DEF ServerSend
  <2>2. OtherPkt(k) \in Packet
    BY DEF OtherPkt, Packet, OtherPacket
  <2>3. toClient' \in Seq(Packet) /\ Len(toClient') <= NetCap
    BY <1>23, <2>1, <2>2, QueueAppend, LenProperties, ConstantsAssumption
       DEF ServerSend
  <2>4. unsolicited' \in 0 .. MaxUnsolicited
    BY <1>23, ConstantsAssumption DEF ServerSend
  <2>5. QED
    BY <1>23, <2>3, <2>4 DEF ServerSend, callVars, writeVars, readVars
<1>24. ASSUME ServerGone PROVE TypeOK'
  BY <1>24 DEF ServerGone, callVars, writeVars, readVars
<1>25. ASSUME UNCHANGED vars PROVE TypeOK'
  BY <1>25 DEF vars, callVars, writeVars, readVars, serverVars
<1>26. QED
  BY <1>1, <1>2, <1>3, <1>4, <1>5, <1>6, <1>7, <1>8, <1>9, <1>10, <1>11, <1>12,
     <1>13, <1>14, <1>15, <1>16, <1>17, <1>18, <1>19, <1>20, <1>21, <1>22,
     <1>23, <1>24, <1>25
     DEF Next, Caller, WriteLoop, ReadLoop, Server

\* Type correctness, for every value of the constants: nothing that is not a
\* message gets on sendCh or on the wire, nothing that is not a request gets
\* into the pending table, and no buffer outgrows its capacity.
THEOREM TypeCorrect == Spec => []TypeOK
<1>1. QED
  BY InitType, StepType, PTL DEF Spec

-----------------------------------------------------------------------------
(* What writeLoop loses                                                    *)

\* The requests whose message was put on sendCh, and the messages of the calls that
\* put theirs on it.
OnTheirWay == {r \in Requests : pc[r] \in {"await", "done"}}
Made == {m \in Message : m.call \in Calls => pc[m.call] \in {"await", "done"}}

\* A step that neither puts a message on sendCh nor moves one.
LEMMA NothingMoves ==
    ASSUME TypeOK, NothingLostWhileWriting, UNCHANGED <<sendCh, writeVars, toServer, received>>,
           OnTheirWay' = OnTheirWay, \A r \in OnTheirWay : id'[r] = id[r]
    PROVE  NothingLostWhileWriting'
BY DEF NothingLostWhileWriting, OnTheirWay, RequestMsg, writeVars

LEMMA EnqueueLosesNothing ==
    ASSUME TypeOK, NothingLostWhileWriting,
           \/ \E r \in Requests : EnqueueRequest(r)
           \/ \E n \in Notifies : EnqueueNotify(n)
           \/ ReaderNotify
    PROVE  NothingLostWhileWriting'
<1>1. PICK m \in Message :
         /\ sendCh' = Append(sendCh, m)
         /\ \A r \in Requests : pc'[r] # pc[r] => m = RequestMsg(r)
         /\ UNCHANGED <<id, writeVars, toServer, received>>
  <2>1. ASSUME NEW r \in Requests, EnqueueRequest(r)
        PROVE  /\ sendCh' = Append(sendCh, RequestMsg(r))
               /\ \A q \in Requests : pc'[q] # pc[q] => q = r
               /\ UNCHANGED <<id, writeVars, toServer, received>>
    BY <2>1 DEF EnqueueRequest, TypeOK, Calls, serverVars
  <2>2. ASSUME NEW n \in Notifies, EnqueueNotify(n)
        PROVE  /\ sendCh' = Append(sendCh, NotifyMsg(n))
               /\ \A q \in Requests : pc'[q] = pc[q]
               /\ UNCHANGED <<id, writeVars, toServer, received>>
    BY <2>2, ConstantsAssumption DEF EnqueueNotify, TypeOK, Calls, serverVars
  <2>3. CASE ReaderNotify
    BY <2>3, MessagesOut DEF ReaderNotify, callVars, serverVars
  <2>4. QED
    BY <2>1, <2>2, <2>3, MessagesOut
<1>2. sendCh \in Seq(Message)
  BY DEF TypeOK
<1>3. \A y : (\E i \in DOMAIN sendCh : sendCh[i] = y) \/ y = m =>
          \E i \in DOMAIN sendCh' : sendCh'[i] = y
  BY <1>1, <1>2, InAppend
<1>4. \A r \in Requests : RequestMsg(r)' = RequestMsg(r)
  BY <1>1 DEF RequestMsg
<1>5. SUFFICES ASSUME NEW r \in Requests, pc'[r] \in {"await", "done"}, writer' # "exited"
               PROVE  \/ \E i \in DOMAIN sendCh' : sendCh'[i] = RequestMsg(r)
                      \/ \E i \in DOMAIN toServer' : toServer'[i] = RequestMsg(r)
                      \/ writer' = "write" /\ task' = RequestMsg(r)
                      \/ RequestMsg(r) \in received'
  BY <1>4 DEF NothingLostWhileWriting
<1>6. CASE pc'[r] # pc[r]
  BY <1>1, <1>3, <1>6
<1>7. CASE pc'[r] = pc[r]
  BY <1>1, <1>3, <1>5, <1>7 DEF NothingLostWhileWriting, writeVars
<1>8. QED
  BY <1>6, <1>7

LEMMA WriterLosesNothing ==
    ASSUME TypeOK, NothingLostWhileWriting, WriteLoop
    PROVE  NothingLostWhileWriting'
<1> USE DEF serverVars
<1>1. UNCHANGED <<pc, id, received>> /\ \A r : RequestMsg(r)' = RequestMsg(r)
  BY DEF WriteLoop, WriterTake, WriterWrite, WriterFail, callVars, RequestMsg
<1>2. CASE WriterTake
  <2>1. sendCh # <<>> /\ sendCh \in Seq(Message)
    BY <1>2 DEF WriterTake, TypeOK
  <2>2. \A y : (\E i \in DOMAIN sendCh : sendCh[i] = y) =>
             y = Head(sendCh) \/ \E i \in DOMAIN Tail(sendCh) : Tail(sendCh)[i] = y
    BY <2>1, InTail
  <2>3. /\ writer = "select" /\ sendCh' = Tail(sendCh) /\ toServer' = toServer
        /\ writer' = "exited" \/ (writer' = "write" /\ task' = Head(sendCh))
    BY <1>2 DEF WriterTake
  <2>4. QED
    BY <1>1, <2>2, <2>3 DEF NothingLostWhileWriting
<1>3. CASE WriterWrite
  <2>1. task \in Message /\ toServer \in Seq(Message) /\ toServer' = Append(toServer, task)
    BY <1>3 DEF WriterWrite, TypeOK
  <2>2. \A y : (\E i \in DOMAIN toServer : toServer[i] = y) \/ y = task =>
             \E i \in DOMAIN toServer' : toServer'[i] = y
    BY <2>1, InAppend
  <2>3. sendCh' = sendCh /\ writer = "write"
    BY <1>3 DEF WriterWrite
  <2>4. QED
    BY <1>1, <2>2, <2>3 DEF NothingLostWhileWriting
<1>4. CASE WriterFail
  BY <1>4 DEF WriterFail, NothingLostWhileWriting
<1>5. QED
  BY <1>2, <1>3, <1>4 DEF WriteLoop

LEMMA ServerReadLosesNothing ==
    ASSUME TypeOK, NothingLostWhileWriting, ServerRead
    PROVE  NothingLostWhileWriting'
<1>1. /\ UNCHANGED <<pc, id, sendCh, writer, task>> /\ \A r : RequestMsg(r)' = RequestMsg(r)
      /\ received \subseteq received'
      /\ Head(toServer).type = "request" => Head(toServer) \in received'
      /\ toServer # <<>> /\ toServer' = Tail(toServer)
  BY DEF ServerRead, callVars, writeVars, RequestMsg
<1>2. toServer \in Seq(Message)
  BY DEF TypeOK
<1>3. \A y : (\E i \in DOMAIN toServer : toServer[i] = y) =>
           y = Head(toServer) \/ \E i \in DOMAIN toServer' : toServer'[i] = y
  BY <1>1, <1>2, InTail
<1>4. \A r : RequestMsg(r).type = "request"
  BY DEF RequestMsg
<1>5. ASSUME NEW r \in Requests, \E i \in DOMAIN toServer : toServer[i] = RequestMsg(r)
      PROVE  \/ \E i \in DOMAIN toServer' : toServer'[i] = RequestMsg(r)
             \/ RequestMsg(r) \in received'
  <2>1. \/ RequestMsg(r) = Head(toServer)
        \/ \E i \in DOMAIN toServer' : toServer'[i] = RequestMsg(r)
    BY <1>3, <1>5
  <2>2. QED
    BY <1>1, <1>4, <2>1
<1>6. ASSUME NEW r \in Requests, pc'[r] \in {"await", "done"}, writer' # "exited"
      PROVE  \/ \E i \in DOMAIN sendCh : sendCh[i] = RequestMsg(r)
             \/ \E i \in DOMAIN toServer' : toServer'[i] = RequestMsg(r)
             \/ writer = "write" /\ task = RequestMsg(r)
             \/ RequestMsg(r) \in received'
  BY <1>1, <1>5, <1>6 DEF NothingLostWhileWriting
<1>7. QED
  BY <1>1, <1>6 DEF NothingLostWhileWriting

LEMMA StepLosesNothing ==
    TypeOK /\ NothingLostWhileWriting /\ [Next]_vars => NothingLostWhileWriting'
<1> SUFFICES ASSUME TypeOK, NothingLostWhileWriting, [Next]_vars PROVE NothingLostWhileWriting'
  OBVIOUS
<1>1. ASSUME NEW r \in Requests, TakeId(r) \/ Register(r) \/ Await(r)
      PROVE  NothingLostWhileWriting'
  <2>1. UNCHANGED <<sendCh, writeVars, toServer, received>>
    BY <1>1 DEF TakeId, Register, Await, serverVars
  <2>2. OnTheirWay' = OnTheirWay /\ \A q \in OnTheirWay : id'[q] = id[q]
    BY <1>1 DEF TakeId, Register, Await, OnTheirWay, TypeOK, Calls
  <2>3. QED
    BY <2>1, <2>2, NothingMoves
<1>2. ASSUME NEW n \in Notifies, StartNotify(n) PROVE NothingLostWhileWriting'
  <2>1. UNCHANGED <<sendCh, writeVars, toServer, received, id>>
    BY <1>2 DEF StartNotify, serverVars
  <2>2. OnTheirWay' = OnTheirWay
    BY <1>2, ConstantsAssumption DEF StartNotify, OnTheirWay, TypeOK, Calls
  <2>3. QED
    BY <2>1, <2>2, NothingMoves
<1>3. CASE \/ OnMessage \/ Close \/ ServerReply \/ ServerSend \/ ServerGone \/ UNCHANGED vars
           \/ (ReadLoop /\ ~ReaderNotify)
  <2>1. UNCHANGED <<sendCh, writeVars, toServer, received, id, pc>>
    BY <1>3 DEF OnMessage, Close, ServerReply, ServerSend, ServerGone, ReadLoop, ReadPackets,
                ReadFail, BatchDone, HandleResponse, HandleHeartbeat, HandlePush, HandleFatal,
                HandleIgnored, vars, callVars, serverVars
  <2>2. OnTheirWay' = OnTheirWay
    BY <2>1 DEF OnTheirWay
  <2>3. QED
    BY <2>1, <2>2, NothingMoves
<1>4. QED
  BY <1>1, <1>2, <1>3, EnqueueLosesNothing, WriterLosesNothing, ServerReadLosesNothing
     DEF Next, Caller, ReadLoop, Server

\* While writeLoop runs no request it was given is lost, however many there are: not
\* even the wrap of idSeq makes one disappear on its way to the server.
THEOREM NothingLostAlways == Spec => []NothingLostWhileWriting
<1>1. Init => NothingLostWhileWriting
  BY DEF Init, NothingLostWhileWriting, Calls
<1>2. QED
  BY <1>1, StepLosesNothing, TypeCorrect, PTL DEF Spec

\* Behind MuteOnlyByOversize: only the messages of calls that were made are on sendCh.
MuteInv == sendCh \in Seq(Made) /\ MuteOnlyByOversize

LEMMA StepMute == TypeOK /\ MuteInv /\ [Next]_vars => MuteInv'
<1> SUFFICES ASSUME TypeOK, MuteInv, [Next]_vars PROVE MuteInv'
  OBVIOUS
<1> USE ConstantsAssumption DEF serverVars
<1>1. \A c \in Calls : pc[c] \in {"await", "done"} => pc'[c] \in {"await", "done"}
  <2>1. CASE pc' = pc
    BY <2>1
  <2>2. CASE Caller
    BY <2>2, SMTT(20)
       DEF Caller, TakeId, Register, EnqueueRequest, Await, StartNotify, EnqueueNotify,
           OnMessage, Close, TypeOK, Calls, callVars
  <2>3. QED
    BY <2>1, <2>2 DEF Next, WriteLoop, WriterTake, WriterWrite, WriterFail, ReadLoop,
          ReadPackets, ReadFail, BatchDone, HandleResponse, HandleHeartbeat, HandlePush,
          ReaderNotify, HandleFatal, HandleIgnored, Server, ServerRead, ServerReply,
          ServerSend, ServerGone, vars, callVars
<1>2. Made \subseteq Made'
  BY <1>1 DEF Made
<1>3. sendCh \in Seq(Made')
  BY <1>2, SeqMonotonic DEF MuteInv
<1>4. sendCh' \in Seq(Made')
  <2>1. ASSUME NEW r \in Requests, EnqueueRequest(r) PROVE sendCh' \in Seq(Made')
    <3>1. RequestMsg(r) \in Made'
      BY <2>1, MessagesOut DEF EnqueueRequest, Made, RequestMsg, TypeOK, Calls
    <3>2. QED
      BY <1>3, <2>1, <3>1, QueueAppend DEF EnqueueRequest
  <2>2. ASSUME NEW n \in Notifies, EnqueueNotify(n) PROVE sendCh' \in Seq(Made')
    <3>1. NotifyMsg(n) \in Made'
      BY <2>2, MessagesOut DEF EnqueueNotify, Made, NotifyMsg, TypeOK, Calls
    <3>2. QED
      BY <1>3, <2>2, <3>1, QueueAppend DEF EnqueueNotify
  <2>3. CASE ReaderNotify
    <3>1. NotifyMsg(reader) \in Made'
      BY <2>3, MessagesOut DEF ReaderNotify, ReaderNotes, Made, NotifyMsg, Calls
    <3>2. QED
      BY <1>3, <2>3, <3>1, QueueAppend DEF ReaderNotify
  <2>4. CASE WriterTake
    BY <1>3, <2>4, QueueTail DEF WriterTake
  <2>5. CASE sendCh' = sendCh
    BY <1>3, <2>5
  <2>6. QED
    BY <2>1, <2>2, <2>3, <2>4, <2>5
       DEF Next, Caller, TakeId, Register, Await, StartNotify, OnMessage, Close, WriteLoop,
           WriterWrite, WriterFail, ReadLoop, ReadPackets, ReadFail, BatchDone,
           HandleResponse, HandleHeartbeat, HandlePush, HandleFatal, HandleIgnored, Server,
           ServerRead, ServerReply, ServerSend, ServerGone, vars
<1>5. MuteOnlyByOversize'
  <2> SUFFICES ASSUME writer' = "exited", conn' = "open", peer' = "up"
               PROVE  \E c \in Oversize : pc'[c] \in {"await", "done"}
    BY DEF MuteOnlyByOversize
  <2>1. conn = "open" /\ peer = "up"
    BY SMTT(20) DEF Next, Caller, TakeId, Register, EnqueueRequest, Await, StartNotify, EnqueueNotify,
           OnMessage, Close, WriteLoop, WriterTake, WriterWrite, WriterFail, ReadLoop,
           ReadPackets, ReadFail, ReaderReturns, BatchDone, HandleResponse, HandleHeartbeat,
           HandlePush, ReaderNotify, HandleFatal, HandleIgnored, Server, ServerRead,
           ServerReply, ServerSend, ServerGone, vars, TypeOK
  <2>2. CASE writer = "exited"
    BY <1>1, <2>1, <2>2 DEF MuteInv, MuteOnlyByOversize, Calls
  <2>3. CASE WriterTake
    <3>1. Head(sendCh).call \in Oversize
      BY <2>3 DEF WriterTake
    <3>2. Head(sendCh) \in Made'
      BY <1>3, <2>3, QueueTail DEF WriterTake
    <3>3. QED
      BY <3>1, <3>2 DEF Made, Calls
  <2>4. CASE WriterFail
    BY <2>1, <2>4 DEF WriterFail
  <2>5. CASE writer # "exited" /\ ~WriterTake /\ ~WriterFail
    BY <2>5 DEF Next, Caller, TakeId, Register, EnqueueRequest, Await, StartNotify,
           EnqueueNotify, OnMessage, Close, WriteLoop, WriterWrite, ReadLoop, ReadPackets,
           ReadFail, BatchDone, HandleResponse, HandleHeartbeat, HandlePush, ReaderNotify,
           HandleFatal, HandleIgnored, Server, ServerRead, ServerReply, ServerSend,
           ServerGone, vars, writeVars
  <2>6. QED
    BY <2>2, <2>3, <2>4, <2>5
<1>6. QED
  BY <1>4, <1>5 DEF MuteInv

\* A client that looks connected and sends nothing any more met a message larger than
\* MaxPacketSize: there is no other way to that state.
THEOREM MuteOnlyByOversizeAlways == Spec => []MuteOnlyByOversize
<1>1. Init => MuteInv
  BY EmptySeq DEF Init, MuteInv, MuteOnlyByOversize
<1>2. MuteInv => MuteOnlyByOversize
  BY DEF MuteInv
<1>3. QED
  BY <1>1, <1>2, StepMute, TypeCorrect, PTL DEF Spec

-----------------------------------------------------------------------------
(* The correlation of replies with requests                                *)

\* What is faithful stays faithful when requests only advance, keep their ids,
\* and the server only answers more.
LEMMA FaithfulGrows ==
    ASSUME Sent \subseteq Sent',
           \A r \in Sent : id'[r] = id[r],
           \A r \in Sent : replies[r] > 0 => replies'[r] > 0
    PROVE  GoodMessages \subseteq GoodMessages' /\ GoodPackets \subseteq GoodPackets'
<1>1. GoodMessages \subseteq GoodMessages'
  BY DEF GoodMessages, Message, RequestMessage, NotifyMessage
<1>2. GoodResponses \subseteq GoodResponses'
  BY DEF GoodResponses, ResponsePacket
<1>3. QED
  BY <1>1, <1>2 DEF GoodPackets

\* The queues of the wire, left alone while the faithful sets grow.
LEMMA WireKept ==
    ASSUME WireFaithful,
           GoodMessages \subseteq GoodMessages', GoodPackets \subseteq GoodPackets'
    PROVE  /\ sendCh' = sendCh => sendCh' \in Seq(GoodMessages')
           /\ writer' = writer /\ task' = task =>
                 (writer' = "write" => task' \in GoodMessages')
           /\ toServer' = toServer => toServer' \in Seq(GoodMessages')
           /\ received' = received => received' \subseteq GoodMessages'
           /\ toClient' = toClient => toClient' \in Seq(GoodPackets')
           /\ held' = held => held' \in Seq(GoodPackets')
           /\ batch' = batch => batch' \in Seq(GoodPackets')
BY SeqMonotonic DEF WireFaithful

\* A step of writeLoop, of readLoop before it looks at a response, of the server
\* or of the application's Close changes nothing about the calls.
LEMMA CallsKept ==
    ASSUME ById, UNCHANGED callVars,
           \A r \in Requests : replies[r] > 0 => replies'[r] > 0
    PROVE  /\ PendingFaithful' /\ RepliesById' /\ PendingOrDisplaced'
           /\ GoodMessages \subseteq GoodMessages' /\ GoodPackets \subseteq GoodPackets'
<1> USE DEF callVars
<1>1. Registered' = Registered /\ Sent' = Sent
  BY DEF Registered, Sent
<1>2. PendingFaithful'
  BY <1>1 DEF ById, PendingFaithful
<1>3. RepliesById'
  <2> SUFFICES ASSUME NEW r \in Requests, reply[r] # <<>>
               PROVE  /\ r \in Registered
                      /\ \E q \in Sent : reply[r] = <<q>> /\ id[q] = id[r] /\ replies'[q] > 0
    BY <1>1 DEF RepliesById
  <2>1. /\ r \in Registered
        /\ \E q \in Sent : reply[r] = <<q>> /\ id[q] = id[r] /\ replies[q] > 0
    BY DEF ById, RepliesById
  <2>2. QED
    BY <2>1 DEF Sent
<1>4. PendingOrDisplaced'
  BY <1>1 DEF ById, PendingOrDisplaced
<1>5. GoodMessages \subseteq GoodMessages' /\ GoodPackets \subseteq GoodPackets'
  BY <1>1, FaithfulGrows DEF Sent
<1>6. QED
  BY <1>2, <1>3, <1>4, <1>5

\* A notification is faithful: it bears nobody's id.
LEMMA NotesFaithful == \A n \in Notifies \cup ReaderNotes : NotifyMsg(n) \in GoodMessages
<1>1. 0 \in Ids
  BY ConstantsAssumption DEF Ids
<1>2. QED
  BY <1>1 DEF NotifyMsg, GoodMessages, Message, NotifyMessage

LEMMA InitById == Init => ById
<1> SUFFICES ASSUME Init PROVE ById
  OBVIOUS
<1>1. TypeOK
  BY InitType
<1>2. WireFaithful
  BY EmptySeq DEF Init, WireFaithful
<1>3. PendingFaithful /\ RepliesById
  BY DEF Init, PendingFaithful, RepliesById
<1>4. PendingOrDisplaced
  BY DEF Init, PendingOrDisplaced, Registered, Calls
<1>5. QED
  BY <1>1, <1>2, <1>3, <1>4 DEF ById

\* Drawing an id: nothing bears it on this request's account yet.
LEMMA TakeIdById ==
    ASSUME ById, NEW r \in Requests, TakeId(r)
    PROVE  ById'
<1> USE DEF ById
<1>1. TypeOK'
  BY StepType DEF Next, Caller
<1>2. /\ r \notin Registered /\ Registered' = Registered /\ Sent' = Sent
      /\ \A q \in Registered : id'[q] = id[q]
      /\ Sent \subseteq Registered /\ Registered \subseteq Requests
  BY DEF TakeId, Registered, Sent, TypeOK, Calls
<1>3. UNCHANGED <<pending, reply, replies>>
  BY DEF TakeId, serverVars
<1>4. GoodMessages \subseteq GoodMessages' /\ GoodPackets \subseteq GoodPackets'
  BY <1>2, <1>3, FaithfulGrows
<1>5. WireFaithful'
  BY <1>4, WireKept DEF WireFaithful, TakeId, writeVars, readVars, serverVars
<1>6. PendingFaithful'
  BY <1>2, <1>3 DEF PendingFaithful
<1>7. RepliesById'
  <2> SUFFICES ASSUME NEW q \in Requests, reply[q] # <<>>
               PROVE  /\ q \in Registered
                      /\ \E p \in Sent : reply[q] = <<p>> /\ id'[p] = id'[q] /\ replies[p] > 0
    BY <1>2, <1>3 DEF RepliesById
  <2>1. /\ q \in Registered
        /\ \E p \in Sent : reply[q] = <<p>> /\ id[p] = id[q] /\ replies[p] > 0
    BY DEF RepliesById
  <2>2. QED
    BY <1>2, <2>1
<1>8. PendingOrDisplaced'
  <2> SUFFICES ASSUME NEW q \in Registered, reply[q] = <<>>
               PROVE  pending[id'[q]] = q \/ \E p \in Registered \ {q} : id'[p] = id'[q]
    BY <1>2, <1>3 DEF PendingOrDisplaced
  <2>1. pending[id[q]] = q \/ \E p \in Registered \ {q} : id[p] = id[q]
    BY DEF PendingOrDisplaced
  <2>2. QED
    BY <1>2, <2>1
<1>9. QED
  BY <1>1, <1>5, <1>6, <1>7, <1>8

\* Registering evicts nobody but a request with the same id.
LEMMA RegisterById ==
    ASSUME ById, NEW r \in Requests, Register(r)
    PROVE  ById'
<1> USE DEF ById
<1>1. TypeOK'
  BY StepType DEF Next, Caller
<1>2. /\ r \notin Registered /\ Registered' = Registered \cup {r} /\ Sent' = Sent
      /\ Registered \subseteq Requests
  BY DEF Register, Registered, Sent, TypeOK, Calls
<1>3. /\ UNCHANGED <<id, reply, replies>>
      /\ \A i \in Ids : pending'[i] = IF i = id[r] THEN r ELSE pending[i]
      /\ \A q \in Requests : id[q] \in Ids
  BY DEF Register, serverVars, TypeOK
<1>4. GoodMessages \subseteq GoodMessages' /\ GoodPackets \subseteq GoodPackets'
  BY <1>2, <1>3, FaithfulGrows
<1>5. WireFaithful'
  BY <1>4, WireKept DEF WireFaithful, Register, writeVars, readVars, serverVars
<1>6. reply[r] = <<>>
  BY <1>2 DEF RepliesById
<1>7. PendingFaithful'
  BY <1>2, <1>3, <1>6 DEF PendingFaithful
<1>8. RepliesById'
  BY <1>2, <1>3 DEF RepliesById
<1>9. PendingOrDisplaced'
  <2> SUFFICES ASSUME NEW q \in Registered \cup {r}, reply[q] = <<>>
               PROVE  \/ pending'[id[q]] = q
                      \/ \E p \in (Registered \cup {r}) \ {q} : id[p] = id[q]
    BY <1>2, <1>3 DEF PendingOrDisplaced
  <2>1. CASE q = r
    BY <1>3, <2>1
  <2>2. CASE q # r
    <3>1. pending[id[q]] = q \/ \E p \in Registered \ {q} : id[p] = id[q]
      BY <2>2 DEF PendingOrDisplaced
    <3>2. CASE id[q] = id[r]
      BY <2>2, <3>2
    <3>3. CASE id[q] # id[r]
      BY <1>2, <1>3, <3>1, <3>3
    <3>4. QED
      BY <3>2, <3>3
  <2>3. QED
    BY <2>1, <2>2
<1>10. QED
  BY <1>1, <1>5, <1>7, <1>8, <1>9

LEMMA EnqueueById ==
    ASSUME ById, NEW r \in Requests, EnqueueRequest(r)
    PROVE  ById'
<1> USE DEF ById
<1>1. TypeOK'
  BY StepType DEF Next, Caller
<1>2. Registered' = Registered /\ Sent' = Sent \cup {r}
  BY DEF EnqueueRequest, Registered, Sent, TypeOK, Calls
<1>3. UNCHANGED <<id, pending, reply, replies>>
  BY DEF EnqueueRequest, serverVars
<1>4. GoodMessages \subseteq GoodMessages' /\ GoodPackets \subseteq GoodPackets'
  BY <1>2, <1>3, FaithfulGrows
<1>5. sendCh' \in Seq(GoodMessages')
  <2>1. RequestMsg(r) \in GoodMessages'
    <3>1. RequestMsg(r) \in Message /\ RequestMsg(r).call = r /\ RequestMsg(r).id = id'[r]
      BY <1>3, MessagesOut DEF RequestMsg
    <3>2. QED
      BY <1>2, <3>1 DEF GoodMessages, Message, RequestMessage, NotifyMessage
  <2>2. sendCh' = Append(sendCh, RequestMsg(r))
    BY DEF EnqueueRequest
  <2>3. sendCh \in Seq(GoodMessages')
    BY <1>4, SeqMonotonic DEF WireFaithful
  <2>4. QED
    BY <2>1, <2>2, <2>3, QueueAppend
<1>6. WireFaithful'
  BY <1>4, <1>5, WireKept
     DEF WireFaithful, EnqueueRequest, writeVars, readVars, serverVars
<1>7. PendingFaithful' /\ RepliesById' /\ PendingOrDisplaced'
  BY <1>2, <1>3 DEF PendingFaithful, RepliesById, PendingOrDisplaced
<1>8. QED
  BY <1>1, <1>6, <1>7

\* The steps of the callers that change neither an id nor the pending table.
LEMMA CallerById ==
    ASSUME ById,
           \/ \E r \in Requests : Await(r)
           \/ \E n \in Notifies : StartNotify(n) \/ EnqueueNotify(n)
    PROVE  ById'
<1> USE DEF ById
<1>1. TypeOK'
  BY StepType DEF Next, Caller
<1>2. UNCHANGED <<idSeq, id, pending, reply>> /\ UNCHANGED <<writeVars, readVars, toServer,
                                                          toClient, serverVars>>
  BY DEF Await, StartNotify, EnqueueNotify
<1>3. Registered' = Registered /\ Sent' = Sent
  <2>1. \A r \in Requests : pc'[r] = pc[r] \/ (pc[r] = "await" /\ pc'[r] = "done")
    BY ConstantsAssumption DEF Await, StartNotify, EnqueueNotify, TypeOK, Calls
  <2>2. QED
    BY <2>1 DEF Registered, Sent
<1>4. GoodMessages \subseteq GoodMessages' /\ GoodPackets \subseteq GoodPackets'
  BY <1>2, <1>3, FaithfulGrows DEF serverVars
<1>5. sendCh' \in Seq(GoodMessages')
  <2>1. CASE sendCh' = sendCh
    BY <1>4, <2>1, WireKept
  <2>2. CASE \E n \in Notifies : EnqueueNotify(n)
    <3>1. PICK n \in Notifies : sendCh' = Append(sendCh, NotifyMsg(n))
      BY <2>2 DEF EnqueueNotify
    <3>2. QED
      BY <1>4, <3>1, NotesFaithful, QueueAppend, SeqMonotonic DEF WireFaithful
  <2>3. QED
    BY <2>1, <2>2 DEF Await, StartNotify
<1>6. WireFaithful'
  BY <1>2, <1>4, <1>5, WireKept DEF WireFaithful, writeVars, readVars, serverVars
<1>7. PendingFaithful' /\ RepliesById' /\ PendingOrDisplaced'
  BY <1>2, <1>3 DEF PendingFaithful, RepliesById, PendingOrDisplaced, serverVars
<1>8. QED
  BY <1>1, <1>6, <1>7

\* The heart of the matter: the entry a response finds under its id is a request
\* with the id of the one the response was computed for, and has no reply yet.
LEMMA HandleResponseById ==
    ASSUME ById, HandleResponse
    PROVE  ById'
<1> USE DEF ById
<1> DEFINE m == Head(batch)
           r == pending[m.id]
<1>1. TypeOK'
  BY StepType DEF Next, ReadLoop
<1>2. batch # <<>> /\ m.kind = "response" /\ batch' = Tail(batch)
  BY DEF HandleResponse, Dispatches
<1>3. m \in GoodResponses /\ Tail(batch) \in Seq(GoodPackets)
  <2>1. m \in GoodPackets /\ Tail(batch) \in Seq(GoodPackets)
    BY <1>2, QueueTail DEF WireFaithful
  <2>2. QED
    BY <1>2, <2>1 DEF GoodPackets, OtherPacket, OtherKinds
<1>4. /\ m.id \in Ids /\ m.call \in Requests
      /\ m.call \in Sent /\ m.id = id[m.call] /\ replies[m.call] > 0
  BY <1>3 DEF GoodResponses, ResponsePacket
<1>5. r # None => r \in Registered /\ r \in Requests /\ id[r] = m.id /\ reply[r] = <<>>
  BY <1>4 DEF PendingFaithful, TypeOK
<1>6. /\ UNCHANGED <<pc, id, replies>> /\ Registered' = Registered /\ Sent' = Sent
      /\ Registered \subseteq Requests
  BY DEF HandleResponse, serverVars, Registered, Sent
<1>7. /\ \A i \in Ids : pending'[i] = IF i = m.id THEN None ELSE pending[i]
      /\ \A q \in Requests : reply'[q] = IF q = r THEN <<m.call>> ELSE reply[q]
  <2>1. pending' = [pending EXCEPT ![m.id] = None]
    BY DEF HandleResponse
  <2>2. CASE r = None
    BY <2>1, <2>2, ConstantsAssumption DEF HandleResponse, TypeOK
  <2>3. CASE r # None
    <3>1. reply' = [reply EXCEPT ![r] = Append(reply[r], m.call)]
      BY <2>3 DEF HandleResponse
    <3>2. Append(reply[r], m.call) = <<m.call>>
      BY <1>5, <2>3, FirstItem
    <3>3. QED
      BY <2>1, <3>1, <3>2 DEF TypeOK
  <2>4. QED
    BY <2>2, <2>3
<1>8. <<m.call>> # <<>>
  BY FirstItem
<1>9. WireFaithful'
  <2>1. GoodMessages \subseteq GoodMessages' /\ GoodPackets \subseteq GoodPackets'
    BY <1>6, FaithfulGrows
  <2>2. batch' \in Seq(GoodPackets')
    BY <1>2, <1>3, <2>1, SeqMonotonic
  <2>3. QED
    BY <2>1, <2>2, WireKept DEF WireFaithful, HandleResponse, writeVars, serverVars
<1>10. PendingFaithful'
  <2> SUFFICES ASSUME NEW i \in Ids, pending'[i] # None
               PROVE  /\ pending'[i] \in Registered
                      /\ id[pending'[i]] = i
                      /\ reply'[pending'[i]] = <<>>
    BY <1>6 DEF PendingFaithful
  <2>1. i # m.id /\ pending'[i] = pending[i]
    BY <1>7
  <2>2. /\ pending[i] \in Registered
        /\ id[pending[i]] = i
        /\ reply[pending[i]] = <<>>
    BY <2>1 DEF PendingFaithful
  <2>3. pending[i] # r
    BY <1>5, <2>1, <2>2
  <2>4. QED
    BY <1>6, <1>7, <2>1, <2>2, <2>3
<1>11. RepliesById'
  <2> SUFFICES ASSUME NEW q \in Requests, reply'[q] # <<>>
               PROVE  /\ q \in Registered
                      /\ \E p \in Sent : reply'[q] = <<p>> /\ id[p] = id[q] /\ replies[p] > 0
    BY <1>6 DEF RepliesById
  <2>1. CASE q = r
    BY <1>4, <1>5, <1>7, <2>1, ConstantsAssumption
  <2>2. CASE q # r
    BY <1>7, <2>2 DEF RepliesById
  <2>3. QED
    BY <2>1, <2>2
<1>12. PendingOrDisplaced'
  <2> SUFFICES ASSUME NEW q \in Registered, reply'[q] = <<>>
               PROVE  pending'[id[q]] = q \/ \E p \in Registered \ {q} : id[p] = id[q]
    BY <1>6 DEF PendingOrDisplaced
  <2>1. q # r /\ reply[q] = <<>> /\ id[q] \in Ids
    BY <1>6, <1>7, <1>8 DEF TypeOK
  <2>2. pending[id[q]] = q \/ \E p \in Registered \ {q} : id[p] = id[q]
    BY <2>1 DEF PendingOrDisplaced
  <2>3. QED
    BY <1>7, <2>1, <2>2
<1>13. QED
  BY <1>1, <1>9, <1>10, <1>11, <1>12

-----------------------------------------------------------------------------
(* The steps that move messages and packets without looking at the calls.  *)

\* OnMessage, Close and writeLoop.
LEMMA WriterById ==
    ASSUME ById, OnMessage \/ Close \/ WriteLoop
    PROVE  ById'
<1> USE DEF ById, writeVars, readVars, serverVars
<1>1. TypeOK'
  BY StepType DEF Next, Caller
<1>2. UNCHANGED callVars /\ replies' = replies
  BY DEF OnMessage, Close, WriteLoop, WriterTake, WriterWrite, WriterFail
<1>3. /\ PendingFaithful' /\ RepliesById' /\ PendingOrDisplaced'
      /\ GoodMessages \subseteq GoodMessages' /\ GoodPackets \subseteq GoodPackets'
  BY <1>2, CallsKept
<1>4. WireFaithful'
  <2>1. CASE OnMessage \/ Close
    BY <1>3, <2>1, WireKept DEF WireFaithful, OnMessage, Close
  <2>2. CASE WriterTake
    <3>1. sendCh # <<>> /\ sendCh' = Tail(sendCh)
      BY <2>2 DEF WriterTake
    <3>2. Head(sendCh) \in GoodMessages /\ Tail(sendCh) \in Seq(GoodMessages)
      BY <3>1, QueueTail DEF WireFaithful
    <3>3. sendCh' \in Seq(GoodMessages') /\ (writer' = "write" => task' \in GoodMessages')
      BY <1>3, <2>2, <3>1, <3>2, SeqMonotonic DEF WriterTake
    <3>4. QED
      BY <1>3, <2>2, <3>3, WireKept DEF WireFaithful, WriterTake
  <2>3. CASE WriterWrite
    <3>1. toServer' \in Seq(GoodMessages)
      BY <2>3, QueueAppend DEF WriterWrite, WireFaithful
    <3>2. toServer' \in Seq(GoodMessages')
      BY <1>3, <3>1, SeqMonotonic
    <3>3. QED
      BY <1>3, <2>3, <3>2, WireKept DEF WireFaithful, WriterWrite
  <2>4. CASE WriterFail
    BY <1>3, <2>4, WireKept DEF WireFaithful, WriterFail
  <2>5. QED
    BY <2>1, <2>2, <2>3, <2>4 DEF WriteLoop
<1>5. QED
  BY <1>1, <1>3, <1>4

\* The steps of readLoop that are not about a response.
LEMMA ReaderById ==
    ASSUME ById,
           \/ ReadPackets \/ ReadFail \/ BatchDone \/ HandleHeartbeat \/ HandlePush
           \/ ReaderNotify \/ HandleFatal \/ HandleIgnored
    PROVE  ById'
<1> USE DEF ById, writeVars, readVars, serverVars
<1>1. TypeOK'
  BY StepType DEF Next, ReadLoop
<1>2. UNCHANGED callVars /\ replies' = replies
  BY DEF ReadPackets, ReadFail, BatchDone, HandleHeartbeat, HandlePush, ReaderNotify,
         HandleFatal, HandleIgnored
<1>3. /\ PendingFaithful' /\ RepliesById' /\ PendingOrDisplaced'
      /\ GoodMessages \subseteq GoodMessages' /\ GoodPackets \subseteq GoodPackets'
  BY <1>2, CallsKept
<1>4. WireFaithful'
  <2>1. CASE ReadPackets
    <3>1. PICK k \in 1 .. Len(toClient) :
             LET got == held \o SubSeq(toClient, 1, k) IN
             /\ toClient' = SubSeq(toClient, k + 1, Len(toClient))
             /\ \/ ~HasGarbage(got) /\ batch' = got /\ held' = <<>> /\ reader' = "dispatch"
                \/ held' = got /\ UNCHANGED <<batch, reader>>
      BY <2>1 DEF ReadPackets
    <3>2. /\ SubSeq(toClient, 1, k) \in Seq(GoodPackets)
          /\ toClient' \in Seq(GoodPackets)
      BY <3>1, QueueCut DEF WireFaithful
    <3>3. held \o SubSeq(toClient, 1, k) \in Seq(GoodPackets)
      BY <3>2, ConcatProperties DEF WireFaithful
    <3>4. batch' \in Seq(GoodPackets) /\ held' \in Seq(GoodPackets)
      BY <3>1, <3>3, EmptySeq DEF WireFaithful
    <3>5. /\ toClient' \in Seq(GoodPackets') /\ batch' \in Seq(GoodPackets')
          /\ held' \in Seq(GoodPackets')
      BY <1>3, <3>2, <3>4, SeqMonotonic
    <3>6. QED
      BY <1>3, <2>1, <3>5, WireKept DEF WireFaithful, ReadPackets
  <2>2. CASE ReadFail \/ HandleFatal
    BY <1>3, <2>2, WireKept, EmptySeq DEF WireFaithful, ReadFail, HandleFatal, ReaderReturns
  <2>3. CASE BatchDone
    BY <1>3, <2>3, WireKept DEF WireFaithful, BatchDone
  <2>4. CASE HandleHeartbeat \/ HandlePush \/ HandleIgnored
    <3>1. batch # <<>> /\ batch' = Tail(batch)
      BY <2>4 DEF HandleHeartbeat, HandlePush, HandleIgnored, Dispatches
    <3>2. batch' \in Seq(GoodPackets')
      BY <1>3, <3>1, QueueTail, SeqMonotonic DEF WireFaithful
    <3>3. QED
      BY <1>3, <2>4, <3>2, WireKept
         DEF WireFaithful, HandleHeartbeat, HandlePush, HandleIgnored
  <2>5. CASE ReaderNotify
    <3>1. sendCh' \in Seq(GoodMessages)
      BY <2>5, NotesFaithful, QueueAppend DEF ReaderNotify, WireFaithful
    <3>2. sendCh' \in Seq(GoodMessages')
      BY <1>3, <3>1, SeqMonotonic
    <3>3. QED
      BY <1>3, <2>5, <3>2, WireKept DEF WireFaithful, ReaderNotify
  <2>6. QED
    BY <2>1, <2>2, <2>3, <2>4, <2>5
<1>5. QED
  BY <1>1, <1>3, <1>4

\* The server reads requests as they are and answers them under their ids.
LEMMA ServerById ==
    ASSUME ById, Server
    PROVE  ById'
<1> USE DEF ById, writeVars, readVars, serverVars
<1>1. TypeOK'
  BY StepType DEF Next
<1>2. UNCHANGED callVars
  BY DEF Server, ServerRead, ServerReply, ServerSend, ServerGone
<1>3. \A r \in Requests : replies[r] > 0 => replies'[r] > 0
  <2>1. CASE ServerReply
    <3>1. PICK m \in received : replies' = [replies EXCEPT ![m.call] = @ + 1]
      BY <2>1 DEF ServerReply
    <3>2. \A r \in Requests : replies[r] \in Nat
      BY ReplyCounts
    <3>3. QED
      BY <3>1, <3>2 DEF TypeOK
  <2>2. CASE ~ServerReply
    BY <2>2 DEF Server, ServerRead, ServerSend, ServerGone
  <2>3. QED
    BY <2>1, <2>2
<1>4. /\ PendingFaithful' /\ RepliesById' /\ PendingOrDisplaced'
      /\ GoodMessages \subseteq GoodMessages' /\ GoodPackets \subseteq GoodPackets'
  BY <1>2, <1>3, CallsKept
<1>5. WireFaithful'
  <2>1. CASE ServerRead
    <3>1. toServer # <<>> /\ toServer' = Tail(toServer)
      BY <2>1 DEF ServerRead
    <3>2. Head(toServer) \in GoodMessages /\ Tail(toServer) \in Seq(GoodMessages)
      BY <3>1, QueueTail DEF WireFaithful
    <3>3. toServer' \in Seq(GoodMessages') /\ received' \subseteq GoodMessages'
      BY <1>4, <2>1, <3>1, <3>2, SeqMonotonic DEF ServerRead, WireFaithful
    <3>4. QED
      BY <1>4, <2>1, <3>3, WireKept DEF WireFaithful, ServerRead
  <2>2. CASE ServerReply
    <3>1. PICK m \in received :
             /\ replies' = [replies EXCEPT ![m.call] = @ + 1]
             /\ toClient' = Append(toClient, ResponsePkt(m))
      BY <2>2 DEF ServerReply
    <3>2. m \in RequestMessage /\ m.call \in Sent /\ m.id = id[m.call]
      BY <3>1 DEF TypeOK, WireFaithful, GoodMessages, RequestMessage
    <3>3. replies'[m.call] > 0
      <4>1. m.call \in Requests /\ replies[m.call] \in Nat
        BY <3>2, ReplyCounts DEF RequestMessage
      <4>2. replies'[m.call] = replies[m.call] + 1
        BY <3>1, <4>1 DEF TypeOK
      <4>3. QED
        BY <4>1, <4>2
    <3>4. ResponsePkt(m) \in GoodPackets'
      <4>1. ResponsePkt(m) \in ResponsePacket
        BY <3>2 DEF ResponsePkt, ResponsePacket, RequestMessage
      <4>2. m.call \in Sent' /\ m.id = id'[m.call]
        BY <1>2, <3>2 DEF callVars, Sent
      <4>3. QED
        BY <3>3, <4>1, <4>2 DEF GoodPackets, GoodResponses, ResponsePkt
    <3>5. toClient' \in Seq(GoodPackets')
      BY <1>4, <3>1, <3>4, QueueAppend, SeqMonotonic DEF WireFaithful
    <3>6. QED
      BY <1>4, <2>2, <3>5, WireKept DEF WireFaithful, ServerReply
  <2>3. CASE ServerSend
    <3>1. PICK k \in OtherKinds : toClient' = Append(toClient, OtherPkt(k))
      BY <2>3 DEF ServerSend
    <3>2. OtherPkt(k) \in GoodPackets
      BY DEF OtherPkt, OtherPacket, GoodPackets
    <3>3. toClient' \in Seq(GoodPackets')
      BY <1>4, <3>1, <3>2, QueueAppend, SeqMonotonic DEF WireFaithful
    <3>4. QED
      BY <1>4, <2>3, <3>3, WireKept DEF WireFaithful, ServerSend
  <2>4. CASE ServerGone
    BY <1>4, <2>4, WireKept DEF WireFaithful, ServerGone
  <2>5. QED
    BY <2>1, <2>2, <2>3, <2>4 DEF Server
<1>6. QED
  BY <1>1, <1>4, <1>5

LEMMA StepById == ById /\ [Next]_vars => ById'
<1> SUFFICES ASSUME ById, [Next]_vars PROVE ById'
  OBVIOUS
<1>1. CASE Caller
  <2>1. CASE \E r \in Requests : TakeId(r)
    BY <2>1, TakeIdById
  <2>2. CASE \E r \in Requests : Register(r)
    BY <2>2, RegisterById
  <2>3. CASE \E r \in Requests : EnqueueRequest(r)
    BY <2>3, EnqueueById
  <2>4. CASE \/ \E r \in Requests : Await(r)
             \/ \E n \in Notifies : StartNotify(n) \/ EnqueueNotify(n)
    BY <2>4, CallerById
  <2>5. CASE OnMessage \/ Close
    BY <2>5, WriterById
  <2>6. QED
    BY <1>1, <2>1, <2>2, <2>3, <2>4, <2>5 DEF Caller
<1>2. CASE WriteLoop
  BY <1>2, WriterById
<1>3. CASE ReadLoop
  BY <1>3, HandleResponseById, ReaderById DEF ReadLoop
<1>4. CASE Server
  BY <1>4, ServerById
<1>5. CASE UNCHANGED vars
  <2>1. UNCHANGED callVars /\ replies' = replies
    BY <1>5 DEF vars, serverVars
  <2>2. TypeOK'
    BY <1>5, StepType DEF ById
  <2>3. /\ PendingFaithful' /\ RepliesById' /\ PendingOrDisplaced'
        /\ GoodMessages \subseteq GoodMessages' /\ GoodPackets \subseteq GoodPackets'
    BY <2>1, CallsKept
  <2>4. WireFaithful'
    BY <1>5, <2>3, WireKept
       DEF ById, WireFaithful, vars, writeVars, readVars, serverVars
  <2>5. QED
    BY <2>2, <2>3, <2>4 DEF ById
<1>6. QED
  BY <1>1, <1>2, <1>3, <1>4, <1>5 DEF Next

\* However many requests are made, and so also after idSeq has come round: what is on
\* the wire, in the pending table and in the channels is there by its id.  A request can
\* get only a reply to one with the same id, and only such a one can displace it from
\* the table.
THEOREM ByIdAlways == Spec => []ById
<1>1. QED
  BY InitById, StepById, PTL DEF Spec

\* The channel Request returns is sent at most one message, so readLoop never blocks
\* in HandleResponse, whatever duplicates the server sends and however often an id has
\* been used.
THEOREM RepliedOnceAlways == Spec => []RepliedOnce
<1>1. ById => RepliedOnce
  <2> SUFFICES ASSUME ById, NEW r \in Requests PROVE Len(reply[r]) <= 1
    BY DEF RepliedOnce
  <2>1. reply[r] = <<>> \/ \E q : reply[r] = <<q>>
    BY DEF ById, RepliesById
  <2>2. Len(<<>>) <= 1 /\ \A q : Len(<<q>>) <= 1
    OBVIOUS
  <2>3. QED
    BY <2>1, <2>2, Zenon
<1>2. QED
  BY <1>1, ByIdAlways, PTL

-----------------------------------------------------------------------------
(* As long as no id comes back                                             *)

\* The id a request draws is new: idSeq has not come round.
LEMMA TakeIdUnique ==
    ASSUME NoWrap, TypeOK, IdsUnique, NEW r \in Requests, TakeId(r)
    PROVE  IdsUnique'
<1>1. r \notin Numbered /\ Numbered' = Numbered \cup {r}
  BY DEF TakeId, Numbered, TypeOK, Calls
<1>2. IsFiniteSet(Numbered) /\ Cardinality(Numbered \cup {r}) = Cardinality(Numbered) + 1
  BY <1>1, ConstantsAssumption, FS_Subset, FS_AddElement DEF Numbered
<1>3. idSeq' = idSeq + 1
  <2>1. Cardinality(Numbered \cup {r}) <= Cardinality(Requests)
    BY ConstantsAssumption, FS_Subset DEF Numbered
  <2>2. Cardinality(Numbered) \in Nat /\ Cardinality(Requests) \in Nat
    BY <1>2, ConstantsAssumption, FS_CardinalityType
  <2>3. idSeq \in Nat /\ idSeq + 1 < IdSpace
    BY <1>2, <2>1, <2>2, ConstantsAssumption DEF NoWrap, IdsUnique
  <2>4. QED
    BY <2>3, ConstantsAssumption DEF TakeId
<1>4. idSeq' = Cardinality(Numbered')
  BY <1>1, <1>2, <1>3 DEF IdsUnique
<1>5. id'[r] = idSeq' /\ \A q \in Numbered : id'[q] = id[q]
  BY <1>1 DEF TakeId, TypeOK, Numbered
<1>6. idSeq \in Nat
  BY ConstantsAssumption DEF TypeOK, Ids
<1>7. QED
  BY <1>1, <1>3, <1>4, <1>5, <1>6 DEF IdsUnique

\* Only TakeId and StartNotify take a call from idle.
LEMMA IdleOnlyLeft ==
    ASSUME TypeOK, [Next]_vars, ~ \E r \in Requests : TakeId(r)
    PROVE  \A r \in Requests : pc'[r] # "idle" <=> pc[r] # "idle"
<1>1. CASE pc' = pc
  BY <1>1
<1>2. CASE \E r \in Requests : Register(r) \/ EnqueueRequest(r) \/ Await(r)
  BY <1>2 DEF Register, EnqueueRequest, Await, TypeOK, Calls
<1>3. CASE \E n \in Notifies : StartNotify(n) \/ EnqueueNotify(n)
  BY <1>3, ConstantsAssumption DEF StartNotify, EnqueueNotify, TypeOK, Calls
<1>4. QED
  BY <1>1, <1>2, <1>3
     DEF Next, Caller, OnMessage, Close, WriteLoop, WriterTake, WriterWrite,
         WriterFail, ReadLoop, ReadPackets, ReadFail, BatchDone, HandleResponse,
         HandleHeartbeat, HandlePush, ReaderNotify, HandleFatal, HandleIgnored, Server,
         ServerRead, ServerReply, ServerSend, ServerGone, vars, callVars

LEMMA StepUnique ==
    ASSUME NoWrap, TypeOK, IdsUnique, [Next]_vars
    PROVE  IdsUnique'
<1>1. CASE \E r \in Requests : TakeId(r)
  BY <1>1, TakeIdUnique
<1>2. CASE ~ \E r \in Requests : TakeId(r)
  <2>1. UNCHANGED <<id, idSeq>>
    BY <1>2
       DEF Next, Caller, Register, EnqueueRequest, Await, StartNotify, EnqueueNotify,
           OnMessage, Close, WriteLoop, WriterTake, WriterWrite, WriterFail, ReadLoop,
           ReadPackets, ReadFail, BatchDone, HandleResponse, HandleHeartbeat, HandlePush,
           ReaderNotify, HandleFatal, HandleIgnored, Server, ServerRead, ServerReply,
           ServerSend, ServerGone, vars, callVars
  <2>2. Numbered' = Numbered
    BY <1>2, IdleOnlyLeft DEF Numbered
  <2>3. QED
    BY <2>1, <2>2 DEF IdsUnique
<1>3. QED
  BY <1>1, <1>2

\* With unique ids, a request with the id of another is that one.
LEMMA UniqueIsCorrelated ==
    ASSUME ById, IdsUnique
    PROVE  Correlated
<1>1. /\ Sent \subseteq Registered /\ Registered \subseteq Numbered
      /\ \A q \in Registered, p \in Registered : id[q] = id[p] => q = p
      /\ \A r \in Requests : pc[r] \in {"enqueue", "await"} => r \in Registered
  BY DEF Sent, Registered, Numbered, IdsUnique
<1>2. RepliesFaithful
  <2> SUFFICES ASSUME NEW r \in Requests, reply[r] # <<>>
               PROVE  reply[r] = <<r>> /\ r \in Sent /\ replies[r] > 0
    BY DEF RepliesFaithful
  <2>1. /\ r \in Registered
        /\ \E q \in Sent : reply[r] = <<q>> /\ id[q] = id[r] /\ replies[q] > 0
    BY DEF ById, RepliesById
  <2>2. QED
    BY <1>1, <2>1
<1>3. PendingUntilReplied
  BY <1>1 DEF PendingUntilReplied, ById, PendingOrDisplaced
<1>4. QED
  BY <1>2, <1>3 DEF Correlated

LEMMA InitCorrelated == Init => Correlated
<1> SUFFICES ASSUME Init PROVE Correlated
  OBVIOUS
<1>1. Numbered = {}
  BY DEF Init, Numbered, Calls
<1>2. IdsUnique
  BY <1>1, FS_EmptySet DEF Init, IdsUnique
<1>3. QED
  BY <1>2, InitById, UniqueIsCorrelated

LEMMA StepCorrelated ==
    ASSUME NoWrap, Correlated, [Next]_vars
    PROVE  Correlated'
<1>1. ById' /\ IdsUnique'
  BY StepById, StepUnique DEF Correlated, ById
<1>2. (ById /\ IdsUnique => Correlated)'
  BY UniqueIsCorrelated, PTL
<1>3. QED
  BY <1>1, <1>2

\* The inductive invariant holds as long as fewer requests are made than there
\* are message ids.
THEOREM CorrelatedAlways ==
    ASSUME NoWrap PROVE Spec => []Correlated
<1>1. Correlated /\ [Next]_vars => Correlated'
  BY StepCorrelated
<1>2. QED
  BY <1>1, InitCorrelated, PTL DEF Spec

\* A request that is on its way is in the pending table under its own id: no
\* response can arrive before it is registered, nor after it was evicted.
THEOREM PendingUntilRepliedAlways ==
    ASSUME NoWrap PROVE Spec => []PendingUntilReplied
<1>1. Correlated => PendingUntilReplied
  BY DEF Correlated
<1>2. QED
  BY <1>1, CorrelatedAlways, PTL

-----------------------------------------------------------------------------
(* The client implements RpcCalls                                          *)

\* The variables of RpcCalls, as the client's state gives them.
IssuedHere == {r \in Requests : pc[r] # "idle"}
ServedHere == {r \in Requests : replies[r] > 0}
ResultHere == [r \in Requests |-> IF reply[r] = <<>> THEN None ELSE reply[r][1]]

\* Drawing an id is issuing the request.
LEMMA TakeIdIssues ==
    ASSUME TypeOK, NEW r \in Requests, TakeId(r)
    PROVE  Rpc!Issue(r)
<1>1. r \notin IssuedHere /\ IssuedHere' = IssuedHere \cup {r}
  BY DEF TakeId, IssuedHere, TypeOK, Calls
<1>2. ServedHere' = ServedHere /\ ResultHere' = ResultHere
  BY DEF TakeId, serverVars, ServedHere, ResultHere
<1>3. QED
  BY <1>1, <1>2 DEF Rpc!Issue, IssuedHere, ServedHere, ResultHere

\* The server's first answer to a request serves it; a duplicate is a stutter.
LEMMA ServerReplyServes ==
    ASSUME Correlated, ServerReply
    PROVE  (\E r \in Requests : Rpc!Serve(r)) \/ UNCHANGED Rpc!vars
<1>1. PICK m \in received : replies' = [replies EXCEPT ![m.call] = @ + 1]
  BY DEF ServerReply
<1>2. m.call \in Requests /\ m.call \in IssuedHere
  BY <1>1
     DEF Correlated, ById, TypeOK, WireFaithful, GoodMessages, RequestMessage, Sent, IssuedHere
<1>3. IssuedHere' = IssuedHere /\ ResultHere' = ResultHere
  BY DEF ServerReply, callVars, IssuedHere, ResultHere
<1>4. ServedHere' = ServedHere \cup {m.call}
  <2>1. \A r \in Requests : replies[r] \in Nat
    BY ReplyCounts DEF Correlated, ById
  <2>2. \A r \in Requests : replies'[r] = IF r = m.call THEN replies[r] + 1 ELSE replies[r]
    BY <1>1, <1>2 DEF Correlated, ById, TypeOK
  <2>3. \A r \in Requests : replies'[r] > 0 <=> (replies[r] > 0 \/ r = m.call)
    BY <2>1, <2>2
  <2>4. QED
    BY <1>2, <2>3 DEF ServedHere
<1>5. CASE m.call \in ServedHere
  <2>1. ServedHere' = ServedHere
    BY <1>4, <1>5
  <2>2. QED
    BY <1>3, <2>1 DEF Rpc!vars, IssuedHere, ServedHere, ResultHere
<1>6. CASE m.call \notin ServedHere
  <2>1. Rpc!Serve(m.call)
    BY <1>2, <1>3, <1>4, <1>6 DEF Rpc!Serve, IssuedHere, ServedHere, ResultHere
  <2>2. QED
    BY <1>2, <2>1
<1>7. QED
  BY <1>5, <1>6

\* A response that finds an entry resolves the request it was computed for; one
\* that finds none is a stutter.
LEMMA HandleResponseResolves ==
    ASSUME Correlated, Correlated', HandleResponse
    PROVE  (\E r \in Requests : Rpc!Resolve(r)) \/ UNCHANGED Rpc!vars
<1> DEFINE m == Head(batch)
           r == pending[m.id]
<1>1. IssuedHere' = IssuedHere /\ ServedHere' = ServedHere
  BY DEF HandleResponse, serverVars, IssuedHere, ServedHere
<1>2. m.id \in Ids
  <2>1. batch # <<>> /\ m.kind = "response"
    BY DEF HandleResponse, Dispatches
  <2>2. m \in Packet
    BY <2>1, QueueTail DEF Correlated, ById, TypeOK
  <2>3. QED
    BY <2>1, <2>2 DEF Packet, ResponsePacket, OtherPacket, OtherKinds
<1>3. CASE r = None
  <2>1. ResultHere' = ResultHere
    BY <1>3 DEF HandleResponse, ResultHere
  <2>2. QED
    BY <1>1, <2>1 DEF Rpc!vars, IssuedHere, ServedHere, ResultHere
<1>4. CASE r # None
  <2>1. PICK q \in Requests : q = r
    BY <1>2, <1>4 DEF Correlated, ById, TypeOK
  <2>2. reply[q] = <<>>
    BY <1>2, <1>4, <2>1 DEF Correlated, ById, PendingFaithful
  <2>3. reply' = [reply EXCEPT ![q] = Append(<<>>, m.call)]
    BY <1>4, <2>1, <2>2 DEF HandleResponse
  <2>4. reply'[q] # <<>>
    BY <2>3, FirstItem DEF Correlated, ById, TypeOK
  <2>5. reply'[q] = <<q>> /\ replies'[q] > 0
    BY <2>4 DEF Correlated, RepliesFaithful
  <2>6. q \in ServedHere
    BY <1>1, <2>5 DEF ServedHere
  <2>7. /\ ResultHere[q] = None
        /\ ResultHere' = [ResultHere EXCEPT ![q] = q]
    <3>1. \A p \in Requests : p # q => reply'[p] = reply[p]
      BY <2>3 DEF Correlated, ById, TypeOK
    <3>2. reply'[q][1] = q
      BY <2>5
    <3>3. QED
      BY <2>2, <2>4, <3>1, <3>2 DEF ResultHere
  <2>8. Rpc!Resolve(q)
    BY <1>1, <2>6, <2>7 DEF Rpc!Resolve, IssuedHere, ServedHere, ResultHere
  <2>9. QED
    BY <2>8
<1>5. QED
  BY <1>3, <1>4

\* Every other step is one RpcCalls does not see.
LEMMA OthersStutter ==
    ASSUME TypeOK, [Next]_vars,
           ~ \E r \in Requests : TakeId(r), ~ServerReply, ~HandleResponse
    PROVE  UNCHANGED Rpc!vars
<1> USE DEF writeVars, readVars, serverVars
<1>1. UNCHANGED <<reply, replies>>
  BY DEF Next, Caller, Register, EnqueueRequest, Await, StartNotify, EnqueueNotify,
         OnMessage, Close, WriteLoop, WriterTake, WriterWrite, WriterFail, ReadLoop,
         ReadPackets, ReadFail, BatchDone, HandleHeartbeat, HandlePush, ReaderNotify,
         HandleFatal, HandleIgnored, Server, ServerRead, ServerSend, ServerGone,
         vars, callVars
<1>2. \A r \in Requests : pc'[r] # "idle" <=> pc[r] # "idle"
  BY IdleOnlyLeft
<1>3. QED
  BY <1>1, <1>2 DEF Rpc!vars

\* GoClient implements RpcCalls, as long as fewer requests are made than there
\* are message ids: whatever way the calls, the two loops, the server and the
\* end of the connection interleave, Request's channel gets the reply to that
\* very request, once, after the server produced it.
THEOREM GoClientImplementsRpcCalls ==
    ASSUME NoWrap PROVE Spec => ImplementsRpcCalls
<1>1. Init => Rpc!Init
  <2> SUFFICES ASSUME Init PROVE Rpc!Init
    OBVIOUS
  <2>1. \A r \in Requests : pc[r] = "idle" /\ replies[r] = 0 /\ reply[r] = <<>>
    BY DEF Init, Calls
  <2>2. QED
    BY <2>1 DEF Rpc!Init
<1>2. Correlated /\ Correlated' /\ [Next]_vars => [Rpc!Next]_Rpc!vars
  <2> SUFFICES ASSUME Correlated, Correlated', [Next]_vars PROVE [Rpc!Next]_Rpc!vars
    OBVIOUS
  <2>1. CASE \E r \in Requests : TakeId(r)
    BY <2>1, TakeIdIssues DEF Correlated, ById, Rpc!Next
  <2>2. CASE ServerReply
    BY <2>2, ServerReplyServes DEF Rpc!Next
  <2>3. CASE HandleResponse
    BY <2>3, HandleResponseResolves DEF Rpc!Next
  <2>4. CASE ~ (\E r \in Requests : TakeId(r)) /\ ~ServerReply /\ ~HandleResponse
    BY <2>4, OthersStutter DEF Correlated, ById
  <2>5. QED
    BY <2>1, <2>2, <2>3, <2>4
<1>3. QED
  BY <1>1, <1>2, CorrelatedAlways, PTL DEF Spec, ImplementsRpcCalls, Rpc!Spec
=============================================================================
