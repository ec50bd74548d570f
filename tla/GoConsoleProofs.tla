--------------------------- MODULE GoConsoleProofs --------------------------
(***************************************************************************)
(* Proofs about GoConsole, for every set of commands, capacity and bound:  *)
(* what main believes about its client is so; what GoClientProofs proves   *)
(* holds below the console, because it makes only calls of GoClient;       *)
(* commands reach the server in the order in which they were typed; and    *)
(* main looks at no reply but the one to its command.                      *)
(***************************************************************************)
EXTENDS GoConsole, GoClientProofs

\* The inductive invariant: what ConsoleTypeOK needs of the client, and that main has
\* a command while it makes its request, and the request while it waits.
ConsoleInv ==
    /\ TypeOK
    /\ ConsoleTypeOK
    /\ at \in {"request", "wait", "reply"} => cur \in Requests
    /\ at = "request" => cmd \in {"login", "room"}

\* What the client's goroutines and the server leave alone.
LEMMA LoopsLeaveCalls ==
    ASSUME WriteLoop \/ ReadLoop \/ Server
    PROVE  /\ UNCHANGED <<pc, onMsg>>
           /\ conn' = conn \/ conn' = "closed"
<1> USE DEF callVars, ReaderReturns
<1>1. CASE WriteLoop
  <2>1. CASE WriterTake
    BY <2>1 DEF WriterTake
  <2>2. CASE WriterWrite
    BY <2>2 DEF WriterWrite
  <2>3. CASE WriterFail
    BY <2>3 DEF WriterFail
  <2>4. QED
    BY <1>1, <2>1, <2>2, <2>3 DEF WriteLoop
<1>2. CASE ReadLoop
  <2>1. CASE ReadPackets
    BY <2>1 DEF ReadPackets
  <2>2. CASE ReadFail
    BY <2>2 DEF ReadFail
  <2>3. CASE BatchDone
    BY <2>3 DEF BatchDone
  <2>4. CASE HandleResponse
    BY <2>4 DEF HandleResponse
  <2>5. CASE HandleHeartbeat
    BY <2>5 DEF HandleHeartbeat
  <2>6. CASE HandlePush
    BY <2>6 DEF HandlePush
  <2>7. CASE ReaderNotify
    BY <2>7 DEF ReaderNotify
  <2>8. CASE HandleFatal
    BY <2>8 DEF HandleFatal
  <2>9. CASE HandleIgnored
    BY <2>9 DEF HandleIgnored
  <2>10. QED
    BY <1>2, <2>1, <2>2, <2>3, <2>4, <2>5, <2>6, <2>7, <2>8, <2>9 DEF ReadLoop
<1>3. CASE Server
  BY <1>3 DEF Server, ServerRead, ServerReply, ServerSend, ServerGone
<1>4. QED
  BY <1>1, <1>2, <1>3

\* Each of main's steps is a call of the client, or none of its business.
LEMMA ConsoleStepIsGoClientStep ==
    ConsoleInv /\ [ConsoleNext]_allVars => [Next]_vars
<1> SUFFICES ASSUME ConsoleInv, [ConsoleNext]_allVars PROVE [Next]_vars
  OBVIOUS
<1> USE DEF Next, Caller
<1>1. CASE Start
  BY <1>1 DEF Start
<1>2. CASE Choose
  <2>1. cur' \in Requests
    BY <1>2 DEF Choose, Unused
  <2>2. QED
    BY <1>2, <2>1 DEF Choose
<1>3. CASE InRequest
  BY <1>3 DEF InRequest, ConsoleInv
<1>4. CASE Receive
  BY <1>4 DEF Receive, ConsoleInv
<1>5. CASE EnterGame
  <2>1. (CHOOSE n \in Unused(Notifies) : TRUE) \in Notifies
    BY <1>5 DEF EnterGame, Unused
  <2>2. QED
    BY <1>5, <2>1 DEF EnterGame
<1>6. CASE Unparsed
  BY <1>6 DEF Unparsed
<1>7. CASE End
  <2>1. conn \in {"open", "closed"}
    BY DEF ConsoleInv, TypeOK
  <2>2. CASE conn = "open"
    BY <1>7, <2>2 DEF End, Close
  <2>3. CASE conn = "closed"
    BY <1>7, <2>3 DEF End, vars
  <2>4. QED
    BY <2>1, <2>2, <2>3
<1>8. CASE InNotify
  BY <1>8 DEF InNotify
<1>9. CASE Loops \/ (Server /\ UNCHANGED consoleVars)
  BY <1>9 DEF Loops
<1>10. CASE UNCHANGED allVars
  BY <1>10 DEF allVars
<1>11. QED
  BY <1>1, <1>2, <1>3, <1>4, <1>5, <1>6, <1>7, <1>8, <1>9, <1>10
     DEF ConsoleNext, Main, WrongAck, Quit, Panic

LEMMA ConsoleInitInv == ConsoleInit => ConsoleInv
<1> SUFFICES ASSUME ConsoleInit PROVE ConsoleInv
  OBVIOUS
<1>1. TypeOK
  BY InitType DEF ConsoleInit
<1>2. QED
  BY <1>1 DEF ConsoleInit, ConsoleInv, ConsoleTypeOK, Init

LEMMA ConsoleStepInv == ConsoleInv /\ [ConsoleNext]_allVars => ConsoleInv'
<1> SUFFICES ASSUME ConsoleInv, [ConsoleNext]_allVars PROVE ConsoleInv'
  OBVIOUS
<1>0. TypeOK'
  BY ConsoleStepIsGoClientStep, StepType DEF ConsoleInv
<1>01. pc \in [Calls -> CallStates] /\ Requests \subseteq Calls /\ Notifies \subseteq Calls
  BY DEF ConsoleInv, TypeOK, Calls
<1> USE DEF ConsoleInv, ConsoleTypeOK
<1>1. CASE Start
  BY <1>0, <1>1 DEF Start, OnMessage, TypeOK
<1>2. CASE Choose
  <2>1. cur' \in Requests
    BY <1>2 DEF Choose, Unused
  <2>2. QED
    BY <1>0, <1>01, <1>2, <2>1 DEF Choose, TakeId
<1>3. CASE InRequest
  <2>1. cur \in Requests /\ cur \in Calls
    BY <1>01, <1>3 DEF InRequest
  <2>2. CASE Register(cur)
    BY <1>0, <1>01, <1>3, <2>1, <2>2 DEF InRequest, Register, EnqueueRequest
  <2>3. CASE EnqueueRequest(cur)
    BY <1>0, <1>01, <1>3, <2>1, <2>3 DEF InRequest, Register, EnqueueRequest
  <2>4. QED
    BY <1>3, <2>2, <2>3 DEF InRequest
<1>4. CASE Receive
  BY <1>0, <1>4 DEF Receive, Await
<1>5. CASE EnterGame
  <2>1. PICK n \in Notifies : StartNotify(n)
    BY <1>5 DEF EnterGame, Unused
  <2>2. pc'[n] = "enqueue"
    BY <1>01, <2>1 DEF StartNotify
  <2>3. QED
    BY <1>0, <1>5, <2>1, <2>2 DEF EnterGame, StartNotify
<1>6. CASE Unparsed
  BY <1>0, <1>6 DEF Unparsed, vars, callVars
<1>7. CASE End
  BY <1>0, <1>7 DEF End, callVars
<1>8. CASE InNotify
  BY <1>0, <1>8 DEF InNotify, EnqueueNotify
<1>9. CASE Loops \/ (Server /\ UNCHANGED consoleVars)
  <2>1. UNCHANGED <<pc, onMsg, consoleVars>> /\ (conn' = conn \/ conn' = "closed")
    BY <1>9, LoopsLeaveCalls DEF Loops
  <2>2. QED
    BY <1>0, <2>1 DEF consoleVars
<1>10. CASE UNCHANGED allVars
  BY <1>0, <1>10 DEF allVars, vars, callVars, consoleVars
<1>11. QED
  BY <1>1, <1>2, <1>3, <1>4, <1>5, <1>6, <1>7, <1>8, <1>9, <1>10
     DEF ConsoleNext, Main, WrongAck, Quit, Panic

\* Where main is fits what the client does for it: while main makes a request the
\* client is making it, and while it waits the request is on its way.
THEOREM ConsoleTypeCorrect == ConsoleSpec => []ConsoleTypeOK
<1>1. ConsoleInv => ConsoleTypeOK
  BY DEF ConsoleInv
<1>2. QED
  BY <1>1, ConsoleInitInv, ConsoleStepInv, PTL DEF ConsoleSpec

\* So the console is one of the callers GoClient has in mind.
LEMMA ConsoleIsOfGoClient == ConsoleSpec => Spec
<1>1. ConsoleInit => Init
  BY DEF ConsoleInit
<1>2. QED
  BY <1>1, ConsoleInitInv, ConsoleStepInv, ConsoleStepIsGoClientStep, PTL
     DEF ConsoleSpec, Spec

\* What follows of the properties proved of GoClient: a request that main has announced
\* as successful, or waits for, is not lost while writeLoop runs, and the client goes
\* mute only after an oversize message.
THEOREM ConsoleKeepsClientSafe ==
    ConsoleSpec => [](NothingLostWhileWriting /\ MuteOnlyByOversize)
<1>1. QED
  BY ConsoleIsOfGoClient, NothingLostAlways, MuteOnlyByOversizeAlways, PTL

-----------------------------------------------------------------------------
(* Commands reach the server in order                                      *)

\* InOrder, of any run of messages and any set of those that were read before it.
Ordered(read, q) ==
    /\ \A i, j \in DOMAIN q : i < j => Before(q[i], q[j])
    /\ \A m \in read, i \in DOMAIN q : Before(m, q[i])

\* A message that comes after all the others is added at the end.
LEMMA OrderedAppend ==
    ASSUME NEW R, NEW q \in Seq(Message), NEW x \in Message, Ordered(R, q),
           \A m \in R : Before(m, x),
           \A i \in DOMAIN q : Before(q[i], x)
    PROVE  Ordered(R, Append(q, x))
<1> DEFINE a == Append(q, x)
<1>1. /\ DOMAIN q = 1 .. Len(q) /\ Len(q) \in Nat /\ DOMAIN a = 1 .. Len(q) + 1
      /\ a[Len(q) + 1] = x /\ \A i \in 1 .. Len(q) : a[i] = q[i]
  BY AppendProperties, LenProperties
<1> HIDE DEF a
<1>2. ASSUME NEW i \in DOMAIN a, NEW j \in DOMAIN a, i < j PROVE Before(a[i], a[j])
  <2>1. i \in DOMAIN q /\ a[i] = q[i]
    BY <1>1, <1>2
  <2>2. CASE j \in DOMAIN q
    BY <1>1, <1>2, <2>1, <2>2 DEF Ordered
  <2>3. CASE j = Len(q) + 1
    BY <1>1, <2>1, <2>3
  <2>4. QED
    BY <1>1, <2>2, <2>3
<1>3. ASSUME NEW m \in R, NEW i \in DOMAIN a PROVE Before(m, a[i])
  <2>1. CASE i \in DOMAIN q
    BY <1>1, <2>1 DEF Ordered
  <2>2. CASE i = Len(q) + 1
    BY <1>1, <2>2
  <2>3. QED
    BY <1>1, <2>1, <2>2
<1>4. QED
  BY <1>2, <1>3 DEF Ordered, a

\* A message that is dropped leaves the others in order.
LEMMA OrderedDropOne ==
    ASSUME NEW R, NEW a \in Seq(Message), NEW x \in Message, NEW b \in Seq(Message),
           Ordered(R, (a \o <<x>>) \o b)
    PROVE  Ordered(R, a \o b)
<1> DEFINE p == (a \o <<x>>) \o b
           q == a \o b
           f(i) == IF i <= Len(a) THEN i ELSE i + 1
<1>1. /\ Len(a) \in Nat /\ Len(b) \in Nat /\ DOMAIN q = 1 .. Len(a) + Len(b)
      /\ \A i \in 1 .. Len(a) + Len(b) : q[i] = IF i <= Len(a) THEN a[i] ELSE b[i - Len(a)]
  BY ConcatProperties, LenProperties
<1>2. <<x>> \in Seq(Message) /\ Len(<<x>>) = 1
  OBVIOUS
<1>3. /\ a \o <<x>> \in Seq(Message) /\ Len(a \o <<x>>) = Len(a) + 1
      /\ \A i \in 1 .. Len(a) : (a \o <<x>>)[i] = a[i]
  BY <1>1, <1>2, ConcatProperties
<1>4. /\ DOMAIN p = 1 .. Len(a) + 1 + Len(b)
      /\ \A i \in 1 .. Len(a) + 1 + Len(b) :
            p[i] = IF i <= Len(a) + 1 THEN (a \o <<x>>)[i] ELSE b[i - (Len(a) + 1)]
  BY <1>1, <1>3, ConcatProperties, LenProperties
<1> HIDE DEF p, q
<1>5. ASSUME NEW i \in DOMAIN q PROVE f(i) \in DOMAIN p /\ q[i] = p[f(i)]
  <2>1. CASE i <= Len(a)
    BY <1>1, <1>3, <1>4, <2>1
  <2>2. CASE i > Len(a)
    <3>1. (i + 1) - (Len(a) + 1) = i - Len(a) /\ i + 1 \in 1 .. Len(a) + 1 + Len(b)
          /\ ~(i + 1 <= Len(a) + 1) /\ ~(i <= Len(a)) /\ f(i) = i + 1
      BY <1>1, <2>2
    <3>2. QED
      BY <1>1, <1>4, <3>1
  <2>3. QED
    BY <1>1, <2>1, <2>2
<1>6. \A i, j \in DOMAIN q : i < j => f(i) < f(j)
  BY <1>1
<1> HIDE DEF f
<1>7. QED
  BY <1>5, <1>6 DEF Ordered, p, q

\* The first message is read.
LEMMA OrderedTake ==
    ASSUME NEW R, NEW a \in Seq(Message), a # <<>>, NEW b \in Seq(Message),
           Ordered(R, a \o b)
    PROVE  Ordered(R \cup {Head(a)}, Tail(a) \o b)
<1> DEFINE p == a \o b
           q == Tail(a) \o b
<1>1. /\ Len(a) \in Nat \ {0} /\ Len(b) \in Nat /\ DOMAIN p = 1 .. Len(a) + Len(b)
      /\ \A i \in 1 .. Len(a) + Len(b) : p[i] = IF i <= Len(a) THEN a[i] ELSE b[i - Len(a)]
  BY ConcatProperties, LenProperties, EmptySeq
<1>2. /\ Head(a) = a[1] /\ Tail(a) \in Seq(Message) /\ Len(Tail(a)) = Len(a) - 1
      /\ \A i \in 1 .. Len(a) - 1 : Tail(a)[i] = a[i + 1]
  BY HeadTailProperties
<1>3. /\ DOMAIN q = 1 .. (Len(a) - 1) + Len(b)
      /\ \A i \in 1 .. (Len(a) - 1) + Len(b) :
            q[i] = IF i <= Len(a) - 1 THEN Tail(a)[i] ELSE b[i - (Len(a) - 1)]
  BY <1>1, <1>2, ConcatProperties, LenProperties
<1> HIDE DEF p, q
<1>4. ASSUME NEW i \in DOMAIN q PROVE i + 1 \in DOMAIN p /\ q[i] = p[i + 1] /\ 1 < i + 1
  <2>1. CASE i <= Len(a) - 1
    BY <1>1, <1>2, <1>3, <2>1
  <2>2. CASE ~(i <= Len(a) - 1)
    <3>1. (i + 1) - Len(a) = i - (Len(a) - 1) /\ i + 1 \in 1 .. Len(a) + Len(b)
          /\ ~(i + 1 <= Len(a))
      BY <1>1, <1>3, <2>2
    <3>2. QED
      BY <1>1, <1>3, <2>2, <3>1
  <2>3. QED
    BY <2>1, <2>2
<1>5. 1 \in DOMAIN p /\ p[1] = Head(a)
  BY <1>1, <1>2
<1>6. \A i, j \in DOMAIN q : i < j => i + 1 < j + 1
  BY <1>1, <1>3
<1>7. \A i, j \in DOMAIN p : i < j => Before(p[i], p[j])
  BY DEF Ordered, p
<1>8. \A m \in R, i \in DOMAIN p : Before(m, p[i])
  BY DEF Ordered, p
<1>9. \A i, j \in DOMAIN q : i < j => Before(q[i], q[j])
  BY <1>4, <1>6, <1>7
<1>10. \A m \in R \cup {Head(a)}, i \in DOMAIN q : Before(m, q[i])
  BY <1>4, <1>5, <1>7, <1>8
<1>11. QED
  BY <1>9, <1>10 DEF Ordered, q

\* The message writeLoop is writing.
Writing == IF writer = "write" THEN <<task>> ELSE <<>>

\* What is on its way are messages, the three runs of them that Outgoing is made of,
\* and each request among them bears the id of its request.
LEMMA OutgoingMessages ==
    ASSUME Correlated
    PROVE  /\ sendCh \in Seq(Message) /\ toServer \in Seq(Message)
           /\ Writing \in Seq(Message)
           /\ Outgoing \in Seq(Message)
           /\ Outgoing = (toServer \o Writing) \o sendCh
           /\ Outgoing = toServer \o (Writing \o sendCh)
           /\ \A i \in DOMAIN Outgoing : Outgoing[i] \in GoodMessages
<1>1. /\ sendCh \in Seq(Message) /\ toServer \in Seq(Message)
      /\ sendCh \in Seq(GoodMessages) /\ toServer \in Seq(GoodMessages)
      /\ writer = "write" => task \in Message /\ task \in GoodMessages
  BY DEF Correlated, ById, TypeOK, WireFaithful
<1>2. Writing \in Seq(Message) /\ Writing \in Seq(GoodMessages)
  <2>1. CASE writer = "write"
    <3>1. Writing = <<task>> /\ task \in Message /\ task \in GoodMessages
      BY <1>1, <2>1 DEF Writing
    <3>2. QED
      BY <3>1
  <2>2. CASE writer # "write"
    BY <2>2, EmptySeq DEF Writing
  <2>3. QED
    BY <2>1, <2>2
<1>3. Outgoing = (toServer \o Writing) \o sendCh
  BY DEF Outgoing, Writing
<1>4. Outgoing \in Seq(Message) /\ Outgoing \in Seq(GoodMessages)
  <2>1. toServer \o Writing \in Seq(Message) /\ toServer \o Writing \in Seq(GoodMessages)
    BY <1>1, <1>2, ConcatProperties
  <2>2. QED
    BY <1>1, <1>3, <2>1, ConcatProperties
<1>5. Outgoing = toServer \o (Writing \o sendCh)
  BY <1>1, <1>2, <1>3, ConcatAssociative
<1>6. \A i \in DOMAIN Outgoing : Outgoing[i] \in GoodMessages
  BY <1>4, ElementOfSeq, LenProperties
<1>7. QED
  BY <1>1, <1>2, <1>3, <1>4, <1>5, <1>6

\* A message goes onto sendCh that comes after all that were sent before it.
LEMMA QueueingKeepsOrder ==
    ASSUME Correlated, InOrder,
           NEW x \in Message, \A m \in GoodMessages : Before(m, x),
           sendCh' = Append(sendCh, x), UNCHANGED <<writer, task, toServer, received>>
    PROVE  InOrder'
<1>1. /\ sendCh \in Seq(Message) /\ toServer \o Writing \in Seq(Message)
      /\ Outgoing \in Seq(Message) /\ Outgoing = (toServer \o Writing) \o sendCh
      /\ \A i \in DOMAIN Outgoing : Outgoing[i] \in GoodMessages
  BY OutgoingMessages, ConcatProperties
<1>2. \A m \in received : m \in GoodMessages
  BY DEF Correlated, ById, WireFaithful
<1>3. Outgoing' = Append(Outgoing, x)
  <2> DEFINE a == toServer \o Writing
  <2>1. Outgoing' = a \o Append(sendCh, x)
    BY DEF Outgoing, Writing
  <2>2. <<x>> \in Seq(Message) /\ a \in Seq(Message) /\ sendCh \in Seq(Message)
    BY <1>1
  <2>3. Outgoing = a \o sendCh
    BY <1>1
  <2> HIDE DEF a
  <2>4. Append(sendCh, x) = sendCh \o <<x>> /\ Append(Outgoing, x) = Outgoing \o <<x>>
    BY <1>1, AppendIsConcat
  <2>5. (a \o sendCh) \o <<x>> = a \o (sendCh \o <<x>>)
    BY ONLY <2>2, ConcatAssociative
  <2>6. QED
    BY <2>1, <2>3, <2>4, <2>5
<1>4. Ordered(received, Outgoing)
  BY DEF InOrder, Ordered
<1>5. Ordered(received, Append(Outgoing, x))
  BY <1>1, <1>2, <1>4, OrderedAppend
<1>6. QED
  BY <1>3, <1>5 DEF InOrder, Ordered

\* writeLoop moves its messages on, or drops the one it has.
LEMMA WriterKeepsOrder ==
    ASSUME Correlated, InOrder, WriteLoop
    PROVE  InOrder'
<1>1. /\ sendCh \in Seq(Message) /\ toServer \in Seq(Message)
      /\ Outgoing = (toServer \o Writing) \o sendCh
  BY OutgoingMessages
<1>2. Ordered(received, Outgoing)
  BY DEF InOrder, Ordered
<1>3. CASE WriterTake
  <2> DEFINE h == Head(sendCh)
             t == Tail(sendCh)
  <2>1. /\ h \in Message /\ t \in Seq(Message) /\ sendCh' = t
        /\ UNCHANGED <<toServer, received>> /\ writer = "select"
        /\ (writer' = "exited") \/ (writer' = "write" /\ task' = h)
    BY <1>1, <1>3, QueueTail DEF WriterTake, serverVars
  <2>2. sendCh = <<h>> \o t
    BY <1>1, <1>3, HeadTailProperties DEF WriterTake
  <2>3. Outgoing = toServer \o sendCh
    BY <1>1, <2>1, ConcatEmptySeq DEF Writing
  <2>4. Outgoing = (toServer \o <<h>>) \o t
    <3>1. <<h>> \in Seq(Message)
      BY <2>1
    <3> HIDE DEF h, t
    <3>2. (toServer \o <<h>>) \o t = toServer \o (<<h>> \o t)
      BY <1>1, <2>1, <3>1, ConcatAssociative
    <3>3. QED
      BY <2>2, <2>3, <3>2
  <2>5. CASE writer' = "write" /\ task' = h
    <3>1. Outgoing' = (toServer \o <<h>>) \o t
      BY <2>1, <2>5 DEF Outgoing
    <3>2. QED
      BY <1>2, <2>1, <2>4, <3>1 DEF InOrder, Ordered
  <2>6. CASE writer' = "exited"
    <3>1. Outgoing' = (toServer \o <<>>) \o t
      BY <2>1, <2>6 DEF Outgoing
    <3>2. Outgoing' = toServer \o t
      BY <1>1, <3>1, ConcatEmptySeq
    <3> HIDE DEF h, t
    <3>3. Ordered(received, toServer \o t)
      BY <1>1, <1>2, <2>1, <2>4, OrderedDropOne
    <3>4. QED
      BY <2>1, <3>2, <3>3 DEF InOrder, Ordered
  <2>7. QED
    BY <2>1, <2>5, <2>6
<1>4. ASSUME writer = "write" PROVE task \in Message /\ Outgoing = (toServer \o <<task>>) \o sendCh
  BY <1>1, <1>4 DEF Writing, Correlated, ById, TypeOK
<1>5. CASE WriterWrite
  <2>1. /\ writer = "write" /\ toServer' = Append(toServer, task) /\ writer' = "select"
        /\ UNCHANGED <<sendCh, received>>
    BY <1>5 DEF WriterWrite, serverVars
  <2>2. toServer' = toServer \o <<task>>
    BY <1>1, <1>4, <2>1, AppendIsConcat
  <2>3. Outgoing' = (toServer' \o <<>>) \o sendCh
    BY <2>1 DEF Outgoing
  <2>4. toServer' \o <<>> = toServer'
    BY <1>1, <1>4, <2>1, QueueAppend, ConcatEmptySeq
  <2>5. Outgoing' = Outgoing
    BY <1>4, <2>1, <2>2, <2>3, <2>4
  <2>6. QED
    BY <1>2, <2>1, <2>5 DEF InOrder, Ordered
<1>6. CASE WriterFail
  <2>1. writer = "write" /\ writer' = "exited" /\ UNCHANGED <<sendCh, toServer, received>>
    BY <1>6 DEF WriterFail, serverVars
  <2>2. Outgoing' = (toServer \o <<>>) \o sendCh
    BY <2>1 DEF Outgoing
  <2>3. Outgoing' = toServer \o sendCh
    BY <1>1, <2>2, ConcatEmptySeq
  <2>4. Ordered(received, toServer \o sendCh)
    BY <1>1, <1>2, <1>4, <2>1, OrderedDropOne
  <2>5. QED
    BY <2>1, <2>3, <2>4 DEF InOrder, Ordered
<1>7. QED
  BY <1>3, <1>5, <1>6 DEF WriteLoop

\* The server reads the message that is next.
LEMMA ServerReadKeepsOrder ==
    ASSUME Correlated, InOrder, ServerRead
    PROVE  InOrder'
<1> DEFINE b == Writing \o sendCh
<1>1. /\ toServer \in Seq(Message) /\ b \in Seq(Message) /\ Outgoing = toServer \o b
  BY OutgoingMessages, ConcatProperties
<1>2. /\ toServer # <<>> /\ toServer' = Tail(toServer)
      /\ received' \subseteq received \cup {Head(toServer)}
      /\ UNCHANGED <<writer, task, sendCh>>
  BY DEF ServerRead, writeVars
<1>3. Outgoing' = Tail(toServer) \o b
  <2>1. Outgoing' = (Tail(toServer) \o Writing) \o sendCh
    BY <1>2 DEF Outgoing, Writing
  <2>2. Tail(toServer) \in Seq(Message) /\ Writing \in Seq(Message) /\ sendCh \in Seq(Message)
    BY <1>1, <1>2, QueueTail, OutgoingMessages
  <2>3. QED
    BY <2>1, <2>2, ConcatAssociative
<1> HIDE DEF b
<1>4. Ordered(received, toServer \o b)
  BY <1>1 DEF InOrder, Ordered
<1>5. Ordered(received \cup {Head(toServer)}, Tail(toServer) \o b)
  BY <1>1, <1>2, <1>4, OrderedTake
<1>6. QED
  BY <1>2, <1>3, <1>5 DEF InOrder, Ordered

\* The inductive invariant of InOrder: the request main is making has the latest id.
OrderInv ==
    /\ ConsoleInv
    /\ Correlated
    /\ InOrder
    /\ at = "request" => id[cur] = idSeq

\* All that was sent before it has a smaller one.
LEMMA RequestIsLast ==
    ASSUME OrderInv, at = "request"
    PROVE  \A m \in GoodMessages : Before(m, RequestMsg(cur))
<1>1. cur \in Requests /\ pc[cur] \in {"register", "enqueue"} /\ id[cur] = idSeq
  BY DEF OrderInv, ConsoleInv, ConsoleTypeOK
<1>2. /\ \A r \in Numbered : id[r] \in 1 .. idSeq
      /\ \A r, q \in Numbered : id[r] = id[q] => r = q
      /\ idSeq \in Nat
  BY ConstantsAssumption DEF OrderInv, Correlated, ById, IdsUnique, TypeOK, Ids
<1>3. SUFFICES ASSUME NEW m \in GoodMessages, m.type = "request" PROVE m.id < id[cur]
  BY DEF Before, RequestMsg
<1>4. m.call \in Sent /\ m.id = id[m.call]
  BY <1>3 DEF GoodMessages
<1>5. m.call \in Numbered /\ cur \in Numbered /\ m.call # cur
  BY <1>1, <1>4 DEF Sent, Numbered
<1>6. id[m.call] \in 1 .. idSeq /\ id[m.call] # id[cur]
  BY <1>2, <1>5
<1>7. QED
  BY <1>1, <1>2, <1>4, <1>6

LEMMA NotesHaveNoOrder ==
    ASSUME NEW n \in Notifies \cup ReaderNotes
    PROVE  \A m : Before(m, NotifyMsg(n))
BY DEF Before, NotifyMsg

LEMMA OrderInit == ConsoleInit => OrderInv
<1> SUFFICES ASSUME ConsoleInit PROVE OrderInv
  OBVIOUS
<1>1. ConsoleInv /\ Correlated /\ at # "request"
  BY ConsoleInitInv, InitCorrelated DEF ConsoleInit
<1>2. Outgoing = <<>> /\ received = {}
  BY ConcatEmptySeq, EmptySeq DEF ConsoleInit, Init, Outgoing
<1>3. InOrder
  BY <1>2 DEF InOrder
<1>4. QED
  BY <1>1, <1>3 DEF OrderInv

\* What carries no message leaves the order alone.
LEMMA OthersKeepOrder ==
    ASSUME InOrder, UNCHANGED <<sendCh, writer, task, toServer, received>>
    PROVE  InOrder'
<1>1. Outgoing' = Outgoing
  BY DEF Outgoing
<1>2. QED
  BY <1>1 DEF InOrder

\* Each step of main, of the client's loops and of the server keeps the order.
LEMMA StepInOrder ==
    ASSUME OrderInv, [ConsoleNext]_allVars
    PROVE  InOrder'
<1>1. Correlated /\ InOrder /\ ConsoleInv /\ TypeOK
  BY DEF OrderInv, ConsoleInv
<1> USE DEF callVars, writeVars, serverVars
<1>2. CASE Start
  BY <1>1, <1>2, OthersKeepOrder DEF Start, OnMessage
<1>3. CASE Choose
  BY <1>1, <1>3, OthersKeepOrder DEF Choose, TakeId
<1>4. CASE InRequest
  <2>1. at = "request" /\ cur \in Requests
    BY <1>1, <1>4 DEF InRequest, ConsoleInv
  <2>2. CASE Register(cur)
    BY <1>1, <2>2, OthersKeepOrder DEF Register
  <2>3. CASE EnqueueRequest(cur)
    <3>1. RequestMsg(cur) \in Message
      BY <1>1, <2>1, MessagesOut
    <3>2. \A m \in GoodMessages : Before(m, RequestMsg(cur))
      BY <2>1, RequestIsLast
    <3>3. QED
      BY <1>1, <2>3, <3>1, <3>2, QueueingKeepsOrder DEF EnqueueRequest
  <2>4. QED
    BY <1>4, <2>2, <2>3 DEF InRequest
<1>5. CASE Receive
  BY <1>1, <1>5, OthersKeepOrder DEF Receive, Await
<1>6. CASE EnterGame
  BY <1>1, <1>6, OthersKeepOrder DEF EnterGame, StartNotify
<1>7. CASE Unparsed
  BY <1>1, <1>7, OthersKeepOrder DEF Unparsed, vars
<1>8. CASE End
  BY <1>1, <1>8, OthersKeepOrder DEF End
<1>9. CASE InNotify
  <2>1. PICK n \in Notifies : EnqueueNotify(n)
    BY <1>9 DEF InNotify
  <2>2. NotifyMsg(n) \in Message /\ \A m \in GoodMessages : Before(m, NotifyMsg(n))
    BY <1>1, MessagesOut, NotesHaveNoOrder
  <2>3. QED
    BY <1>1, <2>1, <2>2, QueueingKeepsOrder DEF EnqueueNotify
<1>10. CASE WriteLoop
  BY <1>1, <1>10, WriterKeepsOrder
<1>11. CASE ReadLoop
  <2>1. CASE ReaderNotify
    <3>1. reader \in ReaderNotes
      BY <2>1 DEF ReaderNotify
    <3>2. NotifyMsg(reader) \in Message /\ \A m \in GoodMessages : Before(m, NotifyMsg(reader))
      BY <1>1, <3>1, MessagesOut, NotesHaveNoOrder
    <3>3. QED
      BY <1>1, <2>1, <3>2, QueueingKeepsOrder DEF ReaderNotify
  <2>2. CASE ReadPackets
    BY <1>1, <2>2, OthersKeepOrder DEF ReadPackets
  <2>3. CASE ReadFail
    BY <1>1, <2>3, OthersKeepOrder DEF ReadFail
  <2>4. CASE BatchDone
    BY <1>1, <2>4, OthersKeepOrder DEF BatchDone
  <2>5. CASE HandleResponse
    BY <1>1, <2>5, OthersKeepOrder DEF HandleResponse
  <2>6. CASE HandleHeartbeat
    BY <1>1, <2>6, OthersKeepOrder DEF HandleHeartbeat
  <2>7. CASE HandlePush
    BY <1>1, <2>7, OthersKeepOrder DEF HandlePush
  <2>8. CASE HandleFatal
    BY <1>1, <2>8, OthersKeepOrder DEF HandleFatal
  <2>9. CASE HandleIgnored
    BY <1>1, <2>9, OthersKeepOrder DEF HandleIgnored
  <2>10. QED
    BY <1>11, <2>1, <2>2, <2>3, <2>4, <2>5, <2>6, <2>7, <2>8, <2>9 DEF ReadLoop
<1>12. CASE Server
  <2>1. CASE ServerRead
    BY <1>1, <2>1, ServerReadKeepsOrder
  <2>2. CASE ServerReply
    BY <1>1, <2>2, OthersKeepOrder DEF ServerReply
  <2>3. CASE ServerSend
    BY <1>1, <2>3, OthersKeepOrder DEF ServerSend
  <2>4. CASE ServerGone
    BY <1>1, <2>4, OthersKeepOrder DEF ServerGone
  <2>5. QED
    BY <1>12, <2>1, <2>2, <2>3, <2>4 DEF Server
<1>13. CASE UNCHANGED allVars
  BY <1>1, <1>13, OthersKeepOrder DEF allVars, vars
<1>14. QED
  BY <1>2, <1>3, <1>4, <1>5, <1>6, <1>7, <1>8, <1>9, <1>10, <1>11, <1>12, <1>13
     DEF ConsoleNext, Main, Loops, WrongAck, Quit, Panic

\* Only Choose draws an id, and then it is the command's.
LEMMA StepLatest ==
    ASSUME OrderInv, [ConsoleNext]_allVars
    PROVE  (at = "request" => id[cur] = idSeq)'
<1>1. /\ at = "request" => id[cur] = idSeq
      /\ id \in [Requests -> Ids]
  BY DEF OrderInv, Correlated, ById, TypeOK
<1>2. CASE Choose
  <2>1. cur' \in Requests /\ TakeId(cur')
    BY <1>2 DEF Choose, Unused
  <2>2. id'[cur'] = idSeq'
    BY <1>1, <2>1 DEF TakeId
  <2>3. QED
    BY <2>2
<1>3. ASSUME at' = at \/ at' # "request", UNCHANGED <<cur, id, idSeq>>
      PROVE  (at = "request" => id[cur] = idSeq)'
  BY <1>1, <1>3
<1>4. CASE Start \/ InRequest \/ Receive \/ EnterGame \/ Unparsed \/ InNotify \/ End
  <2>1. UNCHANGED <<cur, id, idSeq>>
    BY <1>4 DEF Start, InRequest, Receive, EnterGame, Unparsed, InNotify, End, OnMessage,
                Register, EnqueueRequest, Await, StartNotify, EnqueueNotify,
                callVars, vars
  <2>2. at' = at \/ at' # "request"
    BY <1>4 DEF Start, InRequest, Receive, EnterGame, Unparsed, InNotify, End
  <2>3. QED
    BY <1>3, <2>1, <2>2
<1>5. CASE Loops \/ (Server /\ UNCHANGED consoleVars)
  <2>1. UNCHANGED <<at, cur>>
    BY <1>5 DEF Loops, consoleVars
  <2>2. UNCHANGED <<id, idSeq>>
    BY <1>5 DEF Loops, WriteLoop, ReadLoop, Server, WriterTake, WriterWrite, WriterFail,
                ReadPackets, ReadFail, BatchDone, HandleResponse, HandleHeartbeat, HandlePush,
                ReaderNotify, HandleFatal, HandleIgnored, ServerRead, ServerReply, ServerSend,
                ServerGone, callVars
  <2>3. QED
    BY <1>3, <2>1, <2>2
<1>6. CASE UNCHANGED allVars
  BY <1>3, <1>6 DEF allVars, vars, callVars, consoleVars
<1>7. QED
  BY <1>2, <1>4, <1>5, <1>6 DEF ConsoleNext, Main, WrongAck, Quit, Panic

\* Commands reach the server in the order in which they were typed, whatever the
\* sizes of the channel and the socket, as long as fewer requests are made than there
\* are message ids: a login that did not wait for its reply is never overtaken.
THEOREM InOrderAlways ==
    ASSUME NoWrap PROVE ConsoleSpec => []InOrder
<1>1. OrderInv /\ [ConsoleNext]_allVars => OrderInv'
  <2> SUFFICES ASSUME OrderInv, [ConsoleNext]_allVars PROVE OrderInv'
    OBVIOUS
  <2>1. ConsoleInv' /\ [Next]_vars
    BY ConsoleStepInv, ConsoleStepIsGoClientStep DEF OrderInv
  <2>2. Correlated'
    BY <2>1, StepCorrelated DEF OrderInv
  <2>3. QED
    BY <2>1, <2>2, StepInOrder, StepLatest DEF OrderInv
<1>2. OrderInv => InOrder
  BY DEF OrderInv
<1>3. QED
  BY <1>1, <1>2, OrderInit, PTL DEF ConsoleSpec

-----------------------------------------------------------------------------
(* Main looks at the reply to its command                                  *)

\* The inductive invariant of AckIsOfCommand: main has received a reply when it looks
\* at one, and its request is not among those that were announced without one.
AckInv ==
    /\ ConsoleInv
    /\ Correlated
    /\ at \in {"reply", "enter"} => cur \in Requests /\ cmd = "room" /\ reply[cur] # <<>>
    /\ \A r \in announced : pc[r] # "idle"
    /\ at \in {"request", "wait", "reply", "enter"} => cur \notin announced

\* A channel that has a reply keeps it.
LEMMA RepliesStay ==
    ASSUME TypeOK, WriteLoop \/ ReadLoop \/ Server,
           NEW r \in Requests, reply[r] # <<>>
    PROVE  reply'[r] # <<>>
<1> USE DEF callVars
<1>1. CASE HandleResponse
  <2> DEFINE m == Head(batch)
             q == pending[m.id]
  <2>1. batch # <<>> /\ m.kind = "response" /\ m \in Packet
    BY <1>1, QueueTail DEF HandleResponse, Dispatches, TypeOK
  <2>2. m.id \in Ids /\ m.call \in Requests
    BY <2>1 DEF Packet, ResponsePacket, OtherPacket, OtherKinds
  <2>3. CASE q = None
    BY <1>1, <2>3 DEF HandleResponse
  <2>4. CASE q # None
    <3>1. q \in Requests /\ reply \in [Requests -> Seq(Requests)]
      BY <2>2, <2>4 DEF TypeOK
    <3>2. reply' = [reply EXCEPT ![q] = Append(reply[q], m.call)]
      BY <1>1, <2>4 DEF HandleResponse
    <3>3. reply[q] \in Seq(Requests)
      BY <3>1
    <3>4. Append(reply[q], m.call) # <<>>
      BY <2>2, <3>3, AppendProperties, EmptySeq
    <3>5. QED
      BY <3>1, <3>2, <3>4
  <2>5. QED
    BY <2>3, <2>4
<1>2. CASE WriteLoop
  BY <1>2 DEF WriteLoop, WriterTake, WriterWrite, WriterFail
<1>3. CASE ReadLoop /\ ~HandleResponse
  BY <1>3 DEF ReadLoop, ReadPackets, ReadFail, BatchDone, HandleHeartbeat, HandlePush,
              ReaderNotify, HandleFatal, HandleIgnored
<1>4. CASE Server
  BY <1>4 DEF Server, ServerRead, ServerReply, ServerSend, ServerGone
<1>5. QED
  BY <1>1, <1>2, <1>3, <1>4

LEMMA AckInit == ConsoleInit => AckInv
<1> SUFFICES ASSUME ConsoleInit PROVE AckInv
  OBVIOUS
<1>1. ConsoleInv /\ Correlated
  BY ConsoleInitInv, InitCorrelated DEF ConsoleInit
<1>2. QED
  BY <1>1 DEF AckInv, ConsoleInit

LEMMA AckStep ==
    ASSUME NoWrap, AckInv, [ConsoleNext]_allVars
    PROVE  AckInv'
<1>1. ConsoleInv' /\ Correlated'
  BY ConsoleStepInv, ConsoleStepIsGoClientStep, StepCorrelated DEF AckInv
<1>2. TypeOK /\ pc \in [Calls -> CallStates] /\ Requests \subseteq Calls
      /\ Notifies \subseteq Calls /\ announced \subseteq Requests
  BY DEF AckInv, ConsoleInv, ConsoleTypeOK, TypeOK, Calls
<1> USE <1>1 DEF AckInv
<1>3. CASE Start
  BY <1>3 DEF Start, OnMessage, callVars
<1>4. CASE Choose
  <2>1. cur' \in Requests /\ pc[cur'] = "idle"
    BY <1>4 DEF Choose, Unused
  <2>2. UNCHANGED announced /\ at' = "request" /\ pc' = [pc EXCEPT ![cur'] = "register"]
    BY <1>4 DEF Choose, TakeId
  <2>3. QED
    BY <1>2, <2>1, <2>2
<1>5. CASE InRequest
  <2>1. at = "request" /\ cur \in Requests /\ cur \notin announced
    BY <1>5 DEF InRequest, ConsoleInv
  <2>2. CASE Register(cur)
    BY <1>2, <1>5, <2>1, <2>2 DEF InRequest, Register, EnqueueRequest
  <2>3. CASE EnqueueRequest(cur)
    BY <1>2, <1>5, <2>1, <2>3 DEF InRequest, Register, EnqueueRequest
  <2>4. QED
    BY <1>5, <2>2, <2>3 DEF InRequest
<1>6. CASE Receive
  <2>1. cur \in Requests /\ cmd = "room" /\ cur \notin announced
    BY <1>6 DEF Receive, ConsoleInv, ConsoleTypeOK
  <2>2. QED
    BY <1>2, <1>6, <2>1 DEF Receive, Await
<1>7. CASE EnterGame
  <2>1. PICK n \in Notifies : StartNotify(n)
    BY <1>7 DEF EnterGame, Unused
  <2>2. QED
    BY <1>2, <1>7, <2>1 DEF EnterGame, StartNotify
<1>8. CASE Unparsed
  BY <1>8 DEF Unparsed, vars, callVars
<1>9. CASE End
  BY <1>9 DEF End, callVars
<1>10. CASE InNotify
  BY <1>2, <1>10 DEF InNotify, EnqueueNotify
<1>11. CASE Loops \/ (Server /\ UNCHANGED consoleVars)
  <2>1. UNCHANGED <<pc, at, cmd, cur, announced>>
    BY <1>11, LoopsLeaveCalls DEF Loops, consoleVars
  <2>2. \A r \in Requests : reply[r] # <<>> => reply'[r] # <<>>
    BY <1>2, <1>11, RepliesStay DEF Loops
  <2>3. QED
    BY <2>1, <2>2
<1>12. CASE UNCHANGED allVars
  BY <1>12 DEF allVars, vars, callVars, consoleVars
<1>13. QED
  BY <1>3, <1>4, <1>5, <1>6, <1>7, <1>8, <1>9, <1>10, <1>11, <1>12
     DEF ConsoleNext, Main, WrongAck, Quit, Panic

\* The reply main looks at, and enters a game on, is the server's reply to the request
\* of the command it is executing, however many logins before it are still unanswered,
\* as long as fewer requests are made than there are message ids.
THEOREM AckIsOfCommandAlways ==
    ASSUME NoWrap PROVE ConsoleSpec => []AckIsOfCommand
<1>1. AckInv /\ [ConsoleNext]_allVars => AckInv'
  BY AckStep
<1>2. AckInv => AckIsOfCommand
  <2> SUFFICES ASSUME AckInv, at \in {"reply", "enter"}
               PROVE  /\ cmd = "room" /\ reply[cur] = <<cur>>
                      /\ replies[cur] > 0 /\ cur \notin announced
    BY DEF AckIsOfCommand
  <2>1. cur \in Requests /\ cmd = "room" /\ reply[cur] # <<>> /\ cur \notin announced
    BY DEF AckInv
  <2>2. QED
    BY <2>1 DEF AckInv, Correlated, RepliesFaithful
<1>3. QED
  BY <1>1, <1>2, AckInit, PTL DEF ConsoleSpec
=============================================================================
