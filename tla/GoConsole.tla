----------------------------- MODULE GoConsole ------------------------------
(***************************************************************************)
(* The console of src/main.go on top of the Go client: main's menu loop    *)
(* and its commands, the waits for a reply, EnterGame, and the three ways  *)
(* the process ends.  Everything the client does is GoClient's; the        *)
(* console decides when it is called.                                      *)
(*                                                                         *)
(* A command's request is one of Requests, an EnterGame of main's one of   *)
(* Notifies; HandlePush of GoClient has the EnterGame of the callback.     *)
(***************************************************************************)
EXTENDS GoClient

VARIABLES
    at,         \* where main is
    cmd,        \* the command it is executing
    cur,        \* the request of that command
    announced   \* the requests of logins and registrations reported as successful

consoleVars == <<at, cmd, cur, announced>>
allVars     == <<vars, consoleVars>>

ConsoleInit ==
    /\ Init
    /\ at = "start"
    /\ cmd = None
    /\ cur = None
    /\ announced = {}

Running == at # "ended"

\* Each command makes new calls of the client; which ones makes no difference.
Unused(calls) == {c \in calls : pc[c] = "idle"}

-----------------------------------------------------------------------------
(* Slips the code does not make.                                           *)

\* cli.Request that gives up when sendCh is full.
InRequestGivesUp ==
    /\ at = "request"
    /\ \/ Register(cur) /\ UNCHANGED <<at, announced>>
       \/ /\ \/ EnqueueRequest(cur)
             \/ pc[cur] = "enqueue" /\ Len(sendCh) = SendCap /\ UNCHANGED vars
          /\ at' = IF cmd = "login" THEN "menu" ELSE "wait"
          /\ announced' = announced \cup {r \in {cur} : cmd = "login"}
    /\ UNCHANGED <<cmd, cur>>

\* A command that does not return when the reply does not parse.
UnparsedGoesOn ==
    /\ at = "reply"
    /\ at' = "enter"
    /\ UNCHANGED <<vars, cmd, cur, announced>>

-----------------------------------------------------------------------------
(* main                                                                    *)

\* cli.OnMessage(OnMessage)
Start ==
    /\ at = "start"
    /\ OnMessage
    /\ at' = "menu"
    /\ UNCHANGED <<cmd, cur, announced>>

\* "1" and "2", "3", "4": the command calls cli.Request.  register differs from
\* login in what it prints, JoinRoom from CreateRoom in what it asks for.
Choose ==
    /\ at = "menu"
    /\ Unused(Requests) # {}
    /\ cur' = CHOOSE r \in Unused(Requests) : TRUE
    /\ TakeId(cur')
    /\ cmd' \in {"login", "room"}
    /\ at' = "request"
    /\ UNCHANGED announced

\* The rest of cli.Request.  login does not look at the channel it returns: it
\* reports success.  CreateRoom and JoinRoom wait: res := <-resCh.
InRequest ==
    /\ at = "request"
    /\ \/ Register(cur) /\ UNCHANGED <<at, announced>>
       \/ /\ EnqueueRequest(cur)
          /\ at' = IF cmd = "login" THEN "menu" ELSE "wait"
          /\ announced' = announced \cup {r \in {cur} : cmd = "login"}
    /\ UNCHANGED <<cmd, cur>>

\* The reply is there.
Receive ==
    /\ at = "wait"
    /\ Await(cur)
    /\ at' = "reply"
    /\ UNCHANGED <<cmd, cur, announced>>

\* The process is gone: its goroutines stop where they are, its socket is closed.
End ==
    /\ at' = "ended"
    /\ conn' = "closed"
    /\ UNCHANGED <<callVars, sendCh, writeVars, readVars, onMsg, toServer, toClient,
                   serverVars, cmd, cur, announced>>

\* The reply is the ack that was asked for, and EnterGame calls g_client.Notify; or
\* it does not parse, and main is back in its menu; or it holds an ack of another
\* type, and the type assertion panics.
EnterGame ==
    /\ at = "reply"
    /\ Unused(Notifies) # {}
    /\ StartNotify(CHOOSE n \in Unused(Notifies) : TRUE)
    /\ at' = "enter"
    /\ UNCHANGED <<cmd, cur, announced>>

Unparsed ==
    /\ at = "reply"
    /\ at' = "menu"
    /\ UNCHANGED <<vars, cmd, cur, announced>>

WrongAck == at = "reply" /\ End

\* The rest of g_client.Notify.
InNotify ==
    /\ at = "enter"
    /\ \E n \in Notifies : EnqueueNotify(n)
    /\ at' = "menu"
    /\ UNCHANGED <<cmd, cur, announced>>

\* "q": os.Exit(0), without cli.Close.
Quit == at = "menu" /\ End

\* message.Decode indexes past the end of a truncated message: the panic is readLoop's,
\* which has no handler, and ends the process.
Panic == Running /\ Dispatches({"undecodable"}) /\ End

-----------------------------------------------------------------------------
Main == Start \/ Choose \/ InRequest \/ Receive \/ EnterGame \/ Unparsed \/ WrongAck
          \/ InNotify \/ Quit

Loops == Running /\ (WriteLoop \/ ReadLoop) /\ UNCHANGED consoleVars

ConsoleNext ==
    \/ Main
    \/ Loops
    \/ Panic
    \/ Server /\ UNCHANGED consoleVars

ConsoleSpec == ConsoleInit /\ [][ConsoleNext]_allVars

\* The goroutines run when they can.  Main's next command is up to its user.
ConsoleFairSpec ==
    /\ ConsoleSpec
    /\ WF_allVars(InRequest \/ Receive \/ EnterGame \/ Unparsed \/ WrongAck \/ InNotify)
    /\ WF_allVars(Running /\ WriteLoop /\ UNCHANGED consoleVars)
    /\ WF_allVars(Running /\ ReadLoop /\ UNCHANGED consoleVars)
    /\ WF_allVars(ServerRead /\ UNCHANGED consoleVars)

-----------------------------------------------------------------------------
(* Properties                                                              *)

\* Where main is fits what the client does for it.
ConsoleTypeOK ==
    /\ at \in {"start", "menu", "request", "wait", "reply", "enter", "ended"}
    /\ cmd \in {None, "login", "room"}
    /\ cur \in Requests \cup {None}
    /\ announced \subseteq Requests
    /\ at = "start" => ~onMsg
    /\ ~onMsg => at \in {"start", "ended"}
    /\ at = "request" => pc[cur] \in {"register", "enqueue"}
    /\ at = "wait" => pc[cur] = "await" /\ cmd = "room"
    /\ at = "enter" => \E n \in Notifies : pc[n] = "enqueue"
    /\ at = "ended" => conn = "closed"

\* The reply a command looks at, and enters a game on, is the server's reply to the
\* request of that very command: never the one of a login or a registration before it,
\* whose reply nobody received.  On any other, main's type assertion panics.
AckIsOfCommand ==
    at \in {"reply", "enter"} =>
        cmd = "room" /\ reply[cur] = <<cur>> /\ replies[cur] > 0 /\ cur \notin announced

\* The messages on their way to the server, the next one to arrive first.
Outgoing == toServer \o (IF writer = "write" THEN <<task>> ELSE <<>>) \o sendCh

\* Two requests are in the order of their ids, that is, of the commands.
Before(m, n) == m.type = "request" /\ n.type = "request" => m.id < n.id

\* Through the channel, writeLoop and the socket, commands reach the server in the
\* order in which they were typed: a login before the room created after it, even
\* though login does not wait for its reply.
InOrder ==
    /\ \A i, j \in DOMAIN Outgoing : i < j => Before(Outgoing[i], Outgoing[j])
    /\ \A m \in received, i \in DOMAIN Outgoing : Before(m, Outgoing[i])

\* What "登录成功" (login succeeded) amounts to: the request does reach the server, unless
\* the connection or the process ends first.
AnnouncedArrives ==
    \A r \in Requests :
        r \in announced ~>
            \/ \E m \in received : m.call = r
            \/ conn = "closed" \/ peer = "down" \/ writer = "exited"

\* A command whose reply the server has sent comes to an end: main, which reads no
\* key while it waits, gets back to its menu, or the process ends.  Otherwise the
\* connection has ended, which main is not told, or writeLoop has, or readLoop has
\* the reply in buf and never decodes it.
AnsweredReturns ==
    \A r \in Requests :
        (at = "wait" /\ cur = r /\ InFlight(r)) ~>
            (at \in {"menu", "ended"} \/ conn = "closed" \/ writer = "exited"
                \/ []Stranded(r))
=============================================================================
