--------------------------- MODULE MessagesProofs ---------------------------
(***************************************************************************)
(* The route dictionary under every interleaving of handshakes, messages,  *)
(* disconnects and the application's own calls, for any clients, routes    *)
(* and dictionaries: its two halves agree as long as what is registered is *)
(* one to one, and a message that was encoded under one state of it and is *)
(* decoded under another is read as it was meant, or is rejected for one   *)
(* of the reasons that Messages lists.                                     *)
(***************************************************************************)
EXTENDS Messages, MessageCodecProofs

\* What is in either half was registered as a pair.  HalvesAgree alone is not
\* inductive: a new pair must not share its code with an old route.
Recorded ==
    /\ \A route \in DOMAIN sRoutes : <<route, sRoutes[route]>> \in registered
    /\ \A code \in DOMAIN sCodes : <<sCodes[code], code>> \in registered

DictInv == Recorded /\ HalvesAgree

\* HalvesAgree with the reads of the dictionary written out.
LEMMA HalvesAgreeDef ==
    HalvesAgree <=>
        (OneToOne(registered) =>
            /\ \A r \in DOMAIN sRoutes : sRoutes[r] \in DOMAIN sCodes /\ sCodes[sRoutes[r]] = r
            /\ \A k \in DOMAIN sCodes : sCodes[k] \in DOMAIN sRoutes /\ sRoutes[sCodes[k]] = k)
BY DEF HalvesAgree, RouteByCode, CodeByRoute

\* Pairs that are one to one are so without some of them.
LEMMA OneToOneSubset ==
    ASSUME NEW P, NEW Q, P \subseteq Q, OneToOne(Q)
    PROVE  OneToOne(P)
BY DEF OneToOne

\* In pairs that are one to one, equal codes have equal routes and the other way round.
LEMMA OneToOnePairs ==
    ASSUME NEW P, OneToOne(P), NEW r, NEW s, NEW k, NEW l, <<r, k>> \in P, <<s, l>> \in P
    PROVE  r = s <=> k = l
BY <<r, k>>[1] = r, <<r, k>>[2] = k, <<s, l>>[1] = s, <<s, l>>[2] = l DEF OneToOne

\* RegisterRoute keeps the two halves in step.
LEMMA RegisterRouteDictInv ==
    ASSUME NEW route, NEW code, DictInv, RegisterRoute(route, code)
    PROVE  DictInv'
<1>1. Recorded'
  BY DEF DictInv, Recorded, RegisterRoute, Put
<1>2. HalvesAgree'
  <2>1. SUFFICES ASSUME OneToOne(registered')
                 PROVE  /\ \A r \in DOMAIN sRoutes' :
                              sRoutes'[r] \in DOMAIN sCodes' /\ sCodes'[sRoutes'[r]] = r
                        /\ \A k \in DOMAIN sCodes' :
                              sCodes'[k] \in DOMAIN sRoutes' /\ sRoutes'[sCodes'[k]] = k
    BY DEF HalvesAgree, RouteByCode, CodeByRoute
  <2>2. OneToOne(registered)
    BY <2>1, OneToOneSubset DEF RegisterRoute
  <2>3. /\ \A r \in DOMAIN sRoutes : sRoutes[r] \in DOMAIN sCodes /\ sCodes[sRoutes[r]] = r
        /\ \A k \in DOMAIN sCodes : sCodes[k] \in DOMAIN sRoutes /\ sRoutes[sCodes[k]] = k
    BY <2>2, HalvesAgreeDef DEF DictInv
  <2>4. ASSUME NEW r \in DOMAIN sRoutes PROVE r = route <=> sRoutes[r] = code
    <3>1. <<r, sRoutes[r]>> \in registered' /\ <<route, code>> \in registered'
      BY DEF DictInv, Recorded, RegisterRoute, Put
    <3>2. QED
      BY ONLY <2>1, <3>1, OneToOnePairs
  <2>5. ASSUME NEW k \in DOMAIN sCodes PROVE sCodes[k] = route <=> k = code
    <3>1. <<sCodes[k], k>> \in registered' /\ <<route, code>> \in registered'
      BY DEF DictInv, Recorded, RegisterRoute, Put
    <3>2. QED
      BY ONLY <2>1, <3>1, OneToOnePairs
  <2>6. QED
    BY <2>3, <2>4, <2>5 DEF RegisterRoute, Put
<1>3. QED
  BY <1>1, <1>2 DEF DictInv

\* UnregisterRoute keeps the two halves in step.
LEMMA UnregisterRouteDictInv ==
    ASSUME NEW route, DictInv, UnregisterRoute(route)
    PROVE  DictInv'
<1>1. Recorded'
  BY DEF DictInv, Recorded, UnregisterRoute, Erase
<1>2. HalvesAgree'
  <2>1. SUFFICES ASSUME OneToOne(registered)
                 PROVE  /\ \A r \in DOMAIN sRoutes' :
                              sRoutes'[r] \in DOMAIN sCodes' /\ sCodes'[sRoutes'[r]] = r
                        /\ \A k \in DOMAIN sCodes' :
                              sCodes'[k] \in DOMAIN sRoutes' /\ sRoutes'[sCodes'[k]] = k
    BY DEF HalvesAgree, RouteByCode, CodeByRoute, UnregisterRoute
  <2>2. /\ \A r \in DOMAIN sRoutes : sRoutes[r] \in DOMAIN sCodes /\ sCodes[sRoutes[r]] = r
        /\ \A k \in DOMAIN sCodes : sCodes[k] \in DOMAIN sRoutes /\ sRoutes[sCodes[k]] = k
    BY <2>1, HalvesAgreeDef DEF DictInv
  <2>3. QED
    BY <2>2 DEF UnregisterRoute, Erase
<1>3. QED
  BY <1>1, <1>2 DEF DictInv

\* A step that leaves the dictionary alone.
LEMMA DictUnchanged ==
    ASSUME DictInv, UNCHANGED dictVars
    PROVE  DictInv'
BY DEF DictInv, Recorded, HalvesAgree, RouteByCode, CodeByRoute, dictVars

\* Initially the dictionary is empty, and every step keeps its halves in step.
THEOREM DictInvInductive ==
    /\ Init => DictInv
    /\ DictInv /\ [Next]_vars => DictInv'
<1>1. Init => DictInv
  BY DEF Init, DictInit, NoEntries, DictInv, Recorded, HalvesAgree
<1>2. ASSUME DictInv, [Next]_vars PROVE DictInv'
  <2>1. CASE UNCHANGED vars
    BY <1>2, <2>1, DictUnchanged DEF vars
  <2>2. ASSUME NEW c \in Clients, RegisterNext(c) PROVE DictInv'
    BY <1>2, <2>2, RegisterRouteDictInv DEF RegisterNext
  <2>3. CASE Unregister
    BY <1>2, <2>3, UnregisterRouteDictInv DEF Unregister
  <2>4. ASSUME NEW c \in Clients,
               \/ Handshake(c) \/ Ack(c) \/ Disconnect(c)
               \/ ClientSend(c) \/ ServerSend(c) \/ ServerGarbage(c)
        PROVE  DictInv'
    <3>1. UNCHANGED dictVars
      BY <2>4 DEF Handshake, Ack, Disconnect, ClientSend, ServerSend, ServerGarbage
    <3>2. QED
      BY <1>2, <3>1, DictUnchanged
  <2>5. CASE Arrive
    BY <1>2, <2>5, DictUnchanged DEF Arrive
  <2>6. QED
    BY <1>2, <2>1, <2>2, <2>3, <2>4, <2>5 DEF Next
<1>3. QED
  BY <1>1, <1>2

\* In every reachable state the halves of the dictionary agree, if all that was ever
\* registered, by whichever clients and in whatever order, is one to one.
THEOREM HalvesAlwaysAgree == Spec => []HalvesAgree
<1>1. DictInv => HalvesAgree
  BY DEF DictInv
<1>2. QED
  BY <1>1, DictInvInductive, PTL DEF Spec

-----------------------------------------------------------------------------
(* The type invariant                                                      *)

\* A set of one message, and of none.
LEMMA OneMessage == Cardinality({}) <= 1 /\ \A f : Cardinality({f}) <= 1
BY FS_EmptySet, FS_Singleton

\* TypeOK without the dictionary, and what it says of the dictionary.
ConnectionsOK ==
    /\ kind \in [Clients -> {"go", "cpp"}]
    /\ DOMAIN conn = Clients
    /\ \A c \in Clients :
          /\ conn[c].at \in {"off", "handshake", "on"}
          /\ conn[c].dict \in Dicts \cup {NoEntries}
          /\ conn[c].todo \subseteq DOMAIN conn[c].dict
          /\ conn[c].at = "on" => conn[c].todo = {}

FlightOK ==
    /\ flight = {} \/ \E f : flight = {f}
    /\ \A f \in flight :
          f.client \in Clients /\ conn[f.client].at = "on" /\ f.means \subseteq ToServer \cup ToClient

DictOK ==
    /\ DOMAIN sRoutes \subseteq Routes /\ {sCodes[k] : k \in DOMAIN sCodes} \subseteq Routes
    /\ registered \subseteq UNION {Pairs(dict) : dict \in Dicts}

TypeInv == ConnectionsOK /\ FlightOK /\ DictOK /\ crashed \subseteq Clients

LEMMA TypeInvIsEnough == TypeInv => TypeOK
BY OneMessage DEF TypeInv, ConnectionsOK, FlightOK, DictOK, TypeOK

\* A step that leaves the messages alone, and disconnects nobody who is connected.
LEMMA FlightKept ==
    ASSUME FlightOK, UNCHANGED flight,
           \A c \in Clients : conn[c].at = "on" => conn'[c].at = "on"
    PROVE  FlightOK'
<1>1. flight' = {} \/ \E f : flight' = {f}
  BY DEF FlightOK
<1>2. ASSUME NEW f \in flight'
      PROVE  /\ f.client \in Clients /\ conn'[f.client].at = "on"
             /\ f.means \subseteq ToServer \cup ToClient
  BY <1>2 DEF FlightOK
<1>3. QED
  BY <1>1, <1>2 DEF FlightOK

LEMMA InitTypeInv == Init => TypeInv
<1> SUFFICES ASSUME Init PROVE TypeInv
  OBVIOUS
<1>1. ConnectionsOK
  <2>1. Off.at = "off" /\ Off.dict = NoEntries /\ Off.todo = {}
    BY DEF Off
  <2>2. kind \in [Clients -> {"go", "cpp"}] /\ conn = [c \in Clients |-> Off]
    BY DEF Init
  <2>3. QED
    BY <2>1, <2>2 DEF ConnectionsOK
<1>2. FlightOK
  BY DEF Init, FlightOK
<1>3. DictOK
  BY DEF Init, DictInit, NoEntries, DictOK
<1>4. QED
  BY <1>1, <1>2, <1>3 DEF Init, TypeInv

\* What is put on its way to or from a client that is connected.
LEMMA FlyTypeInv ==
    ASSUME TypeInv, NEW c \in Clients, conn[c].at = "on",
           NEW to, NEW raw, NEW means \in SUBSET (ToServer \cup ToClient), NEW zipped,
           Fly(c, to, raw, means, zipped), UNCHANGED <<kind, conn, dictVars>>,
           crashed' \subseteq Clients
    PROVE  TypeInv'
<1>1. FlightOK'
  <2> DEFINE f == [client |-> c, to |-> to, raw |-> raw, means |-> means, zipped |-> zipped]
  <2>1. flight' = {f} /\ f.client = c /\ f.means = means
    BY DEF Fly
  <2>2. conn' = conn
    OBVIOUS
  <2>3. c \in Clients /\ conn'[c].at = "on" /\ means \subseteq ToServer \cup ToClient
    BY <2>2
  <2>4. QED
    BY <2>1, <2>3 DEF FlightOK
<1>2. ConnectionsOK' /\ DictOK'
  BY DEF TypeInv, ConnectionsOK, DictOK, dictVars
<1>3. QED
  BY <1>1, <1>2 DEF TypeInv

LEMMA StepTypeInv == TypeInv /\ [Next]_vars => TypeInv'
<1> SUFFICES ASSUME TypeInv, [Next]_vars PROVE TypeInv'
  OBVIOUS
<1>1. ASSUME NEW c \in Clients, Handshake(c) PROVE TypeInv'
  <2>1. PICK dict \in Dicts :
            conn' = [conn EXCEPT ![c] =
                        IF kind[c] = "go" THEN [at |-> "on", dict |-> dict, todo |-> {}]
                        ELSE [at |-> "handshake", dict |-> dict, todo |-> DOMAIN dict]]
    BY <1>1 DEF Handshake
  <2>2. ConnectionsOK'
    BY <1>1, <2>1 DEF Handshake, TypeInv, ConnectionsOK
  <2>3. FlightOK'
    <3>1. \A x \in Clients : conn[x].at = "on" => conn'[x] = conn[x]
      BY <1>1, <2>1 DEF Handshake, TypeInv, ConnectionsOK
    <3>2. FlightOK /\ UNCHANGED flight
      BY <1>1 DEF Handshake, TypeInv
    <3>3. QED
      BY <3>1, <3>2, FlightKept
  <2>4. DictOK'
    BY <1>1 DEF Handshake, TypeInv, DictOK, dictVars
  <2>5. QED
    BY <1>1, <2>2, <2>3, <2>4 DEF Handshake, TypeInv
<1>2. ASSUME NEW c \in Clients, RegisterNext(c) PROVE TypeInv'
  <2>1. PICK route \in conn[c].todo :
            /\ RegisterRoute(route, conn[c].dict[route])
            /\ conn' = [conn EXCEPT ![c].todo = @ \ {route}]
    BY <1>2 DEF RegisterNext
  <2>2. conn[c].dict \in Dicts /\ route \in DOMAIN conn[c].dict
    BY <2>1 DEF TypeInv, ConnectionsOK, NoEntries
  <2>3. route \in Routes /\ <<route, conn[c].dict[route]>> \in Pairs(conn[c].dict)
    BY <2>2, MessagesAssumption DEF Pairs
  <2>4. DictOK'
    BY <2>1, <2>2, <2>3 DEF RegisterRoute, Put, DictOK, TypeInv
  <2>5. ConnectionsOK'
    BY <1>2, <2>1 DEF RegisterNext, TypeInv, ConnectionsOK
  <2>6. FlightOK'
    <3>1. \A x \in Clients : conn'[x].at = conn[x].at
      BY <2>1 DEF TypeInv, ConnectionsOK
    <3>2. FlightOK /\ UNCHANGED flight
      BY <1>2 DEF RegisterNext, TypeInv
    <3>3. QED
      BY <3>1, <3>2, FlightKept
  <2>7. QED
    BY <1>2, <2>4, <2>5, <2>6 DEF RegisterNext, TypeInv
<1>3. ASSUME NEW c \in Clients, Ack(c) PROVE TypeInv'
  <2>1. conn' = [conn EXCEPT ![c].at = "on"] /\ conn[c].at = "handshake" /\ conn[c].todo = {}
    BY <1>3 DEF Ack
  <2>2. ConnectionsOK'
    BY <1>3, <2>1 DEF Ack, TypeInv, ConnectionsOK
  <2>3. FlightOK'
    <3>1. \A x \in Clients : conn[x].at = "on" => conn'[x].at = "on"
      BY <2>1 DEF TypeInv, ConnectionsOK
    <3>2. FlightOK /\ UNCHANGED flight
      BY <1>3 DEF Ack, TypeInv
    <3>3. QED
      BY <3>1, <3>2, FlightKept
  <2>4. DictOK'
    BY <1>3 DEF Ack, TypeInv, DictOK, dictVars
  <2>5. QED
    BY <1>3, <2>2, <2>3, <2>4 DEF Ack, TypeInv
<1>4. ASSUME NEW c \in Clients, Disconnect(c) PROVE TypeInv'
  <2>1. ConnectionsOK' /\ DictOK'
    BY <1>4 DEF Disconnect, Off, NoEntries, TypeInv, ConnectionsOK, DictOK, dictVars
  <2>2. FlightOK'
    <3>1. flight' = {f \in flight : f.client # c} /\ conn' = [conn EXCEPT ![c] = Off]
      BY <1>4 DEF Disconnect
    <3>2. flight' = {} \/ \E f : flight' = {f}
      BY <3>1 DEF TypeInv, FlightOK
    <3>3. ASSUME NEW f \in flight'
          PROVE  /\ f.client \in Clients /\ conn'[f.client].at = "on"
                 /\ f.means \subseteq ToServer \cup ToClient
      BY <3>1, <3>3 DEF TypeInv, ConnectionsOK, FlightOK
    <3>4. QED
      BY <3>2, <3>3 DEF FlightOK
  <2>3. QED
    BY <1>4, <2>1, <2>2 DEF Disconnect, TypeInv
<1>5. CASE Unregister
  <2>1. DictOK'
    BY <1>5 DEF Unregister, UnregisterRoute, Erase, TypeInv, DictOK
  <2>2. QED
    BY <1>5, <2>1 DEF Unregister, TypeInv, ConnectionsOK, FlightOK
<1>6. ASSUME NEW c \in Clients, ClientSend(c) PROVE TypeInv'
  <2>1. PICK m \in ToServer :
          \/ /\ Fly(c, "server", Encode(Encoding(c), m), {m}, FALSE)
             /\ UNCHANGED crashed
          \/ crashed' \subseteq Clients /\ UNCHANGED flight
    BY <1>6 DEF ClientSend, TypeInv, Together
  <2>2. conn[c].at = "on" /\ UNCHANGED <<kind, conn, dictVars>>
    BY <1>6 DEF ClientSend
  <2>3. CASE Fly(c, "server", Encode(Encoding(c), m), {m}, FALSE) /\ UNCHANGED crashed
    <3>1. {m} \in SUBSET (ToServer \cup ToClient) /\ crashed' \subseteq Clients
      BY <2>3 DEF TypeInv
    <3>2. QED
      BY <2>2, <2>3, <3>1, FlyTypeInv
  <2>4. CASE crashed' \subseteq Clients /\ UNCHANGED flight
    BY <2>2, <2>4 DEF TypeInv, ConnectionsOK, FlightOK, DictOK, dictVars
  <2>5. QED
    BY <2>1, <2>3, <2>4
<1>7. ASSUME NEW c \in Clients, ServerSend(c) PROVE TypeInv'
  <2>1. PICK m \in ToClient :
          \E raw : Fly(c, "client", raw, {m}, FALSE) \/ Fly(c, "client", raw, {m}, TRUE)
    BY <1>7 DEF ServerSend
  <2>2. /\ conn[c].at = "on" /\ UNCHANGED <<kind, conn, dictVars>>
        /\ crashed' \subseteq Clients /\ {m} \in SUBSET (ToServer \cup ToClient)
    BY <1>7 DEF ServerSend, TypeInv
  <2>3. QED
    BY <2>1, <2>2, FlyTypeInv
<1>8. ASSUME NEW c \in Clients, ServerGarbage(c) PROVE TypeInv'
  <2>1. PICK raw : Fly(c, "client", raw, {}, FALSE)
    BY <1>8 DEF ServerGarbage
  <2>2. /\ conn[c].at = "on" /\ UNCHANGED <<kind, conn, dictVars>>
        /\ crashed' \subseteq Clients /\ {} \in SUBSET (ToServer \cup ToClient)
    BY <1>8 DEF ServerGarbage, TypeInv
  <2>3. QED
    BY <2>1, <2>2, FlyTypeInv
<1>9. CASE Arrive
  <2>1. flight' = {} /\ UNCHANGED <<kind, dictVars>>
    BY <1>9 DEF Arrive
  <2>2. crashed' \subseteq Clients /\ \E c \in Clients : conn' = [conn EXCEPT ![c] = Off] \/ conn' = conn
    BY <1>9 DEF Arrive, TypeInv, FlightOK, Together
  <2>3. QED
    BY <2>1, <2>2 DEF Off, NoEntries, TypeInv, ConnectionsOK, FlightOK, DictOK, dictVars
<1>10. CASE UNCHANGED vars
  BY <1>10 DEF vars, TypeInv, ConnectionsOK, FlightOK, DictOK, dictVars
<1>11. QED
  BY <1>1, <1>2, <1>3, <1>4, <1>5, <1>6, <1>7, <1>8, <1>9, <1>10 DEF Next

\* Types, and what goes with them: a C++ client is connected only when all the routes
\* of the server's dictionary are registered, and a message is on its way only on a
\* connection that is there.
THEOREM TypeCorrect == Spec => []TypeOK
<1>1. QED
  BY TypeInvIsEnough, InitTypeInv, StepTypeInv, PTL DEF Spec

-----------------------------------------------------------------------------
(* What messages mean                                                      *)

\* What the encoder of a message on its way has done: a client's, with a code that its
\* process once registered for the route, or without any; a server's, with the code of
\* its own dictionary if the route has one.
SentByClient(f, m) ==
    /\ f.to = "server" /\ m \in ToServer /\ ~f.zipped
    /\ \/ f.raw = Raw(m, m.data, FALSE, FALSE, 0) /\ (kind[f.client] = "cpp" => Len(m.route) < Base)
       \/ /\ kind[f.client] = "cpp"
          /\ \E p \in registered : p[1] = m.route /\ f.raw = Raw(m, m.data, FALSE, TRUE, p[2])

SentByServer(f, m) ==
    LET dict == conn[f.client].dict
        data == IF f.zipped THEN Zip(m.data) ELSE m.data
    IN  /\ f.to = "client" /\ m \in ToClient /\ f.zipped \in BOOLEAN
        /\ \/ m.route \notin DOMAIN dict /\ f.raw = Raw(m, data, f.zipped, FALSE, 0)
           \/ m.route \in DOMAIN dict /\ f.raw = Raw(m, data, f.zipped, TRUE, dict[m.route])

Encoded ==
    \A f \in flight :
        f.raw.rest \in Seq(Byte) /\ \A m \in f.means : SentByClient(f, m) \/ SentByServer(f, m)

\* A C++ client has registered its server's dictionary, but for what it still has to.
Announced ==
    \A c \in Clients :
        kind[c] = "cpp" =>
            \A r \in DOMAIN conn[c].dict \ conn[c].todo : <<r, conn[c].dict[r]>> \in registered

\* What was registered is in the dictionary, unless the application has taken it out.
Kept == \A p \in registered : p[1] \in DOMAIN sRoutes \cup unregistered

\* The two properties below speak of one state; that a message was encoded under an
\* earlier one, with other entries, is what they need to know, and that entries which
\* are missing now were unregistered.
MeansInv == TypeInv /\ DictInv /\ Announced /\ Kept /\ Encoded

LEMMA SentIsMessage ==
    /\ \A m \in ToServer : m \in Message /\ Routable(m.type)
    /\ \A m \in ToClient : m \in Message /\ (Routable(m.type) => Len(m.route) < Base)
    /\ \A m \in ToServer \cup ToClient :
          m = [type |-> m.type, id |-> m.id, route |-> m.route, data |-> m.data, err |-> m.err]
<1>1. /\ Ids \subseteq 0 .. IdSpace - 1 /\ 0 \in 0 .. IdSpace - 1
      /\ Routes \subseteq Seq(Byte) /\ Datas \subseteq Seq(Byte) /\ <<>> \in Seq(Byte)
  BY MessagesAssumption, CodecAssumption, EmptyIsByteSeq
<1>2. /\ Request \in Request .. Push /\ Notify \in Request .. Push
      /\ Response \in Request .. Push /\ Push \in Request .. Push
      /\ HasId(Request) /\ Routable(Request) /\ ~HasId(Notify) /\ Routable(Notify)
      /\ HasId(Response) /\ ~Routable(Response) /\ ~HasId(Push) /\ Routable(Push)
  BY DEF HasId, Routable, Request, Notify, Response, Push
<1>3. ASSUME NEW m \in ToServer
      PROVE  /\ m \in Message /\ Routable(m.type)
             /\ m = [type |-> m.type, id |-> m.id, route |-> m.route, data |-> m.data, err |-> m.err]
  <2>1. CASE \E i \in Ids, r \in Routes, d \in Datas :
                 m = [type |-> Request, id |-> i, route |-> r, data |-> d, err |-> FALSE]
    BY <1>1, <1>2, <2>1 DEF Message
  <2>2. CASE \E r \in Routes, d \in Datas :
                 m = [type |-> Notify, id |-> 0, route |-> r, data |-> d, err |-> FALSE]
    BY <1>1, <1>2, <2>2 DEF Message
  <2>3. QED
    BY <2>1, <2>2 DEF ToServer
<1>4. ASSUME NEW m \in ToClient
      PROVE  /\ m \in Message /\ (Routable(m.type) => Len(m.route) < Base)
             /\ m = [type |-> m.type, id |-> m.id, route |-> m.route, data |-> m.data, err |-> m.err]
  <2>1. CASE \E i \in Ids, d \in Datas, e \in BOOLEAN :
                 m = [type |-> Response, id |-> i, route |-> <<>>, data |-> d, err |-> e]
    BY <1>1, <1>2, <2>1 DEF Message
  <2>2. CASE \E r \in {route \in Routes : Len(route) < Base}, d \in Datas :
                 m = [type |-> Push, id |-> 0, route |-> r, data |-> d, err |-> FALSE]
    BY <1>1, <1>2, <2>2 DEF Message
  <2>3. QED
    BY <2>1, <2>2 DEF ToClient
<1>5. QED
  BY <1>3, <1>4

\* The codes that are announced, and those that are registered, fit in two bytes.
LEMMA CodesFit ==
    ASSUME TypeInv
    PROVE  /\ \A c \in Clients : \A r \in DOMAIN conn[c].dict :
                 conn[c].dict[r] \in 0 .. Base * Base - 1
           /\ \A p \in registered : p[2] \in 0 .. Base * Base - 1
           /\ \A p \in registered : p = <<p[1], p[2]>>
<1>1. ASSUME NEW c \in Clients, NEW r \in DOMAIN conn[c].dict
      PROVE  conn[c].dict[r] \in 0 .. Base * Base - 1
  <2>1. conn[c].dict \in Dicts
    BY DEF TypeInv, ConnectionsOK, NoEntries
  <2>2. QED
    BY <2>1, MessagesAssumption
<1>2. ASSUME NEW p \in registered
      PROVE  p[2] \in 0 .. Base * Base - 1 /\ p = <<p[1], p[2]>>
  <2>1. PICK dict \in Dicts : p \in Pairs(dict)
    BY DEF TypeInv, DictOK
  <2>2. PICK r \in DOMAIN dict : p = <<r, dict[r]>>
    BY <2>1 DEF Pairs
  <2>3. dict[r] \in 0 .. Base * Base - 1
    BY <2>1, MessagesAssumption
  <2>4. QED
    BY <2>2, <2>3
<1>3. QED
  BY <1>1, <1>2

\* A step that leaves what is on its way alone, or takes it off.
LEMMA EncodedKept ==
    ASSUME Encoded, flight' \subseteq flight, kind' = kind, registered \subseteq registered',
           \A f \in flight' : conn'[f.client].dict = conn[f.client].dict
    PROVE  Encoded'
<1> SUFFICES ASSUME NEW f \in flight'
             PROVE  /\ f.raw.rest \in Seq(Byte)
                    /\ \A m \in f.means : SentByClient(f, m)' \/ SentByServer(f, m)'
  BY DEF Encoded
<1>1. f \in flight /\ conn'[f.client].dict = conn[f.client].dict
  OBVIOUS
<1>2. ASSUME NEW m \in f.means PROVE SentByClient(f, m)' \/ SentByServer(f, m)'
  <2>1. CASE SentByClient(f, m)
    BY <2>1 DEF SentByClient
  <2>2. CASE SentByServer(f, m)
    BY <1>1, <2>2 DEF SentByServer
  <2>3. QED
    BY <1>1, <2>1, <2>2 DEF Encoded
<1>3. QED
  BY <1>1, <1>2 DEF Encoded

\* A step that sends a message.
LEMMA EncodedSent ==
    ASSUME NEW f, flight' = {f}, f.raw.rest \in Seq(Byte),
           \A m \in f.means : SentByClient(f, m)' \/ SentByServer(f, m)'
    PROVE  Encoded'
BY DEF Encoded

\* A client encodes a message: with a code of the process's dictionary, or without.
LEMMA ClientSendEncoded ==
    ASSUME MeansInv, NEW c \in Clients, ClientSend(c)
    PROVE  Encoded'
<1>1. PICK m \in ToServer :
        \/ /\ kind[c] = "cpp" => CppEncodable(sRoutes, m)
           /\ Fly(c, "server", Encode(Encoding(c), m), {m}, FALSE)
           /\ UNCHANGED crashed
        \/ crashed' \subseteq Clients /\ UNCHANGED flight
  BY DEF ClientSend, MeansInv, TypeInv, Together
<1>2. UNCHANGED kind /\ UNCHANGED conn /\ UNCHANGED registered
  BY DEF ClientSend, dictVars
<1>3. m \in Message /\ Routable(m.type) /\ m.data \in Seq(Byte)
  BY SentIsMessage DEF Message
<1>4. CASE crashed' \subseteq Clients /\ UNCHANGED flight
  BY <1>2, <1>4, EncodedKept DEF MeansInv
<1>5. CASE /\ kind[c] = "cpp" => CppEncodable(sRoutes, m)
           /\ Fly(c, "server", Encode(Encoding(c), m), {m}, FALSE)
  <2>1. PICK f : flight' = {f} /\ f.client = c /\ f.to = "server" /\ f.means = {m} /\ ~f.zipped
                 /\ f.raw = Encode(Encoding(c), m)
    <3>1. PICK raw : raw = Encode(Encoding(c), m)
      OBVIOUS
    <3>2. Fly(c, "server", raw, {m}, FALSE)
      BY <1>5, <3>1
    <3> DEFINE f == [client |-> c, to |-> "server", raw |-> raw, means |-> {m}, zipped |-> FALSE]
    <3>3. /\ flight' = {f} /\ f.client = c /\ f.to = "server" /\ f.raw = raw
          /\ f.means = {m} /\ f.zipped = FALSE
      BY <3>2 DEF Fly
    <3> HIDE DEF f
    <3>4. QED
      BY <3>1, <3>3
  <2>2. CASE m.route \notin DOMAIN Encoding(c)
    <3>1. f.raw = Raw(m, m.data, FALSE, FALSE, 0)
      BY <2>1, <2>2, EncodeIsRaw
    <3>2. kind[c] = "cpp" => Len(m.route) < Base
      BY <1>3, <1>5, <2>2 DEF CppEncodable, Encoding
    <3>3. f.raw.rest \in Seq(Byte)
      BY <1>3, <3>1, RawBytes
    <3>4. SentByClient(f, m)'
      BY <1>2, <2>1, <3>1, <3>2 DEF SentByClient
    <3>5. QED
      BY <2>1, <3>3, <3>4, EncodedSent
  <2>3. CASE m.route \in DOMAIN Encoding(c)
    <3>1. kind[c] = "cpp" /\ Encoding(c) = sRoutes
      BY <2>3 DEF Encoding, NoEntries
    <3>2. PICK p : p[1] = m.route /\ p[2] = sRoutes[m.route] /\ p \in registered
      <4>1. <<m.route, sRoutes[m.route]>> \in registered
        BY <2>3, <3>1 DEF MeansInv, DictInv, Recorded
      <4>2. QED
        BY <4>1
    <3>3. f.raw = Raw(m, m.data, FALSE, TRUE, p[2])
      <4>1. f.raw = Encode(sRoutes, m) /\ m.route \in DOMAIN sRoutes
        BY <2>1, <2>3, <3>1
      <4>2. QED
        BY <3>2, <4>1, EncodeIsRaw
    <3>4. p[2] \in 0 .. Base * Base - 1
      BY <3>2, CodesFit DEF MeansInv
    <3>5. f.raw.rest \in Seq(Byte)
      BY <1>3, <3>3, <3>4, RawBytes
    <3>6. SentByClient(f, m)'
      BY <1>2, <2>1, <3>1, <3>2, <3>3 DEF SentByClient
    <3>7. QED
      BY <2>1, <3>5, <3>6, EncodedSent
  <2>4. QED
    BY <2>2, <2>3
<1>6. QED
  BY <1>1, <1>4, <1>5

\* A server encodes a message, with its own dictionary.
LEMMA ServerSendEncoded ==
    ASSUME MeansInv, NEW c \in Clients, ServerSend(c)
    PROVE  Encoded'
<1>1. PICK m \in ToClient :
        \/ Fly(c, "client", Encode(conn[c].dict, m), {m}, FALSE)
        \/ Fly(c, "client", [Encode(conn[c].dict, [m EXCEPT !.data = Zip(@)])
                                EXCEPT !.flag.gzip = TRUE], {m}, TRUE)
  BY DEF ServerSend
<1>2. UNCHANGED conn
  BY DEF ServerSend
<1>3. m \in Message /\ m.data \in Seq(Byte) /\ Zip(m.data) \in Seq(Byte)
  BY SentIsMessage, Inflated DEF Message
<1>4. PICK dict : dict = conn[c].dict
  OBVIOUS
<1>5. m.route \in DOMAIN dict => dict[m.route] \in 0 .. Base * Base - 1
  BY <1>4, CodesFit DEF MeansInv
<1>6. PICK f : /\ flight' = {f} /\ f.client = c /\ f.to = "client" /\ f.means = {m}
               /\ \/ ~f.zipped /\ f.zipped \in BOOLEAN /\ f.raw = Encode(dict, m)
                  \/ /\ f.zipped /\ f.zipped \in BOOLEAN
                     /\ f.raw = [Encode(dict, [m EXCEPT !.data = Zip(@)]) EXCEPT !.flag.gzip = TRUE]
  <2>1. CASE Fly(c, "client", Encode(conn[c].dict, m), {m}, FALSE)
    <3>1. PICK raw : raw = Encode(dict, m)
      OBVIOUS
    <3>2. Fly(c, "client", raw, {m}, FALSE)
      BY <1>4, <2>1, <3>1
    <3> DEFINE f == [client |-> c, to |-> "client", raw |-> raw, means |-> {m}, zipped |-> FALSE]
    <3>3. /\ flight' = {f} /\ f.client = c /\ f.to = "client" /\ f.raw = raw
          /\ f.means = {m} /\ f.zipped = FALSE
      BY <3>2 DEF Fly
    <3> HIDE DEF f
    <3>4. QED
      BY <3>1, <3>3
  <2>2. CASE Fly(c, "client", [Encode(conn[c].dict, [m EXCEPT !.data = Zip(@)])
                                EXCEPT !.flag.gzip = TRUE], {m}, TRUE)
    <3>1. PICK raw : raw = [Encode(dict, [m EXCEPT !.data = Zip(@)]) EXCEPT !.flag.gzip = TRUE]
      OBVIOUS
    <3>2. Fly(c, "client", raw, {m}, TRUE)
      BY <1>4, <2>2, <3>1
    <3> DEFINE f == [client |-> c, to |-> "client", raw |-> raw, means |-> {m}, zipped |-> TRUE]
    <3>3. /\ flight' = {f} /\ f.client = c /\ f.to = "client" /\ f.raw = raw
          /\ f.means = {m} /\ f.zipped = TRUE
      BY <3>2 DEF Fly
    <3> HIDE DEF f
    <3>4. QED
      BY <3>1, <3>3
  <2>3. QED
    BY <1>1, <2>1, <2>2
<1>7. PICK data \in Seq(Byte) : data = IF f.zipped THEN Zip(m.data) ELSE m.data
  BY <1>3
<1>8. /\ m.route \in DOMAIN dict => f.raw = Raw(m, data, f.zipped, TRUE, dict[m.route])
      /\ m.route \notin DOMAIN dict => f.raw = Raw(m, data, f.zipped, FALSE, 0)
  <2>1. CASE ~f.zipped /\ f.zipped \in BOOLEAN /\ f.raw = Encode(dict, m)
    <3>1. f.zipped = FALSE /\ data = m.data
      BY <1>7, <2>1
    <3>2. QED
      BY <2>1, <3>1, EncodeIsRaw, Zenon
  <2>2. CASE /\ f.zipped /\ f.zipped \in BOOLEAN
             /\ f.raw = [Encode(dict, [m EXCEPT !.data = Zip(@)]) EXCEPT !.flag.gzip = TRUE]
    <3>1. f.zipped = TRUE /\ data = Zip(m.data)
      BY <1>7, <2>2
    <3>2. QED
      BY <1>3, <2>2, <3>1, EncodeZippedIsRaw, Zenon
  <2>3. QED
    BY <1>6, <2>1, <2>2
<1>9. f.raw.rest \in Seq(Byte)
  BY <1>3, <1>5, <1>8, RawBytes
<1>10. SentByServer(f, m)'
  <2>1. conn'[f.client].dict = dict
    BY <1>2, <1>4, <1>6
  <2>2. f.zipped \in BOOLEAN
    BY <1>6
  <2>3. QED
    BY <1>6, <1>7, <1>8, <2>1, <2>2 DEF SentByServer
<1>11. QED
  BY <1>6, <1>9, <1>10, EncodedSent

\* A step that leaves the dictionary alone and the connections, but for one that is
\* lost or one whose entries are all still to be registered.
LEMMA AnnouncedKept ==
    ASSUME TypeInv, Announced, UNCHANGED <<kind, dictVars>>,
           \A c \in Clients :
              conn'[c] = conn[c] \/ (kind[c] = "cpp" => DOMAIN conn'[c].dict \subseteq conn'[c].todo)
    PROVE  Announced'
BY DEF Announced, dictVars

LEMMA KeptKept ==
    ASSUME Kept, UNCHANGED dictVars
    PROVE  Kept'
BY DEF Kept, dictVars

LEMMA StepMeansInv == MeansInv /\ [Next]_vars => MeansInv'
<1> SUFFICES ASSUME MeansInv, [Next]_vars PROVE Announced' /\ Kept' /\ Encoded'
  BY StepTypeInv, DictInvInductive DEF MeansInv
<1> USE DEF MeansInv
<1>0. DOMAIN conn = Clients /\ \A f \in flight : f.client \in Clients /\ conn[f.client].at = "on"
  BY DEF TypeInv, ConnectionsOK, FlightOK
<1>1. ASSUME NEW c \in Clients, Handshake(c) PROVE Announced' /\ Kept' /\ Encoded'
  <2>1. PICK dict \in Dicts :
            conn' = [conn EXCEPT ![c] =
                        IF kind[c] = "go" THEN [at |-> "on", dict |-> dict, todo |-> {}]
                        ELSE [at |-> "handshake", dict |-> dict, todo |-> DOMAIN dict]]
    BY <1>1 DEF Handshake
  <2>2. UNCHANGED <<kind, flight, dictVars>> /\ UNCHANGED kind /\ UNCHANGED registered
    BY <1>1 DEF Handshake, dictVars
  <2>3. ASSUME NEW x \in Clients
        PROVE  conn'[x] = conn[x] \/ (kind[x] = "cpp" => DOMAIN conn'[x].dict \subseteq conn'[x].todo)
    BY <1>0, <2>1
  <2>4. \A f \in flight' : conn'[f.client].dict = conn[f.client].dict
    <3>1. \A f \in flight : f.client # c
      BY <1>0, <1>1 DEF Handshake
    <3>2. QED
      BY <1>0, <2>1, <2>2, <3>1
  <2>5. QED
    BY <2>2, <2>3, <2>4, AnnouncedKept, KeptKept, EncodedKept
<1>2. ASSUME NEW c \in Clients, RegisterNext(c) PROVE Announced' /\ Kept' /\ Encoded'
  <2>1. PICK route \in conn[c].todo :
            /\ RegisterRoute(route, conn[c].dict[route])
            /\ conn' = [conn EXCEPT ![c].todo = @ \ {route}]
    BY <1>2 DEF RegisterNext
  <2>2. UNCHANGED <<kind, flight>>
    BY <1>2 DEF RegisterNext
  <2>3. /\ \A x \in Clients : conn'[x].dict = conn[x].dict
        /\ \A x \in Clients : x # c => conn'[x].todo = conn[x].todo
        /\ conn'[c].todo = conn[c].todo \ {route}
    BY <1>0, <2>1
  <2>4. registered' = registered \cup {<<route, conn[c].dict[route]>>}
    BY <2>1 DEF RegisterRoute
  <2>5. Announced'
    <3> SUFFICES ASSUME NEW x \in Clients, kind[x] = "cpp",
                        NEW r \in DOMAIN conn'[x].dict \ conn'[x].todo
                 PROVE  <<r, conn'[x].dict[r]>> \in registered'
      BY <2>2 DEF Announced
    <3>1. CASE x = c /\ r = route
      BY <2>3, <2>4, <3>1
    <3>2. CASE ~(x = c /\ r = route)
      <4>1. r \in DOMAIN conn[x].dict \ conn[x].todo
        BY <2>3, <3>2
      <4>2. QED
        BY <2>3, <2>4, <4>1 DEF Announced
    <3>3. QED
      BY <3>1, <3>2
  <2>6. Kept'
    <3>1. DOMAIN sRoutes' = DOMAIN sRoutes \cup {route} /\ unregistered' = unregistered
      BY <2>1 DEF RegisterRoute, Put
    <3>2. <<route, conn[c].dict[route]>>[1] = route
      OBVIOUS
    <3>3. QED
      BY <2>4, <3>1, <3>2 DEF Kept
  <2>7. Encoded'
    BY <1>0, <2>2, <2>3, <2>4, EncodedKept
  <2>8. QED
    BY <2>5, <2>6, <2>7
<1>3. ASSUME NEW c \in Clients, Ack(c) PROVE Announced' /\ Kept' /\ Encoded'
  <2>1. conn' = [conn EXCEPT ![c].at = "on"]
    BY <1>3 DEF Ack
  <2>2. UNCHANGED <<kind, flight, dictVars>> /\ UNCHANGED kind /\ UNCHANGED registered
    BY <1>3 DEF Ack, dictVars
  <2>3. \A x \in Clients : conn'[x].dict = conn[x].dict /\ conn'[x].todo = conn[x].todo
    BY <1>0, <2>1
  <2>4. Announced'
    BY <2>2, <2>3 DEF Announced
  <2>5. QED
    BY <1>0, <2>2, <2>3, <2>4, KeptKept, EncodedKept
<1>4. ASSUME NEW c \in Clients, Disconnect(c) PROVE Announced' /\ Kept' /\ Encoded'
  <2>1. conn' = [conn EXCEPT ![c] = Off] /\ flight' = {f \in flight : f.client # c}
    BY <1>4 DEF Disconnect
  <2>2. UNCHANGED <<kind, dictVars>> /\ UNCHANGED kind /\ UNCHANGED registered
    BY <1>4 DEF Disconnect, dictVars
  <2>3. \A x \in Clients :
            conn'[x] = conn[x] \/ (kind[x] = "cpp" => DOMAIN conn'[x].dict \subseteq conn'[x].todo)
    BY <1>0, <2>1 DEF Off, NoEntries
  <2>4. flight' \subseteq flight /\ \A f \in flight' : conn'[f.client].dict = conn[f.client].dict
    BY <1>0, <2>1
  <2>5. QED
    BY <2>2, <2>3, <2>4, AnnouncedKept, KeptKept, EncodedKept
<1>5. CASE Unregister
  <2>1. PICK route \in Routes : UnregisterRoute(route)
    BY <1>5 DEF Unregister
  <2>2. UNCHANGED <<kind, conn, flight, registered>>
    BY <1>5, <2>1 DEF Unregister, UnregisterRoute
  <2>3. Announced'
    BY <2>2 DEF Announced
  <2>4. Kept'
    BY <2>1 DEF Kept, UnregisterRoute, Erase
  <2>5. QED
    BY <2>2, <2>3, <2>4, EncodedKept
<1>6. ASSUME NEW c \in Clients, ClientSend(c) PROVE Announced' /\ Kept' /\ Encoded'
  <2>1. UNCHANGED <<kind, dictVars>> /\ \A x \in Clients : conn'[x] = conn[x]
    BY <1>6 DEF ClientSend
  <2>2. QED
    BY <1>6, <2>1, AnnouncedKept, KeptKept, ClientSendEncoded
<1>7. ASSUME NEW c \in Clients, ServerSend(c) PROVE Announced' /\ Kept' /\ Encoded'
  <2>1. UNCHANGED <<kind, dictVars>> /\ \A x \in Clients : conn'[x] = conn[x]
    BY <1>7 DEF ServerSend
  <2>2. QED
    BY <1>7, <2>1, AnnouncedKept, KeptKept, ServerSendEncoded
<1>8. ASSUME NEW c \in Clients, ServerGarbage(c) PROVE Announced' /\ Kept' /\ Encoded'
  <2>1. UNCHANGED <<kind, dictVars>> /\ \A x \in Clients : conn'[x] = conn[x]
    BY <1>8 DEF ServerGarbage
  <2>2. Encoded'
    <3>1. PICK t \in Request .. Push + 1, compressed \in BOOLEAN, rest \in Rests :
              Fly(c, "client", [flag |-> [type |-> t, compressed |-> compressed, gzip |-> FALSE,
                                         err |-> FALSE], rest |-> rest], {}, FALSE)
      BY <1>8 DEF ServerGarbage
    <3> DEFINE flag == [type |-> t, compressed |-> compressed, gzip |-> FALSE, err |-> FALSE]
               raw  == [flag |-> flag, rest |-> rest]
               f    == [client |-> c, to |-> "client", raw |-> raw, means |-> {}, zipped |-> FALSE]
    <3>2. flight' = {f} /\ f.raw = raw /\ f.means = {} /\ raw.rest \in Seq(Byte)
      BY <3>1, MessagesAssumption DEF Fly
    <3> HIDE DEF f
    <3>3. QED
      BY <3>2, EncodedSent
  <2>3. QED
    BY <2>1, <2>2, AnnouncedKept, KeptKept
<1>9. CASE Arrive
  <2>1. flight' = {} /\ UNCHANGED <<kind, dictVars>>
    BY <1>9 DEF Arrive
  <2>2. \E c \in Clients : conn' = [conn EXCEPT ![c] = Off] \/ conn' = conn
    BY <1>9 DEF Arrive, TypeInv, FlightOK
  <2>3. \A x \in Clients :
            conn'[x] = conn[x] \/ (kind[x] = "cpp" => DOMAIN conn'[x].dict \subseteq conn'[x].todo)
    BY <1>0, <2>2 DEF Off, NoEntries
  <2>4. Encoded'
    BY <2>1 DEF Encoded
  <2>5. QED
    BY <2>1, <2>3, <2>4, AnnouncedKept, KeptKept
<1>10. CASE UNCHANGED vars
  <2>1. UNCHANGED <<kind, flight, dictVars>> /\ UNCHANGED kind /\ UNCHANGED registered /\ conn' = conn
    BY <1>10 DEF vars, dictVars
  <2>2. QED
    BY <2>1, AnnouncedKept, KeptKept, EncodedKept
<1>11. QED
  BY <1>1, <1>2, <1>3, <1>4, <1>5, <1>6, <1>7, <1>8, <1>9, <1>10 DEF Next

LEMMA InitMeansInv == Init => MeansInv
<1> SUFFICES ASSUME Init PROVE Announced /\ Kept /\ Encoded
  BY InitTypeInv, DictInvInductive DEF MeansInv
<1>1. Announced
  <2>1. \A c \in Clients : conn[c] = Off
    BY DEF Init
  <2>2. DOMAIN Off.dict = {}
    BY DEF Off, NoEntries
  <2>3. QED
    BY <2>1, <2>2 DEF Announced
<1>2. Kept /\ Encoded
  BY DEF Init, DictInit, Kept, Encoded
<1>3. QED
  BY <1>1, <1>2

\* In every reachable state what is registered is what the servers have announced and
\* the application has left, and what is on its way is what an encoder made of it.
THEOREM MeansInvAlways == Spec => []MeansInv
BY InitMeansInv, StepMeansInv, PTL DEF Spec

-----------------------------------------------------------------------------
(* What readers make of messages                                           *)

\* The other half of a server's dictionary: a code has a route that has this code.
LEMMA ServerCodes ==
    ASSUME NEW dict
    PROVE  /\ DOMAIN AntiFunction(dict) = {dict[r] : r \in DOMAIN dict}
           /\ \A k \in DOMAIN AntiFunction(dict) :
                 AntiFunction(dict)[k] \in DOMAIN dict /\ dict[AntiFunction(dict)[k]] = k
<1>1. DOMAIN AntiFunction(dict) = {dict[r] : r \in DOMAIN dict}
  BY DEF AntiFunction, Inverse, Range
<1>2. ASSUME NEW k \in DOMAIN AntiFunction(dict)
      PROVE  AntiFunction(dict)[k] \in DOMAIN dict /\ dict[AntiFunction(dict)[k]] = k
  <2> DEFINE P(s) == s \in DOMAIN dict /\ (k \in Range(dict) => dict[s] = k)
             a == CHOOSE s \in DOMAIN dict : k \in Range(dict) => dict[s] = k
  <2>1. k \in Range(dict) /\ \E s \in DOMAIN dict : dict[s] = k
    BY <1>1 DEF Range
  <2>2. AntiFunction(dict)[k] = a
    BY <1>1, <2>1 DEF AntiFunction, Inverse, Range
  <2>3. a \in DOMAIN dict /\ dict[a] = k
    BY <2>1
  <2>4. QED
    BY <2>2, <2>3
<1>3. QED
  BY <1>1, <1>2

\* A server reads a message that came without a code as it is, and one with a code if
\* it knows the code.
LEMMA ServerReads ==
    ASSUME MeansInv, NEW f \in flight, NEW m \in f.means, SentByClient(f, m), ~CutShort(f, m)
    PROVE  LET codes == AntiFunction(conn[f.client].dict) IN
           \/ Read(f) = Found(m, m.route, m.data)
           \/ /\ kind[f.client] = "cpp"
              /\ \E p \in registered :
                    /\ p[1] = m.route
                    /\ Read(f) = IF p[2] \notin DOMAIN codes THEN Rejected
                                 ELSE Found(m, codes[p[2]], m.data)
<1> DEFINE codes == AntiFunction(conn[f.client].dict)
<1>1. m \in Message /\ Routable(m.type) /\ m.route \in Seq(Byte)
  BY SentIsMessage DEF SentByClient, Message
<1>2. Read(f) = GoDecode(codes, f.raw)
  BY DEF Read, SentByClient
<1> HIDE DEF codes
<1>3. CASE f.raw = Raw(m, m.data, FALSE, FALSE, 0) /\ (kind[f.client] = "cpp" => Len(m.route) < Base)
  <2>1. Len(m.route) < Base
    <3>1. kind[f.client] \in {"go", "cpp"}
      BY DEF MeansInv, TypeInv, ConnectionsOK, FlightOK
    <3>2. Len(m.route) \in Nat /\ Base \in Nat
      BY <1>1, LenProperties, ByteFacts
    <3>3. QED
      BY <1>3, <3>1, <3>2 DEF CutShort, SentByClient
  <2>2. \A zipped \in BOOLEAN : \A data :
            data = (IF zipped THEN Zip(m.data) ELSE m.data) =>
                GoDecode(codes, Raw(m, data, zipped, FALSE, 0)) = Found(m, m.route, m.data)
    BY <1>1, <2>1, SpelledReadByGo
  <2>3. FALSE \in BOOLEAN /\ m.data = IF FALSE THEN Zip(m.data) ELSE m.data
    OBVIOUS
  <2>4. GoDecode(codes, Raw(m, m.data, FALSE, FALSE, 0)) = Found(m, m.route, m.data)
    BY ONLY <2>2, <2>3, Zenon
  <2>5. QED
    BY <1>2, <1>3, <2>4
<1>4. CASE /\ kind[f.client] = "cpp"
           /\ \E p \in registered : p[1] = m.route /\ f.raw = Raw(m, m.data, FALSE, TRUE, p[2])
  <2>1. PICK p \in registered : p[1] = m.route /\ f.raw = Raw(m, m.data, FALSE, TRUE, p[2])
    BY <1>4
  <2>2. Sendable(m, TRUE, p[2])
    BY CodesFit DEF Sendable, MeansInv
  <2> DEFINE result == IF p[2] \notin DOMAIN codes THEN Rejected ELSE Found(m, codes[p[2]], m.data)
  <2>3. \A zipped \in BOOLEAN : \A data :
            data = (IF zipped THEN Zip(m.data) ELSE m.data) =>
                GoDecode(codes, Raw(m, data, zipped, TRUE, p[2])) = result
    BY <1>1, <2>2, CodedReadByGo
  <2>4. FALSE \in BOOLEAN /\ m.data = IF FALSE THEN Zip(m.data) ELSE m.data
    OBVIOUS
  <2> HIDE DEF result
  <2>5. GoDecode(codes, Raw(m, m.data, FALSE, TRUE, p[2])) = result
    BY ONLY <2>3, <2>4, Zenon
  <2>6. QED
    BY <1>2, <1>4, <2>1, <2>5 DEF codes, result
<1>5. QED
  BY <1>3, <1>4 DEF SentByClient

\* A Go client rejects what comes with a code, and reads the rest as it is; a C++ client
\* reads a code with its process's dictionary, and does not look whether data are
\* compressed.
LEMMA ClientReads ==
    ASSUME MeansInv, NEW f \in flight, NEW m \in f.means, SentByServer(f, m)
    PROVE  LET dict  == conn[f.client].dict
               coded == Routable(m.type) /\ m.route \in DOMAIN dict
               data  == IF f.zipped /\ kind[f.client] = "cpp" THEN Zip(m.data) ELSE m.data
           IN  IF ~coded THEN Read(f) = Found(m, m.route, data)
               ELSE IF kind[f.client] = "go" THEN Read(f) = Rejected
               ELSE Read(f) = IF dict[m.route] \notin DOMAIN sCodes THEN Rejected
                              ELSE Found(m, sCodes[dict[m.route]], data)
<1> DEFINE dict == conn[f.client].dict
           sent == IF f.zipped THEN Zip(m.data) ELSE m.data
<1>1. /\ m \in Message /\ m.data \in Seq(Byte) /\ Zip(m.data) \in Seq(Byte)
      /\ (Routable(m.type) => Len(m.route) < Base) /\ (~Routable(m.type) => Len(m.route) = 0)
      /\ 0 < Base
  BY SentIsMessage, Inflated, EmptyIsByteSeq, ByteFacts DEF SentByServer, Message
<1>2. f.client \in Clients /\ kind[f.client] \in {"go", "cpp"}
  BY DEF MeansInv, TypeInv, ConnectionsOK, FlightOK
<1>3. f.zipped \in BOOLEAN /\ sent \in Seq(Byte) /\ f.to = "client" /\ Len(m.route) < Base
  BY <1>1 DEF SentByServer
<1>4. \/ m.route \notin DOMAIN dict /\ f.raw = Raw(m, sent, f.zipped, FALSE, 0)
      \/ m.route \in DOMAIN dict /\ f.raw = Raw(m, sent, f.zipped, TRUE, dict[m.route])
  BY DEF SentByServer
<1>5. m.route \in DOMAIN dict => Sendable(m, TRUE, dict[m.route])
  BY <1>2, CodesFit DEF Sendable, MeansInv
<1>6. sent = IF f.zipped THEN Zip(m.data) ELSE m.data
  OBVIOUS
<1>7. CASE kind[f.client] = "go"
  <2>1. Read(f) = GoDecode(NoEntries, f.raw) /\ DOMAIN NoEntries = {}
    BY <1>3, <1>7 DEF Read, NoEntries
  <2> HIDE DEF sent, dict
  <2>2. CASE m.route \notin DOMAIN dict
    <3>1. Read(f) = Found(m, m.route, m.data)
      BY <1>1, <1>3, <1>4, <1>6, <2>1, <2>2, SpelledReadByGo
    <3>2. QED
      BY <1>7, <2>2, <3>1 DEF dict
  <2>3. CASE m.route \in DOMAIN dict
    <3>1. Read(f) = IF ~Routable(m.type) THEN Found(m, m.route, m.data)
                    ELSE IF dict[m.route] \notin DOMAIN NoEntries THEN Rejected
                    ELSE Found(m, NoEntries[dict[m.route]], m.data)
      <4> DEFINE code == dict[m.route]
      <4>1. /\ m \in Message /\ Sendable(m, TRUE, code) /\ f.zipped \in BOOLEAN
            /\ sent = IF f.zipped THEN Zip(m.data) ELSE m.data
        BY <1>1, <1>3, <1>5, <1>6, <2>3
      <4>2. f.raw = Raw(m, sent, f.zipped, TRUE, code)
        BY <1>4, <2>3
      <4> HIDE DEF code
      <4>3. GoDecode(NoEntries, Raw(m, sent, f.zipped, TRUE, code)) =
                IF ~Routable(m.type) THEN Found(m, m.route, m.data)
                ELSE IF code \notin DOMAIN NoEntries THEN Rejected
                ELSE Found(m, NoEntries[code], m.data)
        BY ONLY <4>1, CodedReadByGo
      <4>4. QED
        BY <2>1, <4>2, <4>3 DEF code
    <3>2. QED
      BY <1>7, <2>1, <2>3, <3>1 DEF dict
  <2>4. QED
    BY <2>2, <2>3
<1>8. CASE kind[f.client] = "cpp"
  <2>1. Read(f) = CppDecode(sCodes, f.raw)
    BY <1>3, <1>8 DEF Read
  <2> HIDE DEF sent, dict
  <2>2. CASE m.route \notin DOMAIN dict
    <3>1. Read(f) = Found(m, m.route, sent)
      <4>1. m \in Message /\ Len(m.route) < Base /\ sent \in Seq(Byte)
        BY <1>1, <1>3
      <4>2. f.raw = Raw(m, sent, f.zipped, FALSE, 0)
        BY <1>4, <2>2
      <4>3. CppDecode(sCodes, Raw(m, sent, f.zipped, FALSE, 0)) = Found(m, m.route, sent)
        BY ONLY <4>1, SpelledReadByCpp
      <4>4. QED
        BY <2>1, <4>2, <4>3
    <3>2. QED
      BY <1>8, <2>2, <3>1 DEF dict, sent
  <2>3. CASE m.route \in DOMAIN dict
    <3>1. Read(f) = IF ~Routable(m.type) THEN Found(m, m.route, sent)
                    ELSE IF dict[m.route] \notin DOMAIN sCodes THEN Rejected
                    ELSE Found(m, sCodes[dict[m.route]], sent)
      <4> DEFINE code == dict[m.route]
      <4>1. m \in Message /\ Sendable(m, TRUE, code) /\ sent \in Seq(Byte)
        BY <1>1, <1>3, <1>5, <2>3
      <4>2. f.raw = Raw(m, sent, f.zipped, TRUE, code)
        BY <1>4, <2>3
      <4> HIDE DEF code
      <4>3. CppDecode(sCodes, Raw(m, sent, f.zipped, TRUE, code)) =
                IF ~Routable(m.type) THEN Found(m, m.route, sent)
                ELSE IF code \notin DOMAIN sCodes THEN Rejected
                ELSE Found(m, sCodes[code], sent)
        BY ONLY <4>1, CodedReadByCpp
      <4>4. QED
        BY <2>1, <4>2, <4>3 DEF code
    <3>2. QED
      BY <1>8, <2>3, <3>1 DEF dict, sent
  <2>4. QED
    BY <2>2, <2>3
<1>9. QED
  BY <1>2, <1>7, <1>8

LEMMA FoundIsOk ==
    /\ \A m, route, data : Found(m, route, data).ok
    /\ \A m, route, data :
          Found(m, route, data).msg = [type |-> m.type, id |-> m.id, route |-> route,
                                       data |-> data, err |-> m.err]
    /\ ~Rejected.ok
BY DEF Found, Rejected

\* What is meant, with its own data or with those data compressed.
LEMMA SaysTheMessage ==
    ASSUME NEW m \in ToServer \cup ToClient
    PROVE  /\ Found(m, m.route, m.data).msg = m
           /\ Found(m, m.route, Zip(m.data)).msg = [m EXCEPT !.data = Zip(@)]
<1> DEFINE u == m.type
           i == m.id
           r == m.route
           d == m.data
           e == m.err
           z == Zip(m.data)
<1>1. m = [type |-> u, id |-> i, route |-> r, data |-> d, err |-> e]
  BY SentIsMessage
<1>2. Found(m, m.route, m.data).msg = m
  BY <1>1, FoundIsOk
<1>3. [m EXCEPT !.data = z] = [type |-> u, id |-> i, route |-> r, data |-> z, err |-> e]
  BY <1>1
<1>4. QED
  BY <1>2, <1>3, FoundIsOk

\* Pairs that one to one ones hold: what is announced, and what was registered.
LEMMA ConsistentPairs ==
    ASSUME TypeInv, NEW c \in Clients, kind[c] = "cpp", Consistent(c)
    PROVE  /\ OneToOne(registered)
           /\ \A r \in DOMAIN conn[c].dict : \A p \in registered :
                 r = p[1] <=> conn[c].dict[r] = p[2]
<1> DEFINE dict == conn[c].dict
<1>1. OneToOne(Pairs(dict) \cup registered)
  BY DEF Consistent
<1>2. OneToOne(registered)
  BY <1>1, OneToOneSubset
<1>3. ASSUME NEW r \in DOMAIN dict, NEW p \in registered
      PROVE  r = p[1] <=> dict[r] = p[2]
  <2>1. <<r, dict[r]>> \in Pairs(dict) \cup registered /\ <<p[1], p[2]>> \in Pairs(dict) \cup registered
    BY CodesFit DEF Pairs
  <2> HIDE DEF dict
  <2>2. QED
    BY ONLY <1>1, <2>1, OneToOnePairs
<1>4. QED
  BY <1>2, <1>3

LEMMA MeansReadAsMeant == MeansInv => ReadAsMeant
<1> SUFFICES ASSUME MeansInv, NEW f \in flight, NEW m \in f.means,
                    Consistent(f.client), ~CutShort(f, m), Read(f).ok
             PROVE  Read(f).msg = IF f.zipped /\ kind[f.client] = "cpp"
                                  THEN [m EXCEPT !.data = Zip(@)] ELSE m
  BY DEF ReadAsMeant
<1> DEFINE c    == f.client
           dict == conn[f.client].dict
<1>1. TypeInv /\ c \in Clients /\ kind[c] \in {"go", "cpp"} /\ m \in ToServer \cup ToClient
  BY DEF MeansInv, TypeInv, ConnectionsOK, FlightOK
<1>2. CASE SentByClient(f, m)
  <2>1. ~f.zipped
    BY <1>2 DEF SentByClient
  <2>2. Read(f) = Found(m, m.route, m.data)
    <3> DEFINE codes == AntiFunction(dict)
    <3>1. \/ Read(f) = Found(m, m.route, m.data)
          \/ /\ kind[c] = "cpp"
             /\ \E p \in registered :
                   /\ p[1] = m.route
                   /\ Read(f) = IF p[2] \notin DOMAIN codes THEN Rejected
                                ELSE Found(m, codes[p[2]], m.data)
      BY <1>2, ServerReads
    <3>2. ASSUME kind[c] = "cpp", NEW p \in registered, p[1] = m.route,
                 Read(f) = IF p[2] \notin DOMAIN codes THEN Rejected
                           ELSE Found(m, codes[p[2]], m.data)
          PROVE  Read(f) = Found(m, m.route, m.data)
      <4>1. p[2] \in DOMAIN codes /\ Read(f) = Found(m, codes[p[2]], m.data)
        <5>1. p[2] \notin DOMAIN codes => Read(f) = Rejected
          BY <3>2
        <5>2. QED
          BY <3>2, <5>1, FoundIsOk
      <4>2. codes[p[2]] \in DOMAIN dict /\ dict[codes[p[2]]] = p[2]
        BY <4>1, ServerCodes
      <4> HIDE DEF codes
      <4>3. codes[p[2]] = m.route
        BY <1>1, <3>2, <4>2, ConsistentPairs
      <4>4. QED
        BY <4>1, <4>3
    <3>3. QED
      BY <3>1, <3>2
  <2>3. Found(m, m.route, m.data).msg = m
    BY <1>1, SaysTheMessage
  <2>4. QED
    BY <2>1, <2>2, <2>3
<1>3. CASE SentByServer(f, m)
  <2> DEFINE data == IF f.zipped /\ kind[c] = "cpp" THEN Zip(m.data) ELSE m.data
  <2>1. Read(f) = Found(m, m.route, data)
    <3> DEFINE coded == Routable(m.type) /\ m.route \in DOMAIN dict
    <3>1. IF ~coded THEN Read(f) = Found(m, m.route, data)
          ELSE IF kind[c] = "go" THEN Read(f) = Rejected
          ELSE Read(f) = IF dict[m.route] \notin DOMAIN sCodes THEN Rejected
                         ELSE Found(m, sCodes[dict[m.route]], data)
      BY <1>3, ClientReads
    <3>2. CASE ~coded
      BY <3>1, <3>2
    <3>3. CASE coded
      <4>1. Read(f) # Rejected
        BY FoundIsOk
      <4> HIDE DEF data
      <4>2. /\ kind[c] = "cpp" /\ dict[m.route] \in DOMAIN sCodes
            /\ Read(f) = Found(m, sCodes[dict[m.route]], data)
        BY <1>1, <3>1, <3>3, <4>1
      <4>3. <<sCodes[dict[m.route]], dict[m.route]>> \in registered
        BY <4>2 DEF MeansInv, DictInv, Recorded
      <4>4. PICK p \in registered : p[1] = sCodes[dict[m.route]] /\ p[2] = dict[m.route]
        BY <4>3
      <4>5. m.route = sCodes[dict[m.route]]
        BY <1>1, <3>3, <4>2, <4>4, ConsistentPairs
      <4>6. QED
        BY <4>2, <4>5
    <3>4. QED
      BY <3>2, <3>3
  <2>2. QED
    BY <1>1, <2>1, SaysTheMessage
<1>4. QED
  BY <1>2, <1>3 DEF MeansInv, Encoded

\* In every reachable state a message on its way that can be read is read as it was
\* meant, for any clients, dictionaries, routes, ids and data: although the entries its
\* route was encoded with may have been replaced or taken out since, or come from the
\* server of another client.
THEOREM ReadAsMeantAlways == Spec => []ReadAsMeant
BY MeansInvAlways, MeansReadAsMeant, PTL

LEMMA MeansRejectedOnlyFor == MeansInv => RejectedOnlyFor
<1> SUFFICES ASSUME MeansInv, NEW f \in flight, NEW m \in f.means,
                    ~CutShort(f, m), ~Read(f).ok, Consistent(f.client)
             PROVE  LET known == m.route \in DOMAIN conn[f.client].dict IN
                    \/ f.to = "client" /\ kind[f.client] = "go" /\ known
                    \/ f.to = "client" /\ kind[f.client] = "cpp" /\ m.route \in unregistered
                    \/ f.to = "server" /\ kind[f.client] = "cpp" /\ ~known
  BY DEF RejectedOnlyFor
<1> DEFINE c     == f.client
           dict  == conn[f.client].dict
           known == m.route \in DOMAIN dict
<1>1. /\ TypeInv /\ c \in Clients /\ kind[c] \in {"go", "cpp"} /\ conn[c].todo = {}
      /\ \A route, data : Read(f) # Found(m, route, data)
  <2>1. TypeInv /\ c \in Clients /\ kind[c] \in {"go", "cpp"} /\ conn[c].todo = {}
    BY DEF MeansInv, TypeInv, ConnectionsOK, FlightOK
  <2>2. ASSUME NEW route, NEW data PROVE Read(f) # Found(m, route, data)
    BY FoundIsOk, Zenon
  <2>3. QED
    BY <2>1, <2>2
<1>2. CASE SentByClient(f, m)
  <2> DEFINE codes == AntiFunction(dict)
  <2>1. PICK p \in registered :
            kind[c] = "cpp" /\ p[1] = m.route /\ p[2] \notin DOMAIN codes
    <3>1. PICK p \in registered :
              /\ kind[c] = "cpp" /\ p[1] = m.route
              /\ Read(f) = IF p[2] \notin DOMAIN codes THEN Rejected
                           ELSE Found(m, codes[p[2]], m.data)
      BY <1>1, <1>2, ServerReads
    <3>2. QED
      BY <1>1, <3>1
  <2>2. ~known
    <3> SUFFICES ASSUME known PROVE FALSE
      OBVIOUS
    <3>1. dict[m.route] = p[2]
      BY <1>1, <2>1, ConsistentPairs
    <3>2. dict[m.route] \in DOMAIN codes
      <4>1. DOMAIN codes = {dict[r] : r \in DOMAIN dict}
        BY ServerCodes
      <4>2. QED
        BY <4>1
    <3>3. QED
      BY <2>1, <3>1, <3>2
  <2>3. QED
    BY <1>2, <2>1, <2>2 DEF SentByClient
<1>3. CASE SentByServer(f, m)
  <2> DEFINE data == IF f.zipped /\ kind[c] = "cpp" THEN Zip(m.data) ELSE m.data
  <2>1. IF ~(Routable(m.type) /\ known) THEN Read(f) = Found(m, m.route, data)
        ELSE IF kind[c] = "go" THEN Read(f) = Rejected
        ELSE Read(f) = IF dict[m.route] \notin DOMAIN sCodes THEN Rejected
                       ELSE Found(m, sCodes[dict[m.route]], data)
    BY <1>3, ClientReads
  <2> HIDE DEF data
  <2>2. known /\ (kind[c] = "cpp" => dict[m.route] \notin DOMAIN sCodes)
    BY <1>1, <2>1
  <2>3. ASSUME kind[c] = "cpp" PROVE m.route \in unregistered
    <3>1. PICK p \in registered : p[1] = m.route /\ p[2] = dict[m.route]
      <4>1. <<m.route, dict[m.route]>> \in registered
        BY <1>1, <2>2, <2>3 DEF MeansInv, Announced
      <4>2. QED
        BY <4>1
    <3>2. m.route \in DOMAIN sRoutes \cup unregistered
      BY <3>1 DEF MeansInv, Kept
    <3>3. ASSUME m.route \in DOMAIN sRoutes PROVE FALSE
      <4>1. OneToOne(registered)
        BY <1>1, <2>3, ConsistentPairs
      <4>2. sRoutes[m.route] \in DOMAIN sCodes
        BY <3>3, <4>1, HalvesAgreeDef DEF MeansInv, DictInv
      <4>3. PICK q \in registered : q[1] = m.route /\ q[2] = sRoutes[m.route]
        <5>1. <<m.route, sRoutes[m.route]>> \in registered
          BY <3>3 DEF MeansInv, DictInv, Recorded
        <5>2. QED
          BY <5>1
      <4>4. dict[m.route] = sRoutes[m.route]
        BY <1>1, <2>2, <2>3, <4>3, ConsistentPairs
      <4>5. QED
        BY <2>2, <2>3, <4>2, <4>4
    <3>4. QED
      BY <3>2, <3>3
  <2>4. QED
    BY <1>1, <1>3, <2>2, <2>3 DEF SentByServer
<1>4. QED
  BY <1>2, <1>3 DEF MeansInv, Encoded

\* In every reachable state a message on its way that cannot be read is one of those
\* that RejectedOnlyFor lists.
THEOREM RejectedOnlyForAlways == Spec => []RejectedOnlyFor
BY MeansInvAlways, MeansRejectedOnlyFor, PTL

\* In every reachable state the two decoders, with the same dictionary, agree on what
\* is on its way, or differ in the ways that DecodersAgree lists; it is bytes, also when
\* no encoder has made it.
THEOREM DecodersAlwaysAgree == Spec => []DecodersAgree
<1>1. MeansInv => DecodersAgree
  <2> SUFFICES ASSUME MeansInv, NEW f \in flight
               PROVE  LET go     == GoDecode(sCodes, f.raw)
                          cpp    == CppDecode(sCodes, f.raw)
                          sameId == HasId(f.raw.flag.type) =>
                                      /\ \E i \in 1 .. Groups : i \in IdEnds(f.raw.rest)
                                      /\ GoId(f.raw.rest) < IdSpace
                      IN  /\ ~go.ok /\ go.panics => ~cpp.ok
                          /\ ~f.raw.flag.gzip /\ sameId =>
                                  go.ok = cpp.ok /\ (go.ok => go.msg = cpp.msg)
    BY DEF DecodersAgree
  <2>1. f.raw.rest \in Seq(Nat)
    BY ByteSeqIsNatSeq DEF MeansInv, Encoded
  <2>2. QED
    BY <2>1, DecodersAgreeOnBytes
<1>2. QED
  BY <1>1, MeansInvAlways, PTL
=============================================================================
