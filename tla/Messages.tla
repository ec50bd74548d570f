------------------------------ MODULE Messages ------------------------------
(***************************************************************************)
(* Messages on their way between clients and servers, encoded under one    *)
(* state of a route dictionary and decoded under another: the handshakes   *)
(* that fill the dictionary (handleHandshakeResponse of                    *)
(* src/pitaya_cpp/src/client.cpp), the codecs on both sides, and what a    *)
(* message that cannot be decoded does to its reader.                      *)
(*                                                                         *)
(* The C++ clients are in one process and share its dictionary.  A Go      *)
(* client never fills its own.  Servers encode and decode like             *)
(* src/message/message.go, each with the dictionary it announces in its    *)
(* handshake.  How a message is carried is the matter of other modules:    *)
(* here a single one is on its way at a time, and takes as long as it      *)
(* likes.                                                                  *)
(***************************************************************************)
EXTENDS MessageCodec, RouteDict, Functions

CONSTANTS
    Clients,
    Routes,         \* the routes the application and the servers use
    Dicts,          \* the dictionaries that servers announce
    Ids, Datas,     \* the ids and the data of messages
    MaxSessions,    \* bound: connections made
    Rests           \* bound: what is behind the flag of a message that makes no sense

ASSUME MessagesAssumption ==
    /\ \A dict \in Dicts :
          DOMAIN dict \subseteq Routes /\ \A r \in DOMAIN dict : dict[r] \in 0 .. Base * Base - 1
    /\ Ids \subseteq 0 .. IdSpace - 1
    /\ Routes \subseteq Seq(Byte) /\ Datas \subseteq Seq(Byte) /\ Rests \subseteq Seq(Byte)

VARIABLES
    kind,       \* is a client of src/client or of src/pitaya_cpp?
    conn,       \* the state of a client's connection, the server's dictionary, and
                \* the entries of it that are still to be registered
    sessions,   \* connections made so far
    flight,     \* the message on its way, if any; means is the set of the message that
                \* its sender means by it, or empty
    crashed     \* the clients whose process an exception or a panic has ended

vars == <<kind, conn, sessions, flight, crashed, dictVars>>

Off == [at |-> "off", dict |-> NoEntries, todo |-> {}]

Init ==
    /\ DictInit
    /\ kind \in [Clients -> {"go", "cpp"}]
    /\ conn = [c \in Clients |-> Off]
    /\ sessions = 0
    /\ flight = {}
    /\ crashed = {}

Runs(c) == c \notin crashed

\* The clients in the process of c: a Go client has one of its own.
Together(c) == {d \in Clients : d = c \/ (kind[c] = "cpp" /\ kind[d] = "cpp")}

-----------------------------------------------------------------------------
(* Connections                                                             *)

\* The client has the server's handshake response.
Handshake(c) ==
    /\ Runs(c)
    /\ conn[c].at = "off"
    /\ sessions < MaxSessions
    /\ \E dict \in Dicts :
          conn' = [conn EXCEPT ![c] =
                      IF kind[c] = "go" THEN [at |-> "on", dict |-> dict, todo |-> {}]
                      ELSE [at |-> "handshake", dict |-> dict, todo |-> DOMAIN dict]]
    /\ sessions' = sessions + 1
    /\ UNCHANGED <<kind, flight, crashed, dictVars>>

\* for (auto &[route, code] : hs.sys.dict), in no particular order.
RegisterNext(c) ==
    /\ Runs(c)
    /\ \E route \in conn[c].todo :
          /\ RegisterRoute(route, conn[c].dict[route])
          /\ conn' = [conn EXCEPT ![c].todo = @ \ {route}]
    /\ UNCHANGED <<kind, sessions, flight, crashed>>

\* A slip the code does not make: the HandshakeAck before the dictionary.
AckAtOnce(c) ==
    /\ Runs(c)
    /\ conn[c].at = "handshake"
    /\ conn' = [conn EXCEPT ![c].at = "on"]
    /\ UNCHANGED <<kind, sessions, flight, crashed, dictVars>>

\* The HandshakeAck, behind which messages go both ways.
Ack(c) ==
    /\ Runs(c)
    /\ conn[c].at = "handshake"
    /\ conn[c].todo = {}
    /\ conn' = [conn EXCEPT ![c].at = "on"]
    /\ UNCHANGED <<kind, sessions, flight, crashed, dictVars>>

\* The connection ends, for whatever reason; the dictionary stays.
Disconnect(c) ==
    /\ Runs(c)
    /\ conn[c].at # "off"
    /\ conn' = [conn EXCEPT ![c] = Off]
    /\ flight' = {f \in flight : f.client # c}
    /\ UNCHANGED <<kind, sessions, crashed, dictVars>>

\* The application takes a route out of the dictionary.
Unregister ==
    /\ \E c \in Clients : kind[c] = "cpp" /\ Runs(c)
    /\ \E route \in Routes : UnregisterRoute(route)
    /\ UNCHANGED <<kind, conn, sessions, flight, crashed>>

-----------------------------------------------------------------------------
(* Messages                                                                *)

Fly(c, to, raw, means, zipped) ==
    flight' = {[client |-> c, to |-> to, raw |-> raw, means |-> means, zipped |-> zipped]}

ToServer ==
    {[type |-> Request, id |-> i, route |-> r, data |-> d, err |-> FALSE] :
        i \in Ids, r \in Routes, d \in Datas}
    \cup {[type |-> Notify, id |-> 0, route |-> r, data |-> d, err |-> FALSE] :
        r \in Routes, d \in Datas}

ToClient ==
    {[type |-> Response, id |-> i, route |-> <<>>, data |-> d, err |-> e] :
        i \in Ids, d \in Datas, e \in BOOLEAN}
    \cup {[type |-> Push, id |-> 0, route |-> r, data |-> d, err |-> FALSE] :
        r \in {route \in Routes : Len(route) < Base}, d \in Datas}

Encoding(c) == IF kind[c] = "cpp" THEN sRoutes ELSE NoEntries

\* The send thread or writeLoop encodes a message.  When the C++ encoder throws,
\* nobody catches it.
ClientSend(c) ==
    /\ Runs(c)
    /\ conn[c].at = "on"
    /\ flight = {}
    /\ \E m \in ToServer :
          \/ /\ kind[c] = "cpp" => CppEncodable(sRoutes, m)
             /\ Fly(c, "server", Encode(Encoding(c), m), {m}, FALSE)
             /\ UNCHANGED crashed
          \/ /\ kind[c] = "cpp" /\ ~CppEncodable(sRoutes, m)
             /\ crashed' = crashed \cup Together(c)
             /\ UNCHANGED flight
    /\ UNCHANGED <<kind, conn, sessions, dictVars>>

\* The server, which is not part of the repository, compresses data or does not.
ServerSend(c) ==
    /\ Runs(c)
    /\ conn[c].at = "on"
    /\ flight = {}
    /\ \E m \in ToClient :
          LET raw == Encode(conn[c].dict, m) IN
          \/ Fly(c, "client", raw, {m}, FALSE)
          \/ Fly(c, "client", [Encode(conn[c].dict, [m EXCEPT !.data = Zip(@)])
                                  EXCEPT !.flag.gzip = TRUE], {m}, TRUE)
    /\ UNCHANGED <<kind, conn, sessions, crashed, dictVars>>

\* Bytes that no encoder makes.  Bound: in the first session.
ServerGarbage(c) ==
    /\ Runs(c)
    /\ conn[c].at = "on"
    /\ flight = {}
    /\ sessions = 1
    /\ \E t \in Request .. Push + 1, compressed \in BOOLEAN, rest \in Rests :
          LET flag == [type |-> t, compressed |-> compressed, gzip |-> FALSE, err |-> FALSE]
          IN  Fly(c, "client", [flag |-> flag, rest |-> rest], {}, FALSE)
    /\ UNCHANGED <<kind, conn, sessions, crashed, dictVars>>

\* What the message on its way says to its reader.
Read(f) ==
    IF f.to = "server" THEN GoDecode(AntiFunction(conn[f.client].dict), f.raw)
    ELSE IF kind[f.client] = "go" THEN GoDecode(NoEntries, f.raw)
    ELSE CppDecode(sCodes, f.raw)

\* In the C++ client the exception of Decode ends the process, and so does the panic of
\* Go's Decode; an error of it ends readLoop, and with it the connection.
Arrive ==
    /\ \E f \in flight :
          LET c    == f.client
              lost == f.to = "client" /\ ~Read(f).ok
              dies == lost /\ (kind[c] = "cpp" \/ Read(f).panics)
          IN
          /\ Runs(c)
          /\ conn' = IF lost /\ kind[c] = "go" THEN [conn EXCEPT ![c] = Off] ELSE conn
          /\ crashed' = crashed \cup IF dies THEN Together(c) ELSE {}
    /\ flight' = {}
    /\ UNCHANGED <<kind, sessions, dictVars>>

-----------------------------------------------------------------------------
Next ==
    \/ \E c \in Clients :
          \/ Handshake(c) \/ RegisterNext(c) \/ Ack(c) \/ Disconnect(c)
          \/ ClientSend(c) \/ ServerSend(c) \/ ServerGarbage(c)
    \/ Unregister
    \/ Arrive

Spec == Init /\ [][Next]_vars

-----------------------------------------------------------------------------
(* Properties                                                              *)

Pairs(dict) == {<<route, dict[route]>> : route \in DOMAIN dict}

TypeOK ==
    /\ kind \in [Clients -> {"go", "cpp"}]
    /\ \A c \in Clients :
          /\ conn[c].at \in {"off", "handshake", "on"}
          /\ conn[c].dict \in Dicts \cup {NoEntries}
          /\ conn[c].todo \subseteq DOMAIN conn[c].dict
          /\ conn[c].at = "on" => conn[c].todo = {}
    /\ DOMAIN sRoutes \subseteq Routes /\ {sCodes[k] : k \in DOMAIN sCodes} \subseteq Routes
    /\ registered \subseteq UNION {Pairs(dict) : dict \in Dicts}
    /\ Cardinality(flight) <= 1
    /\ \A f \in flight : conn[f.client].at = "on" /\ f.means \subseteq ToServer \cup ToClient
    /\ crashed \subseteq Clients

\* Do the entries this process has registered and the dictionary of the server c is
\* connected to make sense together?
Consistent(c) ==
    OneToOne(Pairs(conn[c].dict) \cup IF kind[c] = "cpp" THEN registered ELSE {})

\* A route whose length the Go client cuts.
CutShort(f, m) == f.to = "server" /\ kind[f.client] = "go" /\ Len(m.route) >= Base

\* A message that is read is read as it was meant, however the dictionary has changed
\* since it was encoded and whoever changed it, if there is only ever one code for a
\* route and one route for a code: never another route, id or data.  The exceptions
\* are a route too long for its length byte, and compressed data, which the C++ client
\* takes for data.
ReadAsMeant ==
    \A f \in flight : \A m \in f.means :
        Consistent(f.client) /\ ~CutShort(f, m) /\ Read(f).ok =>
            Read(f).msg = IF f.zipped /\ kind[f.client] = "cpp"
                          THEN [m EXCEPT !.data = Zip(@)] ELSE m

\* A message is rejected, which costs a Go client the connection and a C++ client the
\* process, only for one of these reasons: a Go client does not know the server's
\* dictionary; a C++ application has unregistered the route; a server does not know
\* the dictionary of another server that the C++ process has been connected to; or the
\* dictionaries do not make sense together.
RejectedOnlyFor ==
    \A f \in flight : \A m \in f.means :
        ~CutShort(f, m) /\ ~Read(f).ok =>
            LET c     == f.client
                known == m.route \in DOMAIN conn[c].dict
            IN  \/ f.to = "client" /\ kind[c] = "go" /\ known
                \/ f.to = "client" /\ kind[c] = "cpp" /\ m.route \in unregistered
                \/ f.to = "server" /\ kind[c] = "cpp" /\ ~known
                \/ ~Consistent(c)

\* With the same dictionary, the two decoders take the same bytes for the same message,
\* or both reject them, unless the id has no end, does not fit in the C++ client's, or
\* data is compressed; and Go panics only where C++ rejects.
DecodersAgree ==
    \A f \in flight :
        LET go     == GoDecode(sCodes, f.raw)
            cpp    == CppDecode(sCodes, f.raw)
            sameId == HasId(f.raw.flag.type) =>
                        /\ \E i \in 1 .. Groups : i \in IdEnds(f.raw.rest)
                        /\ GoId(f.raw.rest) < IdSpace
        IN  /\ ~go.ok /\ go.panics => ~cpp.ok
            /\ ~f.raw.flag.gzip /\ sameId =>
                    go.ok = cpp.ok /\ (go.ok => go.msg = cpp.msg)
=============================================================================
