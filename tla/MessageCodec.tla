---------------------------- MODULE MessageCodec ----------------------------
(***************************************************************************)
(* The message codecs of src/message/message.go and                        *)
(* src/pitaya_cpp/src/message.cpp: a flag byte, for requests and responses *)
(* an id, for all but responses a route, and the data.                     *)
(*                                                                         *)
(* A byte is a number below Base, 256 in the code.  The flag byte is kept  *)
(* as a record of its fields, the bytes behind it as a sequence.  A route  *)
(* is the sequence of its characters.                                      *)
(***************************************************************************)
EXTENDS Integers, Sequences, FiniteSetsExt

CONSTANTS
    Half,       \* 128: a byte of an id has a digit below Half, and its top bit
                \* says that another one follows
    Groups,     \* 5: the bytes of an id that the C++ client reads, and the largest has
    IdSpace     \* 2^32, the values of its id; an id of the Go client has 64 bits

Base == 2 * Half
Byte == 0 .. Base - 1

Request  == 0
Notify   == 1
Response == 2
Push     == 3

InvalidType(t) == t \notin Request .. Push
Routable(t)    == t \in {Request, Notify, Push}
HasId(t)       == t \in {Request, Response}

Behind(s, n) == SubSeq(s, n + 1, Len(s))

\* What compression of the data amounts to: the result is marked, and data that is
\* not marked cannot be inflated.
Mark       == Base - 1
Zip(d)     == <<Mark>> \o d
IsZip(d)   == d # <<>> /\ d[1] = Mark
Inflate(d) == Behind(d, 1)

-----------------------------------------------------------------------------
(* Encode                                                                  *)

\* A slip the code does not make: the top bit of an id's bytes forgotten.
IdBytesUnmarked(id) ==
    LET digits[n \in 0 .. IdSpace - 1] ==
            IF n < Half THEN <<n>> ELSE <<n % Half>> \o digits[n \div Half]
    IN digits[id]

\* The digits of an id to the base Half, the lowest first.
IdBytes(id) ==
    LET digits[n \in 0 .. IdSpace - 1] ==
            IF n < Half THEN <<n>> ELSE <<(n % Half) + Half>> \o digits[n \div Half]
    IN digits[id]

ASSUME CodecAssumption ==
    /\ Half \in Nat \ {0, 1} /\ Groups \in Nat \ {0} /\ IdSpace \in Nat \ {0}
    /\ Len(IdBytes(IdSpace - 1)) = Groups

CodeBytes(code) == <<code \div Base, code % Base>>

\* The length of a route is cut to one byte.
RouteBytes(route) == <<Len(route) % Base>> \o route

\* Both encoders; routes is the half of the dictionary from routes to codes.
Encode(routes, m) ==
    LET compressed == m.route \in DOMAIN routes IN
    [flag |-> [type |-> m.type, compressed |-> compressed, gzip |-> FALSE, err |-> m.err],
     rest |-> (IF HasId(m.type) THEN IdBytes(m.id) ELSE <<>>) \o
              (IF ~Routable(m.type) THEN <<>>
               ELSE IF compressed THEN CodeBytes(routes[m.route])
               ELSE RouteBytes(m.route)) \o
              m.data]

\* The C++ encoder throws "route too long" instead of cutting the length.
CppEncodable(routes, m) ==
    Routable(m.type) /\ m.route \notin DOMAIN routes => Len(m.route) < Base

-----------------------------------------------------------------------------
(* Decode: [ok |-> TRUE, msg |-> ...], or [ok |-> FALSE, panics |-> ...]   *)

Rejected == [ok |-> FALSE, panics |-> FALSE]
Panics   == [ok |-> FALSE, panics |-> TRUE]

IdEnds(rest)   == {i \in DOMAIN rest : rest[i] < Half}

\* The number that has these digits; value[i] is what those behind the first i amount to.
IdValue(bytes) ==
    LET value[i \in 0 .. Len(bytes)] ==
            IF i = Len(bytes) THEN 0 ELSE (bytes[i + 1] % Half) + Half * value[i + 1]
    IN value[0]

\* How many bytes of rest the id takes.  An id without a last byte is added up, but
\* Go's offset stays in front of it, and the C++ one goes behind all there is.
GoIdLength(rest)  == IF IdEnds(rest) = {} THEN 0 ELSE Min(IdEnds(rest))
CppIdLength(rest) == IF IdEnds(rest) = {} THEN Len(rest) ELSE Min(IdEnds(rest))

GoId(rest)  == IdValue(IF IdEnds(rest) = {} THEN rest ELSE SubSeq(rest, 1, GoIdLength(rest)))
               % (IdSpace * IdSpace)
CppId(rest) == IdValue(SubSeq(rest, 1, CppIdLength(rest))) % IdSpace

\* A slip the code does not make: shift >= 28 in the check below.
CppIdFitsShort(rest) == \E i \in 1 .. Groups - 1 : i > Len(rest) \/ i \in IdEnds(rest)

\* "id too large": the last byte the C++ decoder would look at asks for another one.
CppIdFits(rest) == \E i \in 1 .. Groups : i > Len(rest) \/ i \in IdEnds(rest)

\* The message behind the id: its route, from the dictionary's half from codes to
\* routes or spelled out, and its data.
Body(flag, id, rest, codes) ==
    LET msg(route, data) ==
            [ok |-> TRUE, msg |-> [type |-> flag.type, id |-> id, route |-> route,
                                   data |-> data, err |-> flag.err]]
        code == rest[1] * Base + rest[2]
    IN  IF ~Routable(flag.type) THEN msg(<<>>, rest)
        ELSE IF flag.compressed
             THEN IF Len(rest) < 2 \/ code \notin DOMAIN codes THEN Rejected
                  ELSE msg(codes[code], Behind(rest, 2))
        ELSE IF 1 + rest[1] > Len(rest) THEN Rejected
        ELSE msg(SubSeq(rest, 2, 1 + rest[1]), Behind(rest, 1 + rest[1]))

\* Go indexes the length of a route without looking whether it is there.
GoDecode(codes, raw) ==
    LET hasId == HasId(raw.flag.type)
        rest  == IF hasId THEN Behind(raw.rest, GoIdLength(raw.rest)) ELSE raw.rest
        id    == IF hasId THEN GoId(raw.rest) ELSE 0
    IN  IF raw.rest = <<>> \/ InvalidType(raw.flag.type) THEN Rejected
        ELSE IF Routable(raw.flag.type) /\ ~raw.flag.compressed /\ rest = <<>> THEN Panics
        ELSE LET got == Body(raw.flag, id, rest, codes) IN
             IF ~got.ok \/ ~raw.flag.gzip THEN got
             ELSE IF IsZip(got.msg.data) THEN [got EXCEPT !.msg.data = Inflate(@)]
             ELSE Rejected

\* C++ leaves compressed data as it is.
CppDecode(codes, raw) ==
    LET hasId == HasId(raw.flag.type)
        rest  == IF hasId THEN Behind(raw.rest, CppIdLength(raw.rest)) ELSE raw.rest
        id    == IF hasId THEN CppId(raw.rest) ELSE 0
    IN  IF \/ raw.rest = <<>> \/ InvalidType(raw.flag.type)
           \/ hasId /\ ~CppIdFits(raw.rest)
           \/ Routable(raw.flag.type) /\ ~raw.flag.compressed /\ rest = <<>>
        THEN Rejected
        ELSE Body(raw.flag, id, rest, codes)
=============================================================================
