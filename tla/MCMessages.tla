----------------------------- MODULE MCMessages -----------------------------
(* A small instance of Messages for TLC. *)
EXTENDS Messages

CONSTANTS c1, c2

\* Bytes are 0 .. 7.  A code has two bytes that differ; the longest route does not
\* fit its length byte.
a    == <<1>>
b    == <<2, 3>>
long == <<1, 1, 1, 1, 1, 1, 1, 1>>

SmallRoutes == {a, b, long}

\* Two dictionaries that agree, and one in which a code has another route.
SmallDicts ==
    {[r \in {a, b} |-> IF r = a THEN 1 ELSE 10], [r \in {b} |-> 10], [r \in {a} |-> 10]}

\* Ids of one byte and of as many as there are; data like an id or a route.
SmallIds   == {3, IdSpace - 1}
SmallDatas == {<<>>, <<1, 4>>}

\* Up to three bytes: ends of ids and ids without an end, routes and codes that are
\* not all there.
SmallRests == UNION {[1 .. n -> {0, 1, 4}] : n \in 0 .. 3}
=============================================================================
