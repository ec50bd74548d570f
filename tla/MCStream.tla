------------------------------ MODULE MCStream ------------------------------
(* Small instances of Stream for TLC. *)
EXTENDS Stream

\* No payload; one that looks like a packet; and the largest one, whose length is
\* lost.  A read of Chunk = 9 bytes holds two small packets and the start of a
\* third, or exactly one of the others, or ends inside any of them.
SmallPayloads == {<<>>, <<4>>, <<3, 0, 0, 0, 4>>, <<0, 0, 0, 0, 0, 0, 0, 0>>}

\* Without the one whose length is lost: an ordinary packet that comes in pieces.
PlainPayloads == {<<4>>, <<3, 0, 0, 0, 4>>}
=============================================================================
