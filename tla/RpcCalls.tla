------------------------------ MODULE RpcCalls ------------------------------
(***************************************************************************)
(* What a pitaya client promises to the code that calls Request, whichever *)
(* of the two clients of this repository it uses: a request that was       *)
(* issued is resolved at most once, by the reply the server produced for   *)
(* that very request, and never before the server produced it.             *)
(*                                                                         *)
(* Nothing here says that a reply arrives: the network and the server may  *)
(* lose it.  GoClient and CppClient are shown to implement this module.    *)
(***************************************************************************)

CONSTANTS
    Requests,   \* the calls of Request, each of them made at most once
    None        \* "no reply yet"

VARIABLES
    issued,     \* the requests the application has made
    served,     \* the requests the server has produced a reply for
    result      \* result[r]: the request whose reply r was resolved with

vars == <<issued, served, result>>

Init ==
    /\ issued = {}
    /\ served = {}
    /\ result = [r \in Requests |-> None]

Issue(r) ==
    /\ r \notin issued
    /\ issued' = issued \cup {r}
    /\ UNCHANGED <<served, result>>

Serve(r) ==
    /\ r \in issued \ served
    /\ served' = served \cup {r}
    /\ UNCHANGED <<issued, result>>

Resolve(r) ==
    /\ r \in served
    /\ result[r] = None
    /\ result' = [result EXCEPT ![r] = r]
    /\ UNCHANGED <<issued, served>>

Next == \E r \in Requests : Issue(r) \/ Serve(r) \/ Resolve(r)

Spec == Init /\ [][Next]_vars
=============================================================================
