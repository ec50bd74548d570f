----------------------------- MODULE RouteDict ------------------------------
(***************************************************************************)
(* The route dictionary of src/pitaya_cpp/src/message.cpp: two static maps *)
(* that all clients of a process share.  Each operation holds s_mu.        *)
(***************************************************************************)
EXTENDS Integers, FiniteSets

VARIABLES
    sRoutes,        \* s_routes: from routes to codes
    sCodes,         \* s_codes: from codes to routes
    registered,     \* history: the pairs of a route and a code ever registered
    unregistered    \* history: the routes ever unregistered

dictVars == <<sRoutes, sCodes, registered, unregistered>>

NoEntries == [x \in {} |-> x]

DictInit ==
    /\ sRoutes = NoEntries
    /\ sCodes = NoEntries
    /\ registered = {}
    /\ unregistered = {}

\* f[x] = y of a std::unordered_map, and f.erase(x).
Put(f, x, y) == [z \in DOMAIN f \cup {x} |-> IF z = x THEN y ELSE f[z]]
Erase(f, x)  == [z \in DOMAIN f \ {x} |-> f[z]]

-----------------------------------------------------------------------------
\* A slip the code does not make: UnregisterRoute that forgets the code's half.
UnregisterRouteOnly(route) ==
    /\ route \in DOMAIN sRoutes
    /\ sRoutes' = Erase(sRoutes, route)
    /\ unregistered' = unregistered \cup {route}
    /\ UNCHANGED <<sCodes, registered>>

RegisterRoute(route, code) ==
    /\ sRoutes' = Put(sRoutes, route, code)
    /\ sCodes' = Put(sCodes, code, route)
    /\ registered' = registered \cup {<<route, code>>}
    /\ UNCHANGED unregistered

UnregisterRoute(route) ==
    /\ route \in DOMAIN sRoutes
    /\ sRoutes' = Erase(sRoutes, route)
    /\ sCodes' = Erase(sCodes, sRoutes[route])
    /\ unregistered' = unregistered \cup {route}
    /\ UNCHANGED registered

\* The empty string and 0 stand for an entry that is not there.
NoRoute            == <<>>
RouteByCode(code)  == IF code \in DOMAIN sCodes THEN sCodes[code] ELSE NoRoute
CodeByRoute(route) == IF route \in DOMAIN sRoutes THEN sRoutes[route] ELSE 0

-----------------------------------------------------------------------------
\* Is there one code for each route of these pairs, and one route for each code?
OneToOne(pairs) == \A p, q \in pairs : p[1] = q[1] <=> p[2] = q[2]

\* As long as what is registered is one to one, whichever clients register it and
\* in whatever order, the two halves of the dictionary say the same.  (Registering
\* a route under a second code, or a second route under a code, leaves the old half
\* behind, and unregistering then takes the wrong one along.)
HalvesAgree ==
    OneToOne(registered) =>
        /\ \A route \in DOMAIN sRoutes :
              CodeByRoute(route) \in DOMAIN sCodes /\ RouteByCode(CodeByRoute(route)) = route
        /\ \A code \in DOMAIN sCodes :
              RouteByCode(code) \in DOMAIN sRoutes /\ CodeByRoute(RouteByCode(code)) = code
=============================================================================
