----------------------------- MODULE LoadBalancer -----------------------------
(***************************************************************************)
(* GlobalRequestLoadBalancer (verl/workers/rollout/llm_server.py) with its *)
(* callers: the clients that acquire a server for each turn and release it *)
(* by a message nobody waits for, and the manager that adds and removes    *)
(* hybrid replicas around validation (fully_async_rollouter.py).           *)
(*                                                                         *)
(* The balancer is a single-threaded Ray actor: each call is one step. A   *)
(* client's next acquire is queued behind its own release.                 *)
(***************************************************************************)
EXTENDS Naturals, Sequences, FiniteSets

CONSTANTS
    Servers,      \* every server address, standalone and hybrid
    Standalone,   \* the servers the balancer is created with, never removed
    Requests,     \* conversations: the sticky request ids
    CacheSize,    \* capacity of the request-to-server LRU cache
    MaxTurns      \* bound: turns of one conversation

ASSUME ServersAssumption == Standalone \subseteq Servers /\ Standalone # {}
ASSUME RequestsAssumption == IsFiniteSet(Requests)
ASSUME SizesAssumption == CacheSize \in Nat \ {0} /\ MaxTurns \in Nat

VARIABLES
    active,     \* keys of _servers, and of _inflight_requests
    inflight,   \* _inflight_requests; 0 for a server that is not active
    routes,     \* _request_id_to_server, least recently used entry first
    phase,      \* of a conversation: "idle", "held" a server, "releasing" it
    at,         \* the server a conversation holds, or held last
    turns,      \* turns a conversation has started
    since,      \* history: who acquired since a conversation last did
    inexact     \* history: added again with requests of before outstanding

balancer == <<active, inflight, routes>>
clients == <<phase, at, turns>>
vars == <<balancer, clients, since, inexact>>

-----------------------------------------------------------------------------
\* The requests a server is working for, or whose release is on its way.
Outstanding(s) == {r \in Requests : phase[r] # "idle" /\ at[r] = s}

Routed(r) == \E i \in 1..Len(routes) : routes[i].request = r
Position(r) == CHOOSE i \in 1..Len(routes) : routes[i].request = r
RouteOf(r) == routes[Position(r)].server

\* The cache without r's entry.
Forgotten(r) ==
    IF Routed(r)
      THEN SubSeq(routes, 1, Position(r) - 1)
           \o SubSeq(routes, Position(r) + 1, Len(routes))
      ELSE routes

\* The cache with r's entry as the most recent one; an insertion into a full
\* cache evicts the least recently used entry.
Remembered(r, s) ==
    LET others == Forgotten(r)
    IN  Append(IF Len(others) >= CacheSize THEN Tail(others) ELSE others,
               [request |-> r, server |-> s])

Sticky(r) == Routed(r) /\ RouteOf(r) \in active

\* Mutant: the comparison is the wrong way around.
MostLoaded ==
    {s \in active : \A t \in active : inflight[s] >= inflight[t]}

LeastLoaded ==
    {s \in active : \A t \in active : inflight[s] <= inflight[t]}

\* Mutant: a live route is not looked for.
ChoicesOfAll(r) == LeastLoaded

\* The servers acquire_server may answer with; min() breaks ties by insertion
\* order, which is left open here.
Choices(r) == IF Sticky(r) THEN {RouteOf(r)} ELSE LeastLoaded

-----------------------------------------------------------------------------
Init ==
    /\ active = Standalone
    /\ inflight = [s \in Servers |-> 0]
    /\ routes = <<>>
    /\ phase = [r \in Requests |-> "idle"]
    /\ at \in [Requests -> Standalone]
    /\ turns = [r \in Requests |-> 0]
    /\ since = [r \in Requests |-> Requests]
    /\ inexact = {}

\* acquire_server, and the client that awaits it. A removed server's entry is
\* replaced; with no server at all the call raises, which Standalone excludes.
Acquire(r, s) ==
    /\ phase[r] = "idle"
    /\ turns[r] < MaxTurns
    /\ s \in Choices(r)
    /\ inflight' = [inflight EXCEPT ![s] = @ + 1]
    /\ routes' = Remembered(r, s)
    /\ phase' = [phase EXCEPT ![r] = "held"]
    /\ at' = [at EXCEPT ![r] = s]
    /\ turns' = [turns EXCEPT ![r] = @ + 1]
    /\ since' = [q \in Requests |-> IF q = r THEN {} ELSE since[q] \cup {r}]
    /\ UNCHANGED <<active, inexact>>

\* The generation returns, raises or is aborted: the finally clause of
\* generate sends the release and does not wait for it.
Finish(r) ==
    /\ phase[r] = "held"
    /\ phase' = [phase EXCEPT ![r] = "releasing"]
    /\ UNCHANGED <<balancer, at, turns, since, inexact>>

\* Mutants: a count of 0 is decremented, and a count of 1 is not.
ReleaseBelowZero(r) ==
    /\ phase[r] = "releasing"
    /\ inflight' = IF at[r] \in active
                     THEN [inflight EXCEPT ![at[r]] = @ - 1]
                     ELSE inflight
    /\ phase' = [phase EXCEPT ![r] = "idle"]
    /\ inexact' = IF Outstanding(at[r]) = {r} THEN inexact \ {at[r]} ELSE inexact
    /\ UNCHANGED <<active, routes, at, turns, since>>
ReleaseAboveOne(r) ==
    /\ phase[r] = "releasing"
    /\ inflight' = IF at[r] \in active /\ inflight[at[r]] > 1
                     THEN [inflight EXCEPT ![at[r]] = @ - 1]
                     ELSE inflight
    /\ phase' = [phase EXCEPT ![r] = "idle"]
    /\ inexact' = IF Outstanding(at[r]) = {r} THEN inexact \ {at[r]} ELSE inexact
    /\ UNCHANGED <<active, routes, at, turns, since>>

\* release_server: a server that is gone is ignored, a count of 0 stays 0.
Release(r) ==
    /\ phase[r] = "releasing"
    /\ inflight' = IF at[r] \in active /\ inflight[at[r]] > 0
                     THEN [inflight EXCEPT ![at[r]] = @ - 1]
                     ELSE inflight
    /\ phase' = [phase EXCEPT ![r] = "idle"]
    /\ inexact' = IF Outstanding(at[r]) = {r} THEN inexact \ {at[r]} ELSE inexact
    /\ UNCHANGED <<active, routes, at, turns, since>>

\* add_servers, for the hybrid replicas that are not alive yet.
AddServers(S) ==
    /\ S # {} /\ S \cap active = {}
    /\ active' = active \cup S
    /\ inflight' = [s \in Servers |-> IF s \in S THEN 0 ELSE inflight[s]]
    /\ inexact' = inexact \cup {s \in S : Outstanding(s) # {}}
    /\ UNCHANGED <<routes, clients, since>>

\* remove_servers, for hybrid replicas that are alive; the routes to them stay.
RemoveServers(S) ==
    /\ S # {} /\ S \subseteq active
    /\ active' = active \ S
    /\ inflight' = [s \in Servers |-> IF s \in S THEN 0 ELSE inflight[s]]
    /\ UNCHANGED <<routes, clients, since, inexact>>

Next ==
    \/ \E r \in Requests, s \in Servers : Acquire(r, s)
    \/ \E r \in Requests : Finish(r)
    \/ \E r \in Requests : Release(r)
    \/ \E S \in SUBSET (Servers \ Standalone) : AddServers(S)
    \/ \E S \in SUBSET (Servers \ Standalone) : RemoveServers(S)

Spec == Init /\ [][Next]_vars

-----------------------------------------------------------------------------
\* Types; the cache never exceeds its size and holds a request once.
TypeOK ==
    /\ active \subseteq Servers /\ Standalone \subseteq active
    /\ inflight \in [Servers -> Nat]
    /\ routes \in Seq([request : Requests, server : Servers])
    /\ Len(routes) <= CacheSize
    /\ phase \in [Requests -> {"idle", "held", "releasing"}]
    /\ at \in [Requests -> Servers]
    /\ turns \in [Requests -> Nat]
    /\ since \in [Requests -> SUBSET Requests]
    /\ inexact \subseteq Servers

\* The counter release_server and add_servers keep never exceeds the requests
\* really outstanding on a server, so an idle server counts 0 again; and it is
\* exactly that number, unless the server was removed and added again while
\* requests of before were outstanding, until those have all been released.
InflightCounts ==
    \A s \in active :
       /\ inflight[s] <= Cardinality(Outstanding(s))
       /\ s \notin inexact => inflight[s] = Cardinality(Outstanding(s))

Acquires(r) == phase[r] = "idle" /\ phase'[r] = "held"

\* A conversation goes back to the server of its last turn as long as the
\* server is in the pool and fewer conversations than the cache has entries
\* acquired in between, also when the server was away in the meantime.
StickySession ==
    [][\A r \in Requests :
          Acquires(r) /\ at[r] \in active /\ Cardinality(since[r]) < CacheSize
          /\ turns[r] > 0
          => at'[r] = at[r]]_vars

\* The class comment's promise: a conversation without a live route gets a
\* server of the pool with the fewest requests really outstanding, as long as
\* every count is exact.
FewestOutstanding ==
    [][\A r \in Requests :
          Acquires(r) /\ ~Sticky(r) /\ inexact = {}
          => /\ at'[r] \in active
             /\ \A t \in active :
                   Cardinality(Outstanding(at'[r])) <= Cardinality(Outstanding(t))]_vars

\* No count leaks: once the conversations have ended, every server in the pool
\* counts 0 for good, whatever was removed and added while they ran.
Drains ==
    (\A r \in Requests : turns[r] = MaxTurns)
       ~> [](\A s \in active : inflight[s] = 0)
=============================================================================
