---------------------------------- MODULE Gate ----------------------------------
(***************************************************************************)
(* What a request meets before its handler: the start-up guards its        *)
(* process has passed (core/config.py), RequireCloudflare (core/edge.py)   *)
(* and the rate limit keyed by client_ip (core/limiter.py), on several     *)
(* processes that are redeployed one by one and count in a shared storage  *)
(* that may be out.                                                        *)
(*                                                                         *)
(* Requests come through Cloudflare or directly to the platform's edge,    *)
(* with whatever their senders wrote to X-Forwarded-For.  The moving       *)
(* window, the fallback to memory and the return from it are the slowapi   *)
(* library's; one limit stands for those of the routes.  Left out is the   *)
(* health check, which the edge middleware lets through directly and which *)
(* has buckets of its own, as each route does.                             *)
(***************************************************************************)
EXTENDS Integers, FiniteSets, Sequences

CONSTANTS
    Process,
    Client,     \* the addresses of those who send requests
    Cloudflare, \* an address of Cloudflare's
    Edge,       \* the platform's edge: the TCP peer of every request
    Store,      \* the shared storage (RATE_LIMIT_STORAGE_URI)
    Down,       \* a process that is not running
    Settings,   \* the settings the environment may be given
    Written,    \* what senders write to X-Forwarded-For: lists of addresses
    Limit,      \* requests per window
    MaxHits,    \* bound: requests counted at one time
    MaxStarts   \* bound: starts of processes

Environment ==
    [env: {"development", "staging", "production"}, debug: BOOLEAN,
     bypass: BOOLEAN,       \* AUTH_BYPASS_USER_ID is set
     strong: BOOLEAN,       \* JWT_SECRET and ADMIN_API_KEY are long enough
     localhost: BOOLEAN,    \* CORS_ORIGINS names localhost
     secret: {"none", "short", "long"},     \* ORIGIN_SECRET
     hops: Nat,             \* TRUSTED_PROXY_HOPS
     shared: BOOLEAN]       \* RATE_LIMIT_STORAGE_URI is set

ASSUME GateAssumption ==
    /\ Settings \subseteq Environment
    /\ Written \subseteq Seq(Client)
    /\ Limit \in Nat \ {0}
    /\ MaxHits \in Nat
    /\ MaxStarts \in Nat
    /\ Cloudflare \notin Client /\ Edge \notin Client
    /\ Store \notin 0..MaxStarts
    /\ Down \notin Settings

VARIABLES
    process,    \* what each process has read at its start
    starts,     \* how many starts there have been
    memory,     \* which of them gave each process its memory
    reachable,  \* whether the shared storage is
    fallen,     \* the processes that count in memory since an outage
    hits        \* the requests served in the current window

vars == <<process, starts, memory, reachable, fallen, hits>>

Address == Client \cup {Cloudflare, Edge}

(* a process has a new memory from every start                             *)
Memory == 0..MaxStarts

(* n: a place in the bucket of the key; alone, production, forgeable: of   *)
(* the process, when it counted the request                                *)
Hit == [client: Client, key: Address, at: Memory \cup {Store}, n: 1..Limit,
        alone: BOOLEAN, production: BOOLEAN, forgeable: BOOLEAN]

TypeOK ==
    /\ process \in [Process -> Settings \cup {Down}]
    /\ starts \in Memory
    /\ memory \in [Process -> Memory]
    /\ reachable \in BOOLEAN
    /\ fallen \subseteq {p \in Process : process[p] # Down}
    /\ hits \subseteq Hit

-----------------------------------------------------------------------------
(* no ORIGIN_SECRET is asked for                                           *)
SafeMutant(s) ==
    \/ s.env = "development"
    \/ ~s.debug /\ ~s.bypass /\ s.strong /\ ~s.localhost

(* _deployment_guards                                                      *)
Safe(s) ==
    \/ s.env = "development"
    \/ /\ ~s.debug
       /\ ~s.bypass
       /\ s.strong
       /\ ~s.localhost
       /\ s.env = "production" => s.secret = "long"

(* Cloudflare adds the header to what it forwards                          *)
CameThroughCloudflare(s, route) == s.secret # "none" /\ route = "cloudflare"

(* RequireCloudflare                                                       *)
Refused(s, route) == s.secret # "none" /\ ~CameThroughCloudflare(s, route)

(* X-Forwarded-For: what the sender wrote, and after it each proxy has     *)
(* appended the address it was sent from                                   *)
Chain(c, written, route) ==
    written \o IF route = "cloudflare" THEN <<c, Cloudflare>> ELSE <<c>>

(* client_ip                                                               *)
ClientIp(s, c, written, route) ==
    LET chain == Chain(c, written, route)
    IN  IF CameThroughCloudflare(s, route) THEN c
        ELSE IF s.hops # 0 /\ Len(chain) >= s.hops
             THEN chain[Len(chain) - s.hops + 1]
             ELSE Edge

(* The hop count counts a proxy beside the platform's edge, which a        *)
(* request can go around, and no secret tells which do.                    *)
Forgeable(s) == s.secret = "none" /\ s.hops > 1

(* the processes count in memory although a storage is set                 *)
PlaceMutant(p) == memory[p]

(* where the counters of a process are: _limiter_kwargs                    *)
Place(p) ==
    IF process[p].shared /\ p \notin fallen THEN Store ELSE memory[p]

Bucket(at, key) == {h \in hits : h.at = at /\ h.key = key}

Taken(at, key) == {h.n : h \in Bucket(at, key)}

(* one request more than the limit is let through                          *)
PlacesLeftMutant(at, key) == 1..(Limit + 1) \ Taken(at, key)

(* the moving window's: what the limit leaves of a bucket                  *)
PlacesLeft(at, key) == 1..Limit \ Taken(at, key)

-----------------------------------------------------------------------------
Init ==
    /\ process = [p \in Process |-> Down]
    /\ starts = 0
    /\ memory = [p \in Process |-> 0]
    /\ reachable = TRUE
    /\ fallen = {}
    /\ hits = {}

(* A start reads the environment as an operator has left it; unsafe        *)
(* settings raise, and the process does not start.                         *)
Boot(p, s) ==
    /\ process[p] = Down
    /\ Safe(s)
    /\ starts < MaxStarts
    /\ process' = [process EXCEPT ![p] = s]
    /\ starts' = starts + 1
    /\ memory' = [memory EXCEPT ![p] = starts + 1]
    /\ UNCHANGED <<reachable, fallen, hits>>

(* it stops or dies, and its memory with it                                *)
Stop(p) ==
    /\ process[p] # Down
    /\ process' = [process EXCEPT ![p] = Down]
    /\ fallen' = fallen \ {p}
    /\ memory' = [memory EXCEPT ![p] = 0]
    /\ UNCHANGED <<starts, reachable, hits>>

(* the storage goes out or comes back                                      *)
Outage ==
    /\ reachable' = ~reachable
    /\ UNCHANGED <<process, starts, memory, fallen, hits>>

(* in_memory_fallback_enabled: a request of the process meets the outage   *)
FallBack(p) ==
    /\ process[p] # Down
    /\ Place(p) = Store
    /\ ~reachable
    /\ fallen' = fallen \cup {p}
    /\ UNCHANGED <<process, starts, memory, reachable, hits>>

(* ... and a later one, after a back-off, finds the storage there again    *)
Recover(p) ==
    /\ p \in fallen
    /\ reachable
    /\ fallen' = fallen \ {p}
    /\ UNCHANGED <<process, starts, memory, reachable, hits>>

(* a request that is neither refused (403) nor over the limit (429)        *)
Serve(p, c, written, route) ==
    LET s == process[p]
        at == Place(p)
        key == ClientIp(s, c, written, route)
        left == PlacesLeft(at, key)
    IN  /\ s # Down
        /\ ~Refused(s, route)
        /\ at = Store => reachable
        /\ Cardinality(hits) < MaxHits
        /\ \E n \in left :
              /\ \A m \in left : n <= m
              /\ hits' = hits \cup
                    {[client |-> c, key |-> key, at |-> at, n |-> n,
                      alone |-> ~s.shared \/ p \in fallen,
                      production |-> s.env = "production",
                      forgeable |-> Forgeable(s)]}
        /\ UNCHANGED <<process, starts, memory, reachable, fallen>>

(* the window moves past a request                                         *)
Expire(h) ==
    /\ hits' = hits \ {h}
    /\ UNCHANGED <<process, starts, memory, reachable, fallen>>

Next ==
    \/ Outage
    \/ \E h \in hits : Expire(h)
    \/ \E p \in Process :
          \/ \E s \in Settings : Boot(p, s)
          \/ Stop(p)
          \/ FallBack(p)
          \/ Recover(p)
          \/ \E c \in Client, written \in Written,
                route \in {"cloudflare", "direct"} :
                   Serve(p, c, written, route)

Spec == Init /\ [][Next]_vars

-----------------------------------------------------------------------------
(* What the gate promises                                                  *)

(* requests of a client that production has served                         *)
Served(c) == {h \in hits : h.client = c /\ h.production}

(***************************************************************************)
(* In production no client is counted in a bucket that others fill (what   *)
(* limiter.py:51 rules out), whatever settings earlier processes were      *)
(* started with, whichever way the requests come and whatever they claim   *)
(* in X-Forwarded-For.  The exception is the one SECURITY.md:88-91 warns   *)
(* of: a process beside production, on the same storage, whose hop count   *)
(* is too high reads an address that its caller wrote.                     *)
(***************************************************************************)
OwnBucket ==
    \A c \in Client : \A h \in Served(c) :
        \A g \in Bucket(h.at, h.key) : g.client = c \/ g.forgeable

(***************************************************************************)
(* A client gets the budget of a limit once from all the processes that    *)
(* count in the shared storage, across restarts, and again from each start *)
(* of a process that counts alone, because of an outage or for lack of a   *)
(* storage (config.py:73-74, SECURITY.md:111-114).                         *)
(***************************************************************************)
BudgetHeld ==
    \A c \in Client :
        /\ Cardinality({h \in Served(c) : ~h.alone}) <= Limit
        /\ \A m \in Memory :
              Cardinality({h \in Served(c) : h.alone /\ h.at = m}) <= Limit
=============================================================================
