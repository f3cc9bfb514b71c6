------------------------------- MODULE GateProofs -------------------------------
(***************************************************************************)
(* Proofs about Gate, for any processes, clients and settings and any      *)
(* limit.                                                                  *)
(*                                                                         *)
(* A process that runs has passed the guards (RunningSafe), so one in      *)
(* production knows the origin secret, and whoever it serves has come      *)
(* through Cloudflare and is counted under its own address.  The others    *)
(* may be counted under the address of a proxy, but under no client's but  *)
(* their own, unless the hop count is too high (KeysOK).  Every hit of a   *)
(* bucket has a place of its own (PlacesOK), and a hit that was counted    *)
(* alone lies in a memory (AloneOK), so a bucket is all that a client can  *)
(* fill.                                                                   *)
(***************************************************************************)
EXTENDS Gate, FiniteSetTheorems, SequenceTheorems, TLAPS

RunningSafe == \A p \in Process : process[p] # Down => Safe(process[p])

(* under whose address a hit is counted                                    *)
OwnKey(h) ==
    /\ h.key \in Client => h.key = h.client \/ h.forgeable
    /\ h.production => h.key = h.client

KeysOK == \A h \in hits : OwnKey(h)

PlacesOK ==
    \A g, h \in hits :
        g.at = h.at /\ g.key = h.key /\ g.n = h.n => g = h

AloneOK == \A h \in hits : h.alone <=> h.at # Store

GateInv == TypeOK /\ RunningSafe /\ KeysOK /\ PlacesOK /\ AloneOK

-----------------------------------------------------------------------------
(***************************************************************************)
(* X-Forwarded-For ends in what the proxies wrote, whatever its sender did.*)
(***************************************************************************)
LEMMA ChainResult ==
    ASSUME NEW c \in Client, NEW written \in Written, NEW route
    PROVE  /\ Chain(c, written, route) \in Seq(Address)
           /\ Len(Chain(c, written, route)) > 0
           /\ Chain(c, written, route)[Len(Chain(c, written, route))]
                \in {c, Cloudflare}
  <1> DEFINE own == IF route = "cloudflare" THEN <<c, Cloudflare>> ELSE <<c>>
  <1>1. /\ own \in Seq(Address)
        /\ Len(own) > 0
        /\ own[Len(own)] \in {c, Cloudflare}
    <2>1. c \in Address /\ Cloudflare \in Address
      BY DEF Address
    <2>2. CASE route = "cloudflare"
      BY <2>1, <2>2
    <2>3. CASE route # "cloudflare"
      BY <2>1, <2>3
    <2>4. QED
      BY <2>2, <2>3
  <1>2. written \in Seq(Address)
    BY GateAssumption DEF GateAssumption, Address
  <1>3. Chain(c, written, route) = written \o own
    BY DEF Chain
  <1> HIDE DEF own
  <1>4. /\ written \o own \in Seq(Address)
        /\ Len(written \o own) = Len(written) + Len(own)
        /\ \A i \in 1 .. Len(written) + Len(own) : (written \o own)[i] =
              IF i <= Len(written) THEN written[i] ELSE own[i - Len(written)]
    BY <1>1, <1>2, ConcatProperties
  <1>5. Len(written) \in Nat /\ Len(own) \in Nat
    BY <1>1, <1>2, LenProperties
  <1>6. (written \o own)[Len(written) + Len(own)] = own[Len(own)]
    BY <1>1, <1>4, <1>5
  <1>7. QED
    BY <1>1, <1>3, <1>4, <1>5, <1>6

(***************************************************************************)
(* client_ip returns the client's address whenever the origin secret shows *)
(* that Cloudflare forwarded the request, and otherwise the client's or a  *)
(* proxy's, unless the hop count reaches what callers write.               *)
(***************************************************************************)
LEMMA ClientIpResult ==
    ASSUME NEW s \in Environment, NEW c \in Client, NEW written \in Written,
           NEW route
    PROVE  /\ ClientIp(s, c, written, route) \in Address
           /\ CameThroughCloudflare(s, route)
                => ClientIp(s, c, written, route) = c
           /\ ~Forgeable(s) /\ ~Refused(s, route)
                => ClientIp(s, c, written, route) \in {c, Cloudflare, Edge}
  <1> DEFINE chain == Chain(c, written, route)
  <1>1. /\ chain \in Seq(Address)
        /\ Len(chain) \in Nat \ {0}
        /\ chain[Len(chain)] \in {c, Cloudflare}
    BY ChainResult, LenProperties
  <1>2. s.hops \in Nat
    BY DEF Environment
  <1>3. {c, Cloudflare, Edge} \subseteq Address
    BY DEF Address
  <1> HIDE DEF chain
  <1>4. CASE CameThroughCloudflare(s, route)
    BY <1>3, <1>4 DEF ClientIp
  <1>5. CASE ~CameThroughCloudflare(s, route)
               /\ ~(s.hops # 0 /\ Len(chain) >= s.hops)
    BY <1>3, <1>5 DEF ClientIp, chain
  <1>6. CASE ~CameThroughCloudflare(s, route)
               /\ s.hops # 0 /\ Len(chain) >= s.hops
    <2>1. ClientIp(s, c, written, route) = chain[Len(chain) - s.hops + 1]
      BY <1>6 DEF ClientIp, chain
    <2>2. Len(chain) - s.hops + 1 \in 1..Len(chain)
      BY <1>1, <1>2, <1>6
    <2>3. chain[Len(chain) - s.hops + 1] \in Address
      BY <1>1, <2>2, ElementOfSeq
    <2>4. ~Forgeable(s) /\ ~Refused(s, route) => s.hops = 1
      BY <1>2, <1>6 DEF Forgeable, Refused
    <2>5. s.hops = 1 => Len(chain) - s.hops + 1 = Len(chain)
      BY <1>1
    <2>6. s.hops = 1 => chain[Len(chain) - s.hops + 1] \in {c, Cloudflare}
      BY <1>1, <2>5
    <2>7. QED
      BY <1>6, <2>1, <2>3, <2>4, <2>6
  <1>7. QED
    BY <1>4, <1>5, <1>6

(***************************************************************************)
(* Guards that ask production for an origin secret (config.py), and the    *)
(* middleware that then refuses what did not come through Cloudflare.      *)
(***************************************************************************)
LEMMA ProductionForwarded ==
    ASSUME NEW s \in Environment, NEW route, Safe(s), s.env = "production",
           ~Refused(s, route)
    PROVE  CameThroughCloudflare(s, route)
  BY DEF Safe, Refused, CameThroughCloudflare

(***************************************************************************)
(* Hits that have a place each are no more than the limit has places.      *)
(***************************************************************************)
LEMMA PlacesBound ==
    ASSUME NEW S, \A h \in S : h.n \in 1..Limit,
           \A g, h \in S : g.n = h.n => g = h
    PROVE  Cardinality(S) <= Limit
  <1> DEFINE place == [h \in S |-> h.n]
  <1>1. place \in Injection(S, 1..Limit)
    BY DEF Injection, IsInjective
  <1>2. /\ IsFiniteSet(1..Limit)
        /\ Cardinality(1..Limit) = Limit
    BY FS_Interval, GateAssumption DEF GateAssumption
  <1> HIDE DEF place
  <1>3. QED
    BY <1>1, <1>2, FS_Injection

-----------------------------------------------------------------------------
LEMMA InitGateInv == Init => GateInv
  BY GateAssumption
     DEF Init, GateInv, TypeOK, RunningSafe, KeysOK, PlacesOK, AloneOK,
         GateAssumption, Memory

(* hits that were there before keep what holds of them                     *)
LEMMA FewerHits ==
    ASSUME KeysOK, PlacesOK, AloneOK, hits' \subseteq hits
    PROVE  KeysOK' /\ PlacesOK' /\ AloneOK'
  BY DEF KeysOK, OwnKey, PlacesOK, AloneOK

(* the hit that a request served by p adds, and what makes it fit          *)
LEMMA ServeGateInv ==
    ASSUME GateInv, NEW p \in Process, NEW c \in Client,
           NEW written \in Written, NEW route, Serve(p, c, written, route)
    PROVE  GateInv'
  <1> DEFINE s == process[p]
             at == Place(p)
             key == ClientIp(s, c, written, route)
  <1>1. /\ s \in Environment
        /\ Safe(s)
        /\ ~Refused(s, route)
    BY GateAssumption
       DEF GateInv, TypeOK, RunningSafe, Serve, GateAssumption
  <1>2. PICK n \in PlacesLeft(at, key) :
           hits' = hits \cup
              {[client |-> c, key |-> key, at |-> at, n |-> n,
                alone |-> ~s.shared \/ p \in fallen,
                production |-> s.env = "production",
                forgeable |-> Forgeable(s)]}
    BY DEF Serve
  <1>3. UNCHANGED <<process, starts, memory, reachable, fallen>>
    BY DEF Serve
  <1> DEFINE new == [client |-> c, key |-> key, at |-> at, n |-> n,
                     alone |-> ~s.shared \/ p \in fallen,
                     production |-> s.env = "production",
                     forgeable |-> Forgeable(s)]
  <1>4. /\ at \in Memory \cup {Store}
        /\ (~s.shared \/ p \in fallen) <=> at # Store
    BY GateAssumption DEF Place, GateAssumption, GateInv, TypeOK, Memory
  <1>5. /\ key \in Address
        /\ key \in Client => key = c \/ Forgeable(s)
        /\ s.env = "production" => key = c
    BY <1>1, ClientIpResult, ProductionForwarded, GateAssumption
       DEF GateAssumption
  <1>6. n \in 1..Limit
        /\ \A h \in hits : h.at = at /\ h.key = key => h.n # n
    BY DEF PlacesLeft, Taken, Bucket
  <1>7. new \in Hit
    BY <1>4, <1>5, <1>6 DEF Hit, Forgeable
  <1>8. /\ new.client = c /\ new.key = key /\ new.at = at /\ new.n = n
        /\ (new.alone <=> at # Store)
        /\ (new.production <=> s.env = "production")
        /\ (new.forgeable <=> Forgeable(s))
    BY <1>4
  <1>9. hits' = hits \cup {new}
    BY <1>2
  <1> HIDE DEF new, s, at, key
  <1>10. TypeOK' /\ RunningSafe'
    BY <1>3, <1>7, <1>9 DEF GateInv, TypeOK, RunningSafe
  <1>11. KeysOK'
    BY <1>5, <1>8, <1>9 DEF GateInv, KeysOK, OwnKey
  <1>12. PlacesOK'
    BY <1>6, <1>8, <1>9 DEF GateInv, PlacesOK
  <1>13. AloneOK'
    BY <1>8, <1>9 DEF GateInv, AloneOK
  <1>14. QED
    BY <1>10, <1>11, <1>12, <1>13 DEF GateInv

LEMMA StepGateInv == GateInv /\ [Next]_vars => GateInv'
  <1> SUFFICES ASSUME GateInv, [Next]_vars
               PROVE  GateInv'
    OBVIOUS
  <1> USE DEF GateInv
  <1>2. ASSUME Outage
        PROVE  GateInv'
    BY <1>2, FewerHits DEF Outage, TypeOK, RunningSafe
  <1>3. ASSUME NEW h \in hits, Expire(h)
        PROVE  GateInv'
    BY <1>3, FewerHits DEF Expire, TypeOK, RunningSafe
  <1>4. ASSUME NEW p \in Process, NEW s \in Settings, Boot(p, s)
        PROVE  GateInv'
    BY <1>4, FewerHits, GateAssumption
       DEF Boot, TypeOK, RunningSafe, GateAssumption, Memory
  <1>5. ASSUME NEW p \in Process, Stop(p)
        PROVE  GateInv'
    BY <1>5, FewerHits, GateAssumption
       DEF Stop, TypeOK, RunningSafe, GateAssumption, Memory
  <1>6. ASSUME NEW p \in Process, FallBack(p)
        PROVE  GateInv'
    BY <1>6, FewerHits DEF FallBack, TypeOK, RunningSafe
  <1>7. ASSUME NEW p \in Process, Recover(p)
        PROVE  GateInv'
    BY <1>7, FewerHits DEF Recover, TypeOK, RunningSafe
  <1>8. CASE UNCHANGED vars
    BY <1>8, FewerHits DEF vars, TypeOK, RunningSafe
  <1> HIDE DEF GateInv
  <1>9. QED
    BY <1>2, <1>3, <1>4, <1>5, <1>6, <1>7, <1>8, ServeGateInv DEF Next

LEMMA Invariance == Spec => []GateInv
  BY InitGateInv, StepGateInv, PTL DEF Spec

-----------------------------------------------------------------------------
(***************************************************************************)
(* What the processes have read and counted is well formed, and only one   *)
(* that runs counts in memory for an outage.                               *)
(***************************************************************************)
THEOREM GateTypes == Spec => []TypeOK
  <1>1. GateInv => TypeOK
    BY DEF GateInv
  <1>2. QED
    BY <1>1, Invariance, PTL

(* the bucket of a client that production has served                       *)
LEMMA ServedKey ==
    ASSUME GateInv, NEW c \in Client, NEW h \in Served(c)
    PROVE  h \in hits /\ h.key = c
  BY DEF GateInv, KeysOK, OwnKey, Served

(***************************************************************************)
(* OwnBucket, whatever the settings of the processes that run side by side,*)
(* whichever way the requests come and whatever their X-Forwarded-For      *)
(* holds: the start-up guards, the edge middleware and client_ip together  *)
(* keep every production client in a bucket that only a process with too   *)
(* high a hop count and no secret can reach for another.                   *)
(***************************************************************************)
THEOREM BucketsOwn == Spec => []OwnBucket
  <1>1. ASSUME GateInv
        PROVE  OwnBucket
    <2> SUFFICES ASSUME NEW c \in Client, NEW h \in Served(c),
                        NEW g \in Bucket(h.at, h.key)
                 PROVE  g.client = c \/ g.forgeable
      BY DEF OwnBucket
    <2>1. h.key = c
      BY <1>1, ServedKey
    <2>2. g \in hits /\ g.key = c
      BY <2>1 DEF Bucket
    <2>3. QED
      BY <1>1, <2>2 DEF GateInv, KeysOK, OwnKey
  <1>2. QED
    BY <1>1, Invariance, PTL

(***************************************************************************)
(* BudgetHeld, for any number of processes, restarts and outages: what     *)
(* production has served a client in a window lies in one bucket of the    *)
(* shared storage and one of each memory that a start gave a process which *)
(* counts alone, and none holds more than the limit.                       *)
(***************************************************************************)
THEOREM BudgetsHeld == Spec => []BudgetHeld
  <1>1. ASSUME GateInv
        PROVE  BudgetHeld
    <2> SUFFICES ASSUME NEW c \in Client
                 PROVE  /\ Cardinality({h \in Served(c) : ~h.alone}) <= Limit
                        /\ \A m \in Memory :
                              Cardinality({h \in Served(c) :
                                             h.alone /\ h.at = m}) <= Limit
      BY DEF BudgetHeld
    <2>1. ASSUME NEW S \in SUBSET Served(c), NEW at,
                 \A h \in S : h.at = at
          PROVE  Cardinality(S) <= Limit
      <3>1. \A h \in S : h \in hits /\ h.key = c
        BY <1>1, ServedKey
      <3>2. \A h \in S : h.n \in 1..Limit
        BY <1>1, <3>1 DEF GateInv, TypeOK, Hit
      <3>3. \A g, h \in S : g.n = h.n => g = h
        BY <1>1, <2>1, <3>1 DEF GateInv, PlacesOK
      <3>4. QED
        BY <3>2, <3>3, PlacesBound
    <2>2. Cardinality({h \in Served(c) : ~h.alone}) <= Limit
      <3>1. \A h \in {g \in Served(c) : ~g.alone} : h.at = Store
        BY <1>1 DEF GateInv, AloneOK, Served
      <3>2. QED
        BY <2>1, <3>1
    <2>3. ASSUME NEW m \in Memory
          PROVE  Cardinality({h \in Served(c) : h.alone /\ h.at = m}) <= Limit
      BY <2>1
    <2>4. QED
      BY <2>2, <2>3
  <1>2. QED
    BY <1>1, Invariance, PTL
=============================================================================
