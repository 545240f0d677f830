---------------------------- MODULE ServerProofs ----------------------------
(***************************************************************************)
(* What is proved of the HTTP server (Server) for every configuration, call *)
(* and answer: in three parts, each with its invariant.                     *)
(*                                                                         *)
(*   1. GET /health answers about the recent past (HInv).                   *)
(*   2. What is sent to a provider is as the section says (Known).          *)
(*   3. What the diagnostics are told of a call is what happened (PInv).    *)
(***************************************************************************)
EXTENDS Server, TLAPS, SequenceTheorems, NaturalsInduction, WellFoundedInduction

Statuses == {"pending", "ok", "unreachable", "timeout"}
Runs == [age : 0..CheckTimeout, status : [endpoints -> Statuses]]
Results == [ok : BOOLEAN, age : 0..MaxAge]

HealthTypes ==
    /\ state \in [endpoints -> {"up", "down", "slow"}]
    /\ since_ok \in [endpoints -> 0..MaxAge]
    /\ since_bad \in [endpoints -> 0..MaxAge]
    /\ health_cache \in Results \union {None}
    /\ probing \in [Prober -> Runs \union {None}]
    /\ told \in {None, "ok", "degraded"}

\* The history variables say what state says.
NowIsNow ==
    \A e \in endpoints : IF state[e] = "up" THEN since_ok[e] = 0 ELSE since_bad[e] = 0

\* What e was found to be, it was no longer than n ago.
Was(e, status, n) ==
    /\ status = "ok" => since_ok[e] <= n
    /\ status \in {"unreachable", "timeout"} => since_bad[e] <= n

ProbesAreRecent ==
    \A p \in Prober : probing[p] # None =>
        \A e \in endpoints : Was(e, probing[p].status[e], probing[p].age)

\* What was found by a probe that took up to CheckTimeout, some time before.
Found(ok, n) ==
    IF ok THEN \A e \in endpoints : since_ok[e] <= n + CheckTimeout
          ELSE \E e \in endpoints : since_bad[e] <= n + CheckTimeout

CacheIsRecent == health_cache # None => Found(health_cache.ok, health_cache.age)

HInv == /\ HealthTypes /\ NowIsNow /\ ProbesAreRecent /\ CacheIsRecent /\ HealthIsRecent

-----------------------------------------------------------------------------

\* Ages stop at MaxAge and grow by one before.
LEMMA OlderIs ==
    ASSUME NEW n \in 0..MaxAge
    PROVE  older(n) = IF n = MaxAge THEN MaxAge ELSE n + 1
<1>1. MaxAge \in Nat
    BY HealthAssumption
<1>2. CASE n = MaxAge
    <2>1. \A y \in {n + 1, MaxAge} : MaxAge <= y
        BY <1>1, <1>2
    <2>2. \A x \in {n + 1, MaxAge} : (\A y \in {n + 1, MaxAge} : x <= y) => x = MaxAge
        BY <1>1, <1>2
    <2> QED
        BY <2>1, <2>2, <1>2 DEF older, Min
<1>3. CASE n # MaxAge
    <2>1. \A y \in {n + 1, MaxAge} : n + 1 <= y
        BY <1>1, <1>3
    <2>2. \A x \in {n + 1, MaxAge} : (\A y \in {n + 1, MaxAge} : x <= y) => x = n + 1
        BY <1>1, <1>3
    <2> QED
        BY <2>1, <2>2, <1>3 DEF older, Min
<1> QED
    BY <1>2, <1>3

\* A result that is fresh is about the recent past, and so is what is said of it.
LEMMA AnswerFromCacheHInv == HInv /\ AnswerFromCache => HInv'
<1> SUFFICES ASSUME HInv, AnswerFromCache PROVE HInv'
    OBVIOUS
<1> USE DEF HInv, AnswerFromCache, service
<1>1. HealthTypes'
    BY DEF HealthTypes, Runs, Results
<1>2. /\ NowIsNow' /\ ProbesAreRecent' /\ CacheIsRecent'
    BY DEF NowIsNow, ProbesAreRecent, CacheIsRecent, Was, Found
<1>3. health_cache \in Results /\ health_cache # None /\ health_cache.age <= CacheTtl - 1
    BY HealthAssumption DEF fresh, HealthTypes, Results
<1>4. HealthIsRecent'
    <2>1. CASE health_cache.ok
        <3>1. told' = "ok" /\ \A e \in endpoints : since_ok[e] <= health_cache.age + CheckTimeout
            BY <2>1, <1>3 DEF CacheIsRecent, Found
        <3> QED
            BY <3>1, <1>3, HealthAssumption DEF HealthIsRecent, HealthTypes, Results
    <2>2. CASE ~health_cache.ok
        <3>1. told' = "degraded"
              /\ \E e \in endpoints : since_bad[e] <= health_cache.age + CheckTimeout
            BY <2>2, <1>3 DEF CacheIsRecent, Found
        <3> QED
            BY <3>1, <1>3, HealthAssumption DEF HealthIsRecent, HealthTypes, Results
    <2> QED
        BY <2>1, <2>2
<1> QED
    BY <1>1, <1>2, <1>4

\* A step that answers nobody, with services and cache as they were.
LEMMA SilentStep ==
    ASSUME HInv, UNCHANGED <<service, health_cache>>, told' = None,
           probing' \in [Prober -> Runs \union {None}], ProbesAreRecent'
    PROVE  HInv'
<1>1. HealthTypes'
    BY DEF HInv, HealthTypes, service, Runs, Results
<1>2. NowIsNow' /\ CacheIsRecent'
    BY DEF HInv, NowIsNow, CacheIsRecent, Found, service
<1>3. HealthIsRecent'
    BY HealthAssumption DEF HealthIsRecent
<1> QED
    BY <1>1, <1>2, <1>3 DEF HInv

\* A probe that has found nothing yet.
LEMMA StartProbeHInv == ASSUME NEW p \in Prober, HInv, StartProbe(p) PROVE HInv'
<1>1. [age |-> 0, status |-> [e \in endpoints |-> "pending"]] \in Runs
    BY HealthAssumption DEF Runs, Statuses
<1>2. probing' \in [Prober -> Runs \union {None}]
    BY <1>1 DEF HInv, HealthTypes, StartProbe
<1>3. ProbesAreRecent'
    BY <1>1 DEF HInv, HealthTypes, StartProbe, ProbesAreRecent, Was, service
<1> QED
    BY <1>2, <1>3, SilentStep DEF StartProbe

\* A probe that is dropped leaves nothing.
LEMMA ProbeDroppedHInv == ASSUME NEW p \in Prober, HInv, ProbeDropped(p) PROVE HInv'
<1>1. probing' \in [Prober -> Runs \union {None}]
    BY DEF HInv, HealthTypes, ProbeDropped
<1>2. ProbesAreRecent'
    BY DEF HInv, HealthTypes, ProbeDropped, ProbesAreRecent, Was, service
<1> QED
    BY <1>1, <1>2, SilentStep DEF ProbeDropped

\* What is found is so now, and NowIsNow says that the history has it.
LEMMA ProbeHInv ==
    ASSUME NEW p \in Prober, NEW e \in endpoints, HInv, Probe(p, e)
    PROVE  HInv'
<1>1. probing[p] \in Runs /\ probing[p] # None
    BY DEF HInv, HealthTypes, Probe, waiting
<1>2. PICK s \in {"ok", "unreachable", "timeout"} :
          /\ probing' = [probing EXCEPT ![p] = learn(probing[p], e, s)]
          /\ IF s = "ok" THEN state[e] = "up" ELSE state[e] # "up"
    BY DEF Probe
<1> DEFINE run == learn(probing[p], e, s)
<1>3. run \in Runs /\ run.age = probing[p].age
      /\ run.status = [probing[p].status EXCEPT ![e] = s]
    BY <1>1 DEF Runs, Statuses, learn
<1>4. probing' = [probing EXCEPT ![p] = run]
    BY <1>2
<1>5. probing' \in [Prober -> Runs \union {None}]
    BY <1>3, <1>4 DEF HInv, HealthTypes
<1>6. Was(e, s, run.age)
    <2>1. run.age \in Nat
        BY <1>3, HealthAssumption DEF Runs
    <2> QED
        BY <2>1, <1>2 DEF Was, HInv, NowIsNow
<1>7. \A d \in endpoints : Was(d, run.status[d], run.age)
    BY <1>1, <1>3, <1>6 DEF HInv, ProbesAreRecent, Runs
<1>8. ProbesAreRecent'
    <2>1. UNCHANGED <<endpoints, since_ok, since_bad>>
        BY DEF Probe, service
    <2>2. \A q \in Prober : q # p => probing'[q] = probing[q]
        BY <1>4 DEF HInv, HealthTypes
    <2>3. probing'[p] = run
        BY <1>4 DEF HInv, HealthTypes
    <2> HIDE DEF run
    <2> QED
        BY <2>1, <2>2, <2>3, <1>7 DEF HInv, ProbesAreRecent, Was
<1> QED
    BY <1>5, <1>8, SilentStep DEF Probe

\* The probe has run for CheckTimeout at most, so what it found is no older.
LEMMA FinishProbeHInv == ASSUME NEW p \in Prober, HInv, FinishProbe(p) PROVE HInv'
<1> DEFINE all_ok == \A e \in endpoints : probing[p].status[e] = "ok"
<1>1. probing[p] \in Runs /\ probing[p] # None
    BY DEF HInv, HealthTypes, FinishProbe
<1>2. /\ health_cache' = [ok |-> all_ok, age |-> 0]
      /\ told' = IF all_ok THEN "ok" ELSE "degraded"
      /\ UNCHANGED <<endpoints, state, since_ok, since_bad>>
      /\ probing' = [probing EXCEPT ![p] = None]
    BY DEF FinishProbe, service
<1>3. all_ok \in BOOLEAN
    OBVIOUS
<1>4. ASSUME all_ok PROVE CacheIsRecent' /\ HealthIsRecent'
    <2>1. \A e \in endpoints : since_ok[e] <= CheckTimeout
        BY <1>1, <1>4, HealthAssumption
        DEF HInv, HealthTypes, ProbesAreRecent, Was, Runs
    <2> HIDE DEF all_ok
    <2>2. CacheIsRecent'
        BY <1>2, <1>4, <2>1, HealthAssumption DEF CacheIsRecent, Found
    <2>3. HealthIsRecent'
        BY <1>2, <1>4, <2>1, HealthAssumption DEF HealthIsRecent, HInv, HealthTypes
    <2> QED
        BY <2>2, <2>3
<1>5. ASSUME ~all_ok PROVE CacheIsRecent' /\ HealthIsRecent'
    <2>1. PICK e \in endpoints : probing[p].status[e] # "ok"
        BY <1>5
    <2>2. probing[p].status[e] \in {"unreachable", "timeout"}
        BY <1>1, <2>1 DEF FinishProbe, waiting, Runs, Statuses
    <2>3. since_bad[e] <= CheckTimeout
        BY <1>1, <2>2, HealthAssumption DEF HInv, HealthTypes, ProbesAreRecent, Was, Runs
    <2> HIDE DEF all_ok
    <2>4. CacheIsRecent'
        BY <1>2, <1>5, <2>3, HealthAssumption DEF CacheIsRecent, Found
    <2>5. HealthIsRecent'
        BY <1>2, <1>5, <2>3, HealthAssumption DEF HealthIsRecent, HInv, HealthTypes
    <2> QED
        BY <2>4, <2>5
<1>6. CacheIsRecent' /\ HealthIsRecent'
    BY <1>4, <1>5
<1> HIDE DEF all_ok
<1>7. HealthTypes'
    <2>1. health_cache' \in Results
        BY <1>2, <1>3, HealthAssumption DEF Results
    <2> QED
        BY <2>1, <1>2 DEF HInv, HealthTypes, Runs, Results
<1>8. NowIsNow' /\ ProbesAreRecent'
    BY <1>2 DEF HInv, HealthTypes, NowIsNow, ProbesAreRecent, Was
<1> QED
    BY <1>6, <1>7, <1>8 DEF HInv

\* Where less time has passed since e was up, and since it was not, all that is
\* known of the past still holds.
LEMMA ChangeHInv == ASSUME NEW e \in endpoints, HInv, Change(e) PROVE HInv'
<1>1. /\ UNCHANGED <<endpoints, health_cache, probing>> /\ told' = None
      /\ state' \in [endpoints -> {"up", "down", "slow"}]
      /\ since_ok' \in [endpoints -> 0..MaxAge] /\ since_bad' \in [endpoints -> 0..MaxAge]
    BY HealthAssumption DEF Change, HInv, HealthTypes
<1>2. HealthTypes'
    BY <1>1 DEF HInv, HealthTypes, Runs, Results
<1>3. NowIsNow'
    BY DEF Change, HInv, HealthTypes, NowIsNow
<1>4. \A d \in endpoints : since_ok'[d] <= since_ok[d] /\ since_bad'[d] <= since_bad[d]
    BY HealthAssumption DEF Change, HInv, HealthTypes
<1>5. \A d \in endpoints : /\ since_ok[d] \in Nat /\ since_bad[d] \in Nat
                            /\ since_ok'[d] \in Nat /\ since_bad'[d] \in Nat
    BY <1>1, HealthAssumption DEF HInv, HealthTypes
<1>6. ProbesAreRecent'
    <2> SUFFICES ASSUME NEW p \in Prober, probing[p] # None, NEW d \in endpoints
                 PROVE  Was(d, probing[p].status[d], probing[p].age)'
        BY <1>1 DEF ProbesAreRecent
    <2>1. probing[p] \in Runs /\ Was(d, probing[p].status[d], probing[p].age)
        BY DEF HInv, HealthTypes, ProbesAreRecent
    <2>2. probing[p].age \in Nat
        BY <2>1, HealthAssumption DEF Runs
    <2> QED
        BY <2>1, <2>2, <1>1, <1>4, <1>5 DEF Was
<1>7. CacheIsRecent'
    <2> SUFFICES ASSUME health_cache # None
                 PROVE  Found(health_cache.ok, health_cache.age)'
        BY <1>1 DEF CacheIsRecent
    <2>1. health_cache \in Results /\ Found(health_cache.ok, health_cache.age)
        BY DEF HInv, HealthTypes, CacheIsRecent
    <2>2. health_cache.age + CheckTimeout \in Nat
        BY <2>1, HealthAssumption DEF Results
    <2> QED
        BY <2>1, <2>2, <1>1, <1>4, <1>5 DEF Found
<1>8. HealthIsRecent'
    BY <1>1, HealthAssumption DEF HealthIsRecent
<1> QED
    BY <1>2, <1>3, <1>6, <1>7, <1>8 DEF HInv

\* What was known grows older as fast as the history does.
LEMMA TickHInv == ASSUME HInv, Tick PROVE HInv'
<1>1. /\ UNCHANGED <<endpoints, state>> /\ told' = None
      /\ since_ok' = [e \in endpoints |-> IF state[e] = "up" THEN 0 ELSE older(since_ok[e])]
      /\ since_bad' = [e \in endpoints |-> IF state[e] = "up" THEN older(since_bad[e]) ELSE 0]
    BY DEF Tick
<1>2. \A n \in 0..MaxAge : older(n) \in 0..MaxAge /\ older(n) <= n + 1
    BY OlderIs, HealthAssumption
<1>3. \A e \in endpoints :
          /\ since_ok[e] \in 0..MaxAge /\ since_bad[e] \in 0..MaxAge
          /\ since_ok'[e] \in 0..MaxAge /\ since_ok'[e] <= since_ok[e] + 1
          /\ since_bad'[e] \in 0..MaxAge /\ since_bad'[e] <= since_bad[e] + 1
    BY <1>1, <1>2, HealthAssumption DEF HInv, HealthTypes
<1>4. ASSUME NEW p \in Prober, probing[p] # None
      PROVE  /\ probing[p] \in Runs
             /\ probing'[p] = [age |-> probing[p].age + 1, status |-> probing[p].status]
             /\ probing'[p] \in Runs
    <2>1. probing[p] \in Runs /\ probing[p].age < CheckTimeout
        BY <1>4 DEF HInv, HealthTypes, Tick
    <2>2. probing'[p] = [age |-> probing[p].age + 1, status |-> probing[p].status]
        BY <1>4 DEF Tick
    <2> QED
        BY <2>1, <2>2, HealthAssumption DEF Runs
<1>5. probing' \in [Prober -> Runs \union {None}]
    <2>1. \A p \in Prober : probing[p] = None => probing'[p] = None
        BY DEF Tick
    <2>2. probing' = [p \in Prober |-> probing'[p]]
        BY DEF Tick
    <2> QED
        BY <2>1, <2>2, <1>4
<1>6. health_cache # None =>
          /\ health_cache \in Results
          /\ health_cache' = [ok |-> health_cache.ok, age |-> older(health_cache.age)]
          /\ health_cache' \in Results
    <2> SUFFICES ASSUME health_cache # None
                 PROVE  /\ health_cache \in Results
                        /\ health_cache' = [ok |-> health_cache.ok, age |-> older(health_cache.age)]
                        /\ health_cache' \in Results
        OBVIOUS
    <2>1. health_cache \in Results
        BY DEF HInv, HealthTypes
    <2>2. health_cache' = [ok |-> health_cache.ok, age |-> older(health_cache.age)]
        BY DEF Tick
    <2> QED
        BY <2>1, <2>2, <1>2 DEF Results
<1>7. health_cache = None => health_cache' = None
    BY DEF Tick
<1>8. HealthTypes'
    <2>1. /\ since_ok' \in [endpoints -> 0..MaxAge] /\ since_bad' \in [endpoints -> 0..MaxAge]
        BY <1>1, <1>3
    <2> QED
        BY <2>1, <1>1, <1>5, <1>6, <1>7 DEF HInv, HealthTypes, Runs, Results
<1>9. NowIsNow'
    BY <1>1 DEF HInv, NowIsNow
<1>10. ProbesAreRecent'
    <2> SUFFICES ASSUME NEW p \in Prober, probing'[p] # None, NEW e \in endpoints
                 PROVE  Was(e, probing[p].status[e], probing[p].age)'
        BY <1>1 DEF ProbesAreRecent
    <2>1. probing[p] # None
        BY DEF Tick
    <2>2. Was(e, probing[p].status[e], probing[p].age)
        BY <2>1 DEF HInv, ProbesAreRecent
    <2> DEFINE run == probing[p]
    <2>3. run \in Runs /\ probing'[p] = [age |-> run.age + 1, status |-> run.status]
        BY <2>1, <1>4
    <2>4. run.age \in Nat
        BY <2>3, HealthAssumption DEF Runs
    <2> QED
        BY <2>2, <2>3, <2>4, <1>3 DEF Was
<1>11. CacheIsRecent'
    <2> SUFFICES ASSUME health_cache' # None
                 PROVE  Found(health_cache.ok, health_cache.age)'
        BY DEF CacheIsRecent
    <2>1. /\ health_cache \in Results /\ health_cache'.ok = health_cache.ok
          /\ health_cache'.age = older(health_cache.age)
          /\ Found(health_cache.ok, health_cache.age)
        BY <1>6, <1>7 DEF HInv, CacheIsRecent
    <2>2. \A n \in 0..MaxAge, m \in Nat, k \in 0..MaxAge :
              k <= n + m => older(k) <= older(n) + m
        BY OlderIs, HealthAssumption
    <2>3. health_cache.age \in 0..MaxAge /\ CheckTimeout \in Nat
        BY <2>1, HealthAssumption DEF Results
    <2>4. CASE health_cache.ok
        <3>1. \A e \in endpoints :
                  since_ok'[e] <= older(health_cache.age) + CheckTimeout
            <4> TAKE e \in endpoints
            <4>1. since_ok[e] <= health_cache.age + CheckTimeout
                BY <2>1, <2>4 DEF Found
            <4>2. older(since_ok[e]) <= older(health_cache.age) + CheckTimeout
                BY <4>1, <2>2, <2>3, <1>3
            <4>3. since_ok'[e] = 0 \/ since_ok'[e] = older(since_ok[e])
                BY <1>1
            <4> QED
                BY <4>2, <4>3, <2>3, <1>2
        <3> QED
            BY <3>1, <2>1, <2>4, <1>1 DEF Found
    <2>5. CASE ~health_cache.ok
        <3>1. PICK e \in endpoints : since_bad[e] <= health_cache.age + CheckTimeout
            BY <2>1, <2>5 DEF Found
        <3>2. older(since_bad[e]) <= older(health_cache.age) + CheckTimeout
            BY <3>1, <2>2, <2>3, <1>3
        <3>3. since_bad'[e] = 0 \/ since_bad'[e] = older(since_bad[e])
            BY <1>1
        <3>4. since_bad'[e] <= older(health_cache.age) + CheckTimeout
            BY <3>2, <3>3, <2>3, <1>2
        <3> QED
            BY <3>4, <2>1, <2>5, <1>1 DEF Found
    <2> QED
        BY <2>4, <2>5
<1>12. HealthIsRecent'
    BY <1>1, HealthAssumption DEF HealthIsRecent
<1> QED
    BY <1>8, <1>9, <1>10, <1>11, <1>12 DEF HInv

\* At the start nothing is known, and nothing is told.
LEMMA InitHInv == ASSUME NEW E, healthInit(E) PROVE HInv
<1>1. HealthTypes
    BY HealthAssumption DEF healthInit, HealthTypes, Runs, Results
<1>2. NowIsNow
    BY DEF healthInit, NowIsNow
<1>3. ProbesAreRecent /\ CacheIsRecent
    BY DEF healthInit, ProbesAreRecent, CacheIsRecent
<1>4. HealthIsRecent
    BY HealthAssumption DEF healthInit, HealthIsRecent
<1> QED
    BY <1>1, <1>2, <1>3, <1>4 DEF HInv

\* Calls of the other kind.
LEMMA UnchangedHInv == HInv /\ UNCHANGED healthVars => HInv'
BY DEF HInv, healthVars, HealthTypes, NowIsNow, ProbesAreRecent, CacheIsRecent,
       HealthIsRecent, Was, Found, Runs, Results

\* The invariant of the calls for the health.
LEMMA HInvAlways == Spec => []HInv
<1>1. Init => HInv
    BY InitHInv DEF Init
<1>2. HInv /\ [Next]_vars => HInv'
    <2> SUFFICES ASSUME HInv, [Next]_vars PROVE HInv'
        OBVIOUS
    <2>1. CASE client = "health" /\ healthNext
        <3>1. CASE AnswerFromCache
            BY <3>1, AnswerFromCacheHInv
        <3>2. CASE Tick
            BY <3>2, TickHInv
        <3>3. CASE \E p \in Prober : StartProbe(p) \/ FinishProbe(p) \/ ProbeDropped(p)
            BY <3>3, StartProbeHInv, FinishProbeHInv, ProbeDroppedHInv
        <3>4. CASE \E p \in Prober, e \in endpoints : Probe(p, e)
            BY <3>4, ProbeHInv
        <3>5. CASE \E e \in endpoints : Change(e)
            BY <3>5, ChangeHInv
        <3> QED
            BY <2>1, <3>1, <3>2, <3>3, <3>4, <3>5 DEF healthNext
    <2>2. CASE UNCHANGED healthVars
        BY <2>2, UnchangedHInv
    <2> QED
        BY <2>1, <2>2 DEF Next, vars
<1> QED
    BY <1>1, <1>2, PTL DEF Spec

\* What GET /health tells, from the cache or from a probe, however probes
\* overlap, are dropped, time out or finish in another order than they began
\* (health_handler): "ok" if every endpoint was up, "degraded" if one was not,
\* within the time a result is kept and a probe may take.
THEOREM HealthIsRecentAlways == Spec => []HealthIsRecent
<1>1. HInv => HealthIsRecent
    BY DEF HInv
<1> QED
    BY <1>1, HInvAlways, PTL

-----------------------------------------------------------------------------
(* Which section a call goes to *)

\* The smaller one of two numbers.
LEMMA TwoMin ==
    ASSUME NEW a \in Nat, NEW b \in Nat
    PROVE  Min({a, b}) = IF a <= b THEN a ELSE b
<1>1. CASE a <= b
  <2>1. \A x \in {a, b} : (\A y \in {a, b} : x <= y) => x = a
    BY <1>1
  <2>2. a \in {a, b} /\ \A y \in {a, b} : a <= y
    BY <1>1
  <2> QED
    BY <1>1, <2>1, <2>2 DEF Min
<1>2. CASE ~(a <= b)
  <2>1. \A x \in {a, b} : (\A y \in {a, b} : x <= y) => x = b
    BY <1>2
  <2>2. b \in {a, b} /\ \A y \in {a, b} : b <= y
    BY <1>2
  <2> QED
    BY <1>2, <2>1, <2>2 DEF Min
<1> QED
  BY <1>1, <1>2

\* The protocol is one the section has an endpoint for.
LEMMA EgressHasEndpoint ==
    ASSUME NEW r, NEW ingress \in {"openai", "anthropic"},
           \E p \in Protocols : r.endpoint[p] # None
    PROVE  /\ egress_of(r, ingress) \in Protocols
           /\ r.endpoint[egress_of(r, ingress)] # None
<1> DEFINE p == preference(ingress)
           S == {i \in DOMAIN p : r.endpoint[p[i]] # None}
<1>1. /\ DOMAIN p = 1 .. 3 /\ \A i \in 1 .. 3 : p[i] \in Protocols
      /\ \A q \in Protocols : \E i \in 1 .. 3 : q = p[i]
  BY DEF preference, Protocols
<1>2. S # {} /\ S \subseteq 1 .. 3
  BY <1>1
<1>3. \E x \in S : \A y \in S : x <= y
  <2>1. CASE 1 \in S
    BY <1>2, <2>1
  <2>2. CASE 1 \notin S /\ 2 \in S
    BY <1>2, <2>2
  <2>3. CASE 1 \notin S /\ 2 \notin S
    BY <1>2, <2>3
  <2> QED
    BY <2>1, <2>2, <2>3
<1>4. Min(S) \in S
  BY <1>3 DEF Min
<1> HIDE DEF p
<1>5. p[Min(S)] \in Protocols /\ r.endpoint[p[Min(S)]] # None
  BY <1>1, <1>4
<1> QED
  BY <1>5 DEF egress_of, p

Listing(f, model) ==
    {s \in DOMAIN f.sections : ~is_default(f.sections[s].models)
                                 /\ model \in ToSet(f.sections[s].models.names)}
Owner(f, model) ==
    CHOOSE s \in DOMAIN f.sections :
        IF Listing(f, model) # {} THEN s \in Listing(f, model)
        ELSE is_default(f.sections[s].models)

\* The section that lists a model is the only one, and so is the default one.
LEMMA SectionIsOwner ==
    ASSUME NEW f, is_file(f), is_valid(f), NEW model,
           section_of(from_file_config(f), model) # None
    PROVE  /\ section_of(from_file_config(f), model) = Owner(f, model)
           /\ Owner(f, model) \in DOMAIN f.sections
<1> DEFINE S == f.sections
           c == from_file_config(f)
           lists(s) == model \in model_names(S[s].models)
           routed == UNION {model_names(S[s].models) : s \in DOMAIN S}
           default == {s \in DOMAIN S : is_default(S[s].models)}
<1>1. \A s \in DOMAIN S : s \in Listing(f, model) <=> lists(s)
  BY DEF Listing, model_names
<1>2. \A s, t \in DOMAIN S : s # t =>
         /\ ~(is_default(S[s].models) /\ is_default(S[t].models))
         /\ ~(lists(s) /\ lists(t))
  BY DEF is_valid
<1>3. \A s \in DOMAIN S : s # None
  BY DEF is_file
<1>4. model \in routed <=> \E s \in DOMAIN S : lists(s)
  OBVIOUS
<1>5. /\ c.model_routes = [m \in routed |-> CHOOSE s \in DOMAIN S : m \in model_names(S[s].models)]
      /\ c.default_section = IF default = {} THEN None ELSE CHOOSE s \in default : TRUE
  BY DEF from_file_config
<1>6. Listing(f, model) \subseteq DOMAIN S
  BY DEF Listing
<1> HIDE DEF S, c, routed
<1>7. CASE model \in routed
  <2> DEFINE one == CHOOSE s \in DOMAIN S : lists(s)
  <2>1. one \in DOMAIN S /\ lists(one)
    BY <1>4, <1>7
  <2>2. c.model_routes[model] = one /\ model \in DOMAIN c.model_routes
    BY <1>5, <1>7
  <2> HIDE DEF one, lists
  <2>3. section_of(c, model) = one
    BY <1>3, <2>1, <2>2 DEF section_of, Lookup, or
  <2>4. Listing(f, model) = {one}
    BY <1>1, <1>2, <1>6, <2>1
  <2>5. Owner(f, model) = one
    BY <2>1, <2>4 DEF Owner, S
  <2> QED
    BY <2>1, <2>3, <2>5 DEF c, S
<1>8. CASE model \notin routed
  <2>1. section_of(c, model) = c.default_section
    BY <1>5, <1>8 DEF section_of, Lookup, or
  <2>2. default # {} /\ section_of(c, model) = CHOOSE s \in default : TRUE
    BY <1>5, <2>1 DEF c
  <2> DEFINE one == CHOOSE s \in default : TRUE
  <2>3. one \in DOMAIN S /\ is_default(S[one].models)
    BY <2>2
  <2> HIDE DEF one
  <2>4. Listing(f, model) = {}
    BY <1>1, <1>4, <1>6, <1>8
  <2>5. \A s \in DOMAIN S : is_default(S[s].models) => s = one
    BY <1>2, <2>3
  <2>6. Owner(f, model) = one
    BY <2>3, <2>4, <2>5 DEF Owner, S
  <2> QED
    BY <2>2, <2>3, <2>6 DEF c, S, one
<1> QED
  BY <1>7, <1>8

\* The limit of a section, or the global one.
limit_of(f, model, c) == or(f.sections[Owner(f, model)].cap[c], f.default_cap[c])

\* The target of a model is its section, whose limits are filled up with the global ones.
LEMMA RouteIs ==
    ASSUME NEW f, is_file(f), is_valid(f), NEW model, NEW r, r # None,
           r = resolve_route(from_file_config(f), model)
    PROVE  LET o == f.sections[Owner(f, model)]
           IN /\ Owner(f, model) \in DOMAIN f.sections
              /\ r = [section |-> Owner(f, model),
                      endpoint |-> [p \in Protocols |-> trimmed_endpoint(o.endpoint[p])],
                      api_key |-> IF o.api_key = None THEN None ELSE resolve_secret(o.api_key),
                      cap |-> [c \in Caps |-> limit_of(f, model, c)],
                      drop_fields |-> o.drop_fields]
              /\ \E p \in Protocols : r.endpoint[p] # None
              /\ o.api_key = None \/ resolve_secret(o.api_key) # None
              /\ \A c \in Caps : limit_of(f, model, c) \in Nat \union {None}
<1> DEFINE n == Owner(f, model)
           o == f.sections[n]
           c == from_file_config(f)
<1>1. section_of(c, model) # None
  BY DEF resolve_route
<1>2. section_of(c, model) = n /\ n \in DOMAIN f.sections
  BY <1>1, SectionIsOwner
<1> HIDE DEF n
<1>3. c.sections[n] = ProviderSection(o) /\ c.default_cap = f.default_cap
  BY <1>2 DEF from_file_config
<1>4. r = [section |-> n, endpoint |-> c.sections[n].endpoint,
           api_key |-> c.sections[n].api_key,
           cap |-> [x \in Caps |-> or(c.sections[n].cap[x], c.default_cap[x])],
           drop_fields |-> c.sections[n].drop_fields]
  BY <1>1, <1>2 DEF resolve_route
<1> HIDE DEF c
<1>5. r = [section |-> n,
           endpoint |-> [p \in Protocols |-> trimmed_endpoint(o.endpoint[p])],
           api_key |-> IF o.api_key = None THEN None ELSE resolve_secret(o.api_key),
           cap |-> [x \in Caps |-> limit_of(f, model, x)],
           drop_fields |-> o.drop_fields]
  BY <1>3, <1>4 DEF ProviderSection, limit_of, n
<1>6. ~section_refused(o)
  BY <1>2 DEF is_valid
<1>7. \E p \in Protocols : r.endpoint[p] # None
  <2>1. PICK p \in Protocols : trimmed_endpoint(o.endpoint[p]) # None
    BY <1>6 DEF section_refused
  <2>2. r.endpoint = [q \in Protocols |-> trimmed_endpoint(o.endpoint[q])]
    BY <1>5
  <2>3. r.endpoint[p] = trimmed_endpoint(o.endpoint[p])
    BY <2>2
  <2> QED
    BY <2>1, <2>3
<1>8. o.api_key = None \/ resolve_secret(o.api_key) # None
  BY <1>6 DEF section_refused
<1>9. \A x \in Caps : limit_of(f, model, x) \in Nat \union {None}
  BY <1>2 DEF limit_of, or, is_file, n
<1> QED
  BY <1>2, <1>5, <1>7, <1>8, <1>9 DEF n

-----------------------------------------------------------------------------
(* Bodies *)

\* A limit is not exceeded.
LEMMA LowerIs ==
    ASSUME NEW n \in Nat, NEW limit \in Nat \union {None}
    PROVE  /\ Lower(n, limit) \in Nat /\ Lower(n, limit) <= n
           /\ limit # None => Lower(n, limit) <= limit
BY DEF Lower

\* What the limits make of a body.
LEMMA CapsAre ==
    ASSUME NEW body, NEW cap, cap \in [Caps -> Nat \union {None}],
           body \in [DOMAIN body -> Nat],
           NEW b, b = apply_token_caps_to_value(body, cap)
    PROVE  /\ DOMAIN b = DOMAIN body \union {c \in Caps : cap[c] # None}
           /\ b \in [DOMAIN b -> Nat]
           /\ \A f \in DOMAIN body : f \notin Caps => b[f] = body[f]
           /\ \A f \in DOMAIN body : f \in Caps => b[f] = Lower(body[f], cap[f])
           /\ \A f \in DOMAIN b : f \in Caps /\ cap[f] # None => b[f] <= cap[f]
<1> DEFINE low == [f \in DOMAIN body |-> IF f \in Caps THEN Lower(body[f], cap[f]) ELSE body[f]]
           new == [f \in {c \in Caps : cap[c] # None} |-> cap[f]]
<1>1. b = Merge(low, new)
  BY DEF apply_token_caps_to_value
<1>2. /\ DOMAIN b = DOMAIN body \union {c \in Caps : cap[c] # None}
      /\ \A f \in DOMAIN b :
            b[f] = IF f \in DOMAIN body
                   THEN IF f \in Caps THEN Lower(body[f], cap[f]) ELSE body[f]
                   ELSE cap[f]
      /\ b = [f \in DOMAIN b |-> b[f]]
  BY <1>1 DEF Merge
<1>3. \A f \in DOMAIN b : b[f] \in Nat
  <2> TAKE f \in DOMAIN b
  <2>1. CASE f \in DOMAIN body /\ f \in Caps
    BY <1>2, <2>1, LowerIs
  <2>2. CASE f \in DOMAIN body /\ f \notin Caps
    BY <1>2, <2>2
  <2>3. CASE f \notin DOMAIN body
    BY <1>2, <2>3
  <2> QED
    BY <2>1, <2>2, <2>3
<1>4. \A f \in DOMAIN b : f \in Caps /\ cap[f] # None => b[f] <= cap[f]
  <2> SUFFICES ASSUME NEW f \in DOMAIN b, f \in Caps, cap[f] # None PROVE b[f] <= cap[f]
    OBVIOUS
  <2>1. CASE f \in DOMAIN body
    BY <1>2, <2>1, LowerIs
  <2>2. CASE f \notin DOMAIN body
    BY <1>2, <2>2
  <2> QED
    BY <2>1, <2>2
<1>5. b \in [DOMAIN b -> Nat]
  BY <1>2, <1>3
<1> QED
  BY <1>2, <1>4, <1>5

\* Fields that are dropped are gone, the others stay.
LEMMA WithoutIs ==
    ASSUME NEW body, NEW fields
    PROVE  /\ DOMAIN Without(body, fields) = DOMAIN body \ fields
           /\ \A f \in DOMAIN body \ fields : Without(body, fields)[f] = body[f]
           /\ Without(body, fields) = [f \in DOMAIN body \ fields |-> body[f]]
BY DEF Without

\* The request of an Anthropic client, as it is read.
LEMMA TypedIs ==
    ASSUME NEW body, body \in [DOMAIN body -> Nat], "max_tokens" \in DOMAIN body,
           NEW r, r.cap \in [Caps -> Nat \union {None}]
    PROVE  LET b == typed_anthropic(body, r)
           IN /\ "max_tokens" \in DOMAIN b
              /\ DOMAIN b \subseteq DOMAIN body /\ b \in [DOMAIN b -> Nat]
              /\ b.max_tokens = Lower(body.max_tokens, r.cap["max_tokens"])
              /\ \A f \in DOMAIN b : f # "max_tokens" => b[f] = body[f]
<1> DEFINE s == IF Lookup(body, "thinking") = 0 THEN Without(body, {"thinking"}) ELSE body
           b == [s EXCEPT !.max_tokens = Lower(@, r.cap["max_tokens"])]
<1>1. /\ DOMAIN s \subseteq DOMAIN body /\ "max_tokens" \in DOMAIN s
      /\ s = [f \in DOMAIN s |-> body[f]]
  BY DEF Without
<1> HIDE DEF s
<1>2. "max_tokens" \in Caps
  BY DEF Caps
<1>3. Lower(s["max_tokens"], r.cap["max_tokens"]) \in Nat
  BY <1>1, <1>2, LowerIs
<1>4. /\ DOMAIN b = DOMAIN s /\ b = [f \in DOMAIN b |-> b[f]]
      /\ b["max_tokens"] = Lower(body["max_tokens"], r.cap["max_tokens"])
      /\ \A f \in DOMAIN b : f # "max_tokens" => b[f] = body[f]
  BY <1>1
<1>5. b \in [DOMAIN b -> Nat]
  BY <1>1, <1>3, <1>4
<1> QED
  BY <1>1, <1>4, <1>5 DEF typed_anthropic, s

\* As a request of OpenAI it has one limit, under the new name, and both limits
\* of the section hold for it.
LEMMA ToOpenaiIs ==
    ASSUME NEW body, body \in [DOMAIN body -> Nat], "max_tokens" \in DOMAIN body,
           NEW r, r.cap \in [Caps -> Nat \union {None}],
           r.cap["max_tokens"] # None => body["max_tokens"] <= r.cap["max_tokens"]
    PROVE  LET b == to_openai(body, r)
           IN /\ "max_tokens" \notin DOMAIN b
              /\ "max_completion_tokens" \in DOMAIN b
              /\ \A c \in {"max_tokens", "max_completion_tokens"} :
                    r.cap[c] # None => b["max_completion_tokens"] <= r.cap[c]
<1> DEFINE mt == "max_tokens"
           mc == "max_completion_tokens"
           t == translate_request(body)
           c == cap_openai_max_tokens(t, r.cap)
           d == IF r.cap[mc] # None THEN c
                ELSE [c EXCEPT ![mc] = Lower(@, r.cap[mt])]
           e == sanitize_openai_egress(d)
           b == Without(e, {"stream_options"})
<1>1. mt \in Caps /\ mc \in Caps /\ mt # mc
  BY DEF Caps
<1>2. /\ t \in [DOMAIN t -> Nat] /\ mc \in DOMAIN t /\ t[mc] = body[mt]
  BY DEF translate_request, Merge, Without
<1> HIDE DEF t
<1>capped. c = apply_token_caps_to_value(t, r.cap)
  BY DEF cap_openai_max_tokens
<1> HIDE DEF c
<1>3. /\ c \in [DOMAIN c -> Nat] /\ mc \in DOMAIN c
      /\ c[mc] = Lower(body[mt], r.cap[mc])
  <2>1. /\ DOMAIN c = DOMAIN t \union {x \in Caps : r.cap[x] # None}
        /\ c \in [DOMAIN c -> Nat]
        /\ \A f \in DOMAIN t : f \in Caps => c[f] = Lower(t[f], r.cap[f])
    BY <1>2, <1>capped, CapsAre
  <2> QED
    BY <1>1, <1>2, <2>1
<1>4. body[mt] \in Nat /\ r.cap[mt] \in Nat \union {None} /\ r.cap[mc] \in Nat \union {None}
  BY <1>1
<1>5. /\ mc \in DOMAIN d /\ d[mc] \in Nat
      /\ r.cap[mt] # None => d[mc] <= r.cap[mt]
      /\ r.cap[mc] # None => d[mc] <= r.cap[mc]
  <2>1. c[mc] \in Nat /\ c[mc] <= body[mt] /\ (r.cap[mc] # None => c[mc] <= r.cap[mc])
    BY <1>3, <1>4, LowerIs
  <2>2. CASE r.cap[mc] # None
    BY <1>3, <1>4, <2>1, <2>2
  <2>3. CASE r.cap[mc] = None
    <3>1. d = [c EXCEPT ![mc] = Lower(c[mc], r.cap[mt])]
      BY <2>3
    <3>2. mc \in DOMAIN d /\ d[mc] = Lower(c[mc], r.cap[mt])
      BY <1>3, <3>1
    <3> QED
      BY <1>4, <2>1, <2>3, <3>2, LowerIs
  <2> QED
    BY <2>2, <2>3
<1> HIDE DEF d
<1>6. mt \notin DOMAIN e /\ mc \in DOMAIN e /\ e[mc] = d[mc]
  BY <1>5 DEF sanitize_openai_egress, Without
<1> HIDE DEF e
<1>7. mt \notin DOMAIN b /\ mc \in DOMAIN b /\ b[mc] = d[mc]
  BY <1>6 DEF Without
<1>8. b = to_openai(body, r)
  BY DEF to_openai, b, e, d, c, t
<1> HIDE DEF b
<1> QED
  BY <1>5, <1>7, <1>8

\* As one of Anthropic it has one limit, which holds for it if there was no
\* other name to take it from.
LEMMA ToAnthropicIs ==
    ASSUME NEW body, body \in [DOMAIN body -> Nat],
           NEW r, r.cap \in [Caps -> Nat \union {None}],
           r.cap["max_completion_tokens"] = None,
           "max_completion_tokens" \notin DOMAIN body,
           NEW b \in to_anthropic(cap_openai_max_tokens(body, r.cap), DefaultMaxTokens),
           r.cap["max_tokens"] # None
    PROVE  DOMAIN b = {"max_tokens"} /\ b["max_tokens"] <= r.cap["max_tokens"]
<1> DEFINE t == cap_openai_max_tokens(body, r.cap)
<1>1. /\ DOMAIN t = DOMAIN body \union {c \in Caps : r.cap[c] # None}
      /\ \A f \in DOMAIN t : f \in Caps /\ r.cap[f] # None => t[f] <= r.cap[f]
  <2> HIDE DEF t
  <2>1. t = apply_token_caps_to_value(body, r.cap)
    BY DEF t, cap_openai_max_tokens
  <2> QED
    BY <2>1, CapsAre
<1>2. "max_tokens" \in Caps /\ "max_completion_tokens" \in Caps
  BY DEF Caps
<1>3. /\ "max_tokens" \in DOMAIN t /\ "max_completion_tokens" \notin DOMAIN t
      /\ t["max_tokens"] <= r.cap["max_tokens"]
  BY <1>1, <1>2
<1> HIDE DEF t
<1>4. b \in to_anthropic(t, DefaultMaxTokens)
  BY DEF t
<1>5. DOMAIN t \intersect {"max_tokens", "max_completion_tokens"} = {"max_tokens"}
  BY <1>3
<1>6. b = [f \in {"max_tokens"} |-> t["max_tokens"]]
  BY <1>4, <1>5 DEF to_anthropic
<1> QED
  BY <1>3, <1>6

-----------------------------------------------------------------------------
(* Headers *)

\* The key in place of the client's credentials, and one header that correlates.
LEMMA HeadersAre ==
    ASSUME NEW key, NEW headers, \A n \in DOMAIN headers : headers[n] # None, NEW p
    PROVE  LET h == forward_request_headers_map(key, headers, p)
               target == IF p = "anthropic" THEN "x-claude-code-session-id"
                                            ELSE "x-client-request-id"
           IN /\ \A n \in AuthHeaders :
                    IF key # None THEN h[n] = key ELSE Lookup(h, n) = Lookup(headers, n)
              /\ "x-request-id" \notin DOMAIN h
              /\ ({"x-claude-code-session-id", "x-client-request-id", "x-request-id"}
                     \intersect DOMAIN headers # {}) <=> target \in DOMAIN h
<1> DEFINE kept == {n \in DOMAIN headers :
                       /\ n \notin HopHeaders \union {"x-request-id", "x-client-request-id"}
                       /\ key # None => n \notin AuthHeaders}
           auth == IF key = None THEN {} ELSE AuthHeaders
           base == Merge([n \in auth |-> key], [n \in kept |-> headers[n]])
           source == or(Lookup(base, "x-claude-code-session-id"),
                        or(Lookup(headers, "x-client-request-id"),
                           Lookup(headers, "x-request-id")))
           target == IF p = "anthropic" THEN "x-claude-code-session-id"
                                        ELSE "x-client-request-id"
           h == IF source = None THEN base ELSE Merge([n \in {target} |-> source], base)
<1>1. h = forward_request_headers_map(key, headers, p)
  BY DEF forward_request_headers_map
<1>2. /\ DOMAIN base = auth \union kept
      /\ \A n \in auth : base[n] = key
      /\ \A n \in kept : n \notin auth => base[n] = headers[n]
  BY DEF Merge
<1>3. /\ "x-claude-code-session-id" \notin AuthHeaders \union HopHeaders
      /\ "x-client-request-id" \notin AuthHeaders
      /\ "x-request-id" \notin AuthHeaders
      /\ AuthHeaders \intersect (HopHeaders \union {"x-request-id", "x-client-request-id"}) = {}
  BY DEF AuthHeaders, HopHeaders
<1>4. /\ "x-claude-code-session-id" \in kept <=> "x-claude-code-session-id" \in DOMAIN headers
      /\ "x-client-request-id" \notin kept /\ "x-request-id" \notin kept
      /\ key = None => \A n \in AuthHeaders : n \in kept <=> n \in DOMAIN headers
  BY <1>3
<1>5. kept \subseteq DOMAIN headers /\ auth \subseteq AuthHeaders
      /\ (key # None => auth = AuthHeaders) /\ (key = None => auth = {})
  OBVIOUS
<1> HIDE DEF base, kept, auth
<1>6. source # None <=> \E n \in {"x-claude-code-session-id", "x-client-request-id",
                                  "x-request-id"} : n \in DOMAIN headers
  <2>1. Lookup(base, "x-claude-code-session-id")
          = Lookup(headers, "x-claude-code-session-id")
    BY <1>2, <1>3, <1>4, <1>5 DEF Lookup
  <2> QED
    BY <2>1 DEF or, Lookup
<1> HIDE DEF source
<1>7. /\ DOMAIN h = DOMAIN base \union (IF source = None THEN {} ELSE {target})
      /\ \A n \in DOMAIN base : n # target => h[n] = base[n]
  BY DEF Merge
<1>8. target \in {"x-claude-code-session-id", "x-client-request-id"}
  OBVIOUS
<1> HIDE DEF h
<1>9. \A n \in AuthHeaders :
         IF key # None THEN h[n] = key ELSE Lookup(h, n) = Lookup(headers, n)
  <2> TAKE n \in AuthHeaders
  <2>1. n # target
    BY <1>3, <1>8
  <2>2. CASE key # None
    BY <1>2, <1>5, <1>7, <2>1, <2>2
  <2>3. CASE key = None
    <3>1. n \in DOMAIN h <=> n \in DOMAIN headers
      BY <1>2, <1>4, <1>5, <1>7, <2>1, <2>3
    <3>2. n \in DOMAIN headers => h[n] = headers[n]
      BY <1>2, <1>4, <1>5, <1>7, <2>1, <2>3
    <3> QED
      BY <2>3, <3>1, <3>2 DEF Lookup
  <2> QED
    BY <2>2, <2>3
<1>10. "x-request-id" \notin DOMAIN h
  BY <1>2, <1>3, <1>4, <1>5, <1>7, <1>8
<1>11. target \in DOMAIN h <=> source # None
  <2>1. CASE source # None
    BY <1>7, <2>1
  <2>2. CASE source = None
    BY <1>2, <1>3, <1>4, <1>5, <1>6, <1>7, <1>8, <2>2
  <2> QED
    BY <2>1, <2>2
<1> HIDE DEF target
<1>12. ({"x-claude-code-session-id", "x-client-request-id", "x-request-id"}
          \intersect DOMAIN headers # {}) <=> target \in DOMAIN h
  BY <1>6, <1>11
<1> QED
  BY <1>1, <1>9, <1>10, <1>12 DEF target

-----------------------------------------------------------------------------
(* What is sent *)

\* The route is that of a valid file.
Routed ==
    /\ is_file(raw) /\ is_valid(raw) /\ is_call(req)
    /\ route # None /\ route = resolve_route(from_file_config(raw), req.model)
    /\ egress \in {"openai", "anthropic"}

HasSent ==
    /\ Routed
    /\ passthrough \/ req.text = "ok"
    /\ \E body \in egress_bodies(req, route, egress) :
           sent = [url |-> route.endpoint[egress], protocol |-> egress, body |-> body,
                   headers |-> forward_request_headers_map(route.api_key, req.headers,
                                                           egress)]

owner == raw.sections[Owner(raw, req.model)]
dropped == for_model(owner.drop_fields, req.model)

\* The target of a call that has one is the owner's.
LEMMA RoutedIs ==
    ASSUME Routed
    PROVE  /\ \A c \in Caps : route.cap[c] = or(owner.cap[c], raw.default_cap[c])
           /\ route.cap \in [Caps -> Nat \union {None}]
           /\ route.endpoint[egress] = owner.endpoint[egress].url
           /\ route.api_key = IF owner.api_key = None THEN None
                              ELSE resolve_secret(owner.api_key)
           /\ for_model(route.drop_fields, req.model) = dropped
<1>1. /\ route = [section |-> Owner(raw, req.model),
                  endpoint |-> [p \in Protocols |-> trimmed_endpoint(owner.endpoint[p])],
                  api_key |-> IF owner.api_key = None THEN None ELSE resolve_secret(owner.api_key),
                  cap |-> [c \in Caps |-> limit_of(raw, req.model, c)],
                  drop_fields |-> owner.drop_fields]
      /\ \E p \in Protocols : route.endpoint[p] # None
      /\ \A c \in Caps : limit_of(raw, req.model, c) \in Nat \union {None}
  BY RouteIs DEF Routed, owner
<1>2. /\ route.endpoint = [p \in Protocols |-> trimmed_endpoint(owner.endpoint[p])]
      /\ route.api_key = IF owner.api_key = None THEN None ELSE resolve_secret(owner.api_key)
      /\ route.cap = [c \in Caps |-> limit_of(raw, req.model, c)]
      /\ route.drop_fields = owner.drop_fields
  BY <1>1
<1>3. egress \in Protocols /\ route.endpoint[egress] # None
  <2>1. req.ingress \in {"openai", "anthropic"}
    BY DEF Routed, is_call
  <2> QED
    BY <1>1, <2>1, EgressHasEndpoint DEF egress
<1>4. route.endpoint[egress] = trimmed_endpoint(owner.endpoint[egress])
  BY <1>2, <1>3
<1>5. route.endpoint[egress] = owner.endpoint[egress].url
  BY <1>3, <1>4 DEF trimmed_endpoint
<1>6. \A c \in Caps : route.cap[c] = or(owner.cap[c], raw.default_cap[c])
  BY <1>2 DEF limit_of, owner
<1>7. route.cap \in [Caps -> Nat \union {None}]
  BY <1>1, <1>2
<1>8. for_model(route.drop_fields, req.model) = dropped
  BY <1>2 DEF dropped
<1> QED
  BY <1>2, <1>5, <1>6, <1>7, <1>8

\* A body that is passed on.
LEMMA PassedOnIs ==
    ASSUME Routed, passthrough, NEW body \in egress_bodies(req, route, egress)
    PROVE  /\ DOMAIN body \intersect dropped = {}
           /\ \A c \in Caps \ dropped : route.cap[c] # None =>
                 c \in DOMAIN body /\ body[c] <= route.cap[c]
           /\ \A f \in DOMAIN req.fields \ (Caps \union dropped) : body[f] = req.fields[f]
<1> DEFINE b == apply_token_caps_to_value(req.fields, route.cap)
<1>1. body = Without(b, dropped)
  BY RoutedIs DEF egress_bodies, ingress_body, passthrough, apply_egress_transforms
<1>2. /\ DOMAIN b = DOMAIN req.fields \union {c \in Caps : route.cap[c] # None}
      /\ \A f \in DOMAIN req.fields : f \notin Caps => b[f] = req.fields[f]
      /\ \A f \in DOMAIN b : f \in Caps /\ route.cap[f] # None => b[f] <= route.cap[f]
  <2>1. req.fields \in [DOMAIN req.fields -> Nat] /\ route.cap \in [Caps -> Nat \union {None}]
    BY RoutedIs DEF Routed, is_call
  <2> HIDE DEF b
  <2>2. b = apply_token_caps_to_value(req.fields, route.cap)
    BY DEF b
  <2> QED
    BY <2>1, <2>2, CapsAre
<1> HIDE DEF b
<1>3. DOMAIN body = DOMAIN b \ dropped /\ \A f \in DOMAIN b \ dropped : body[f] = b[f]
  BY <1>1, WithoutIs
<1> QED
  BY <1>2, <1>3

\* A body that becomes one of OpenAI.
LEMMA ForOpenaiIs ==
    ASSUME Routed, ~passthrough, req.text = "ok", egress = "openai",
           NEW body \in egress_bodies(req, route, egress)
    PROVE  /\ DOMAIN body \intersect dropped = {}
           /\ "max_tokens" \notin DOMAIN body
           /\ "max_completion_tokens" \notin dropped =>
                 \A c \in {"max_tokens", "max_completion_tokens"} :
                    route.cap[c] # None => body["max_completion_tokens"] <= route.cap[c]
<1>1. req.ingress = "anthropic"
  BY DEF Routed, is_call, passthrough
<1> DEFINE t == typed_anthropic(req.fields, route)
           b == to_openai(t, route)
<1>2. body = Without(b, dropped)
  BY <1>1, RoutedIs DEF egress_bodies, ingress_body, prepare_egress_body, passthrough
<1>3. /\ req.fields \in [DOMAIN req.fields -> Nat] /\ "max_tokens" \in DOMAIN req.fields
      /\ route.cap \in [Caps -> Nat \union {None}]
  BY <1>1, RoutedIs DEF Routed, is_call
<1>4. /\ "max_tokens" \in DOMAIN t /\ t \in [DOMAIN t -> Nat]
      /\ t["max_tokens"] = Lower(req.fields["max_tokens"], route.cap["max_tokens"])
  BY <1>3, TypedIs
<1>5. route.cap["max_tokens"] # None => t["max_tokens"] <= route.cap["max_tokens"]
  <2>1. "max_tokens" \in Caps
    BY DEF Caps
  <2>2. req.fields["max_tokens"] \in Nat /\ route.cap["max_tokens"] \in Nat \union {None}
    BY <1>3, <2>1
  <2> HIDE DEF t
  <2> QED
    BY <1>4, <2>2, LowerIs
<1> HIDE DEF t
<1>6. /\ "max_tokens" \notin DOMAIN b /\ "max_completion_tokens" \in DOMAIN b
      /\ \A c \in {"max_tokens", "max_completion_tokens"} :
            route.cap[c] # None => b["max_completion_tokens"] <= route.cap[c]
  <2>1. "max_tokens" \notin DOMAIN b /\ "max_completion_tokens" \in DOMAIN b
    BY <1>3, <1>4, <1>5, ToOpenaiIs
  <2>2. \A c \in {"max_tokens", "max_completion_tokens"} :
           route.cap[c] # None => b["max_completion_tokens"] <= route.cap[c]
    BY <1>3, <1>4, <1>5, ToOpenaiIs
  <2> QED
    BY <2>1, <2>2
<1> HIDE DEF b
<1>7. DOMAIN body = DOMAIN b \ dropped /\ \A f \in DOMAIN b \ dropped : body[f] = b[f]
  <2>1. DOMAIN Without(b, dropped) = DOMAIN b \ dropped
    BY WithoutIs
  <2>2. \A f \in DOMAIN b \ dropped : Without(b, dropped)[f] = b[f]
    BY WithoutIs
  <2> QED
    BY <1>2, <2>1, <2>2
<1>8. DOMAIN body \intersect dropped = {} /\ "max_tokens" \notin DOMAIN body
  BY <1>6, <1>7
<1>9. "max_completion_tokens" \notin dropped =>
         body["max_completion_tokens"] = b["max_completion_tokens"]
  BY <1>6, <1>7
<1> QED
  BY <1>6, <1>8, <1>9

\* A body that becomes one of Anthropic.
LEMMA ForAnthropicIs ==
    ASSUME Routed, ~passthrough, egress = "anthropic",
           NEW body \in egress_bodies(req, route, egress)
    PROVE  /\ DOMAIN body \intersect dropped = {}
           /\ \/ "max_tokens" \in dropped
              \/ route.cap["max_completion_tokens"] # None
              \/ "max_completion_tokens" \in DOMAIN req.fields
              \/ route.cap["max_tokens"] = None
              \/ body["max_tokens"] <= route.cap["max_tokens"]
<1>1. req.ingress = "openai"
  BY DEF Routed, is_call, passthrough
<1>2. PICK b \in to_anthropic(cap_openai_max_tokens(req.fields, route.cap), DefaultMaxTokens) :
         body = Without(b, dropped)
  BY <1>1, RoutedIs DEF egress_bodies, ingress_body, prepare_egress_body, passthrough
<1>3. DOMAIN body = DOMAIN b \ dropped /\ \A f \in DOMAIN b \ dropped : body[f] = b[f]
  BY <1>2, WithoutIs
<1>4. ASSUME "max_tokens" \notin dropped, route.cap["max_completion_tokens"] = None,
             "max_completion_tokens" \notin DOMAIN req.fields,
             route.cap["max_tokens"] # None
      PROVE  body["max_tokens"] <= route.cap["max_tokens"]
  <2>1. req.fields \in [DOMAIN req.fields -> Nat] /\ route.cap \in [Caps -> Nat \union {None}]
    BY RoutedIs DEF Routed, is_call
  <2>2. DOMAIN b = {"max_tokens"} /\ b["max_tokens"] <= route.cap["max_tokens"]
    BY <1>2, <1>4, <2>1, ToAnthropicIs
  <2> QED
    BY <1>3, <1>4, <2>2
<1> QED
  BY <1>3, <1>4

\* What Send sends is as the section says.
LEMMA HasSentIs == HasSent => EgressIsTransformed
<1> SUFFICES ASSUME HasSent PROVE EgressIsTransformed
  OBVIOUS
<1>1. Routed
  BY DEF HasSent
<1>2. PICK body \in egress_bodies(req, route, egress) :
         sent = [url |-> route.endpoint[egress], protocol |-> egress, body |-> body,
                 headers |-> forward_request_headers_map(route.api_key, req.headers, egress)]
  BY DEF HasSent
<1> DEFINE h == forward_request_headers_map(route.api_key, req.headers, egress)
           target == IF egress = "anthropic" THEN "x-claude-code-session-id"
                                             ELSE "x-client-request-id"
<1>3. /\ sent.url = route.endpoint[egress] /\ sent.body = body /\ sent.headers = h
  BY <1>2
<1>4. /\ \A n \in AuthHeaders :
            IF route.api_key # None THEN h[n] = route.api_key
            ELSE Lookup(h, n) = Lookup(req.headers, n)
      /\ "x-request-id" \notin DOMAIN h
      /\ ({"x-claude-code-session-id", "x-client-request-id", "x-request-id"}
            \intersect DOMAIN req.headers # {}) <=> target \in DOMAIN h
  BY <1>1, HeadersAre DEF Routed, is_call
<1> HIDE DEF h
<1>5. /\ \A c \in Caps : route.cap[c] = or(owner.cap[c], raw.default_cap[c])
      /\ sent.url = owner.endpoint[egress].url
      /\ route.api_key = IF owner.api_key = None THEN None
                         ELSE resolve_secret(owner.api_key)
  BY <1>1, <1>3, RoutedIs
<1>6. DOMAIN body \intersect dropped = {}
  <2>1. egress \in {"openai", "anthropic"} /\ (passthrough \/ req.text = "ok")
    BY DEF HasSent, Routed
  <2> QED
    BY <1>1, <2>1, PassedOnIs, ForOpenaiIs, ForAnthropicIs
<1> DEFINE limit(c) == or(owner.cap[c], raw.default_cap[c])
<1>7. passthrough =>
         /\ \A c \in Caps \ dropped : limit(c) # None =>
               c \in DOMAIN body /\ body[c] <= limit(c)
         /\ \A f \in DOMAIN req.fields \ (Caps \union dropped) : body[f] = req.fields[f]
  BY <1>1, <1>5, PassedOnIs
<1>8. "max_tokens" \in Caps /\ "max_completion_tokens" \in Caps
  BY DEF Caps
<1>9. ~passthrough /\ egress = "openai" =>
         /\ "max_tokens" \notin DOMAIN body
         /\ "max_completion_tokens" \notin dropped =>
               \A c \in {"max_tokens", "max_completion_tokens"} :
                  limit(c) # None => body["max_completion_tokens"] <= limit(c)
  BY <1>1, <1>5, <1>8, ForOpenaiIs DEF HasSent
<1>10. ~passthrough /\ egress = "anthropic" =>
          \/ "max_tokens" \in dropped
          \/ limit("max_completion_tokens") # None
          \/ "max_completion_tokens" \in DOMAIN req.fields
          \/ limit("max_tokens") # None => body["max_tokens"] <= limit("max_tokens")
  BY <1>1, <1>5, <1>8, ForAnthropicIs
<1>11. owner = raw.sections[CHOOSE s \in DOMAIN raw.sections :
                  IF {t \in DOMAIN raw.sections : ~is_default(raw.sections[t].models)
                         /\ req.model \in ToSet(raw.sections[t].models.names)} # {}
                  THEN s \in {t \in DOMAIN raw.sections : ~is_default(raw.sections[t].models)
                         /\ req.model \in ToSet(raw.sections[t].models.names)}
                  ELSE is_default(raw.sections[s].models)]
  BY DEF owner, Owner, Listing
<1> QED
  BY <1>3, <1>4, <1>5, <1>6, <1>7, <1>9, <1>10, <1>11
  DEF EgressIsTransformed, dropped

Before == {"load", "refused", "call", "handler", "interactions"}
Waiting == {"send", "error_body", "body", "translate"}

\* What a call has come to know of the file, by its phase.
Known ==
    /\ is_file(raw) /\ is_call(req) /\ phase \in Phase
    /\ phase \notin {"load", "refused"} => is_valid(raw) /\ config = from_file_config(raw)
    /\ phase = "handler" => Routed /\ req.text \notin {"bytes", "no_json"}
    /\ phase \in Before => sent = None
    /\ phase \in Waiting \union {"relay"} => HasSent
    /\ sent # None => HasSent

\* What was sent depends on these alone.
LEMMA StillSent ==
    ASSUME UNCHANGED <<raw, req, route, sent>>
    PROVE  /\ HasSent' <=> HasSent
           /\ Routed' <=> Routed
           /\ egress' = egress /\ (passthrough' <=> passthrough)
BY DEF HasSent, Routed, egress, passthrough

\* Everything after the request is sent.
LEMMA LaterStep ==
    ASSUME Known, phase \in Waiting \union {"relay"},
           UNCHANGED <<call, config, sent>>, 
           phase' \in Waiting \union {"relay", "done", "failed", "gone"}
    PROVE  Known'
BY StillSent DEF Known, call, Waiting, Before, Phase, Ended

\* At the start nothing is known but the file.
LEMMA InitKnown ==
    ASSUME NEW c \in Calls, proxyInit(c) PROVE Known
BY ProxyAssumption DEF proxyInit, Known, Before, Waiting, Phase

\* No step learns anything wrong.
LEMMA NextKnown == Known /\ proxyNext => Known'
<1> SUFFICES ASSUME Known, proxyNext PROVE Known'
  OBVIOUS
<1>1. CASE Load
  BY <1>1 DEF Load, Known, Before, Waiting, Phase, Ended
<1>2. CASE TooLarge
  BY <1>2, StillSent DEF TooLarge, Known, Before, Waiting, Phase, Ended, call
<1>3. CASE Reject
  BY <1>3, StillSent DEF Reject, Known, Before, Waiting, Phase, Ended, call
<1>4. CASE Dispatch
  <2> DEFINE r == resolve_route(config, req.model)
  <2>1. /\ r # None /\ route' = r /\ UNCHANGED <<raw, config, req, sent>>
        /\ phase' = IF egress_of(r, req.ingress) = "interactions" THEN "interactions"
                    ELSE "handler"
        /\ phase = "call" /\ req.text \notin {"bytes", "no_json"}
    BY <1>4 DEF Dispatch
  <2>2. r = resolve_route(from_file_config(raw), req.model) /\ is_valid(raw) /\ sent = None
    BY <2>1 DEF Known, Before
  <2>3. \E p \in Protocols : r.endpoint[p] # None
    BY <2>1, <2>2, RouteIs DEF Known
  <2> HIDE DEF r
  <2>4. egress_of(r, req.ingress) \in Protocols
    BY <2>3, EgressHasEndpoint DEF Known, is_call
  <2>5. phase' = "handler" => Routed'
    BY <2>1, <2>2, <2>4 DEF Routed, Known, egress, Protocols
  <2> QED
    BY <2>1, <2>2, <2>5 DEF Known, Before, Waiting, Phase, Ended
<1>5. CASE Refuse
  BY <1>5, StillSent DEF Refuse, Known, Before, Waiting, Phase, Ended, call
<1>6. CASE Send
  <2>1. /\ phase = "handler" /\ phase' = "send" /\ UNCHANGED <<raw, req, route, config>>
        /\ HasSent'
    <3>1. /\ phase = "handler" /\ phase' = "send" /\ UNCHANGED <<raw, req, route, config>>
          /\ passthrough \/ req.text \notin {"untyped", "untranslatable"}
      BY <1>6 DEF Send, call
    <3>2. PICK body \in egress_bodies(req, route, egress) :
             sent' = [url |-> route.endpoint[egress], protocol |-> egress, body |-> body,
                      headers |-> forward_request_headers_map(route.api_key, req.headers,
                                                              egress)]
      BY <1>6 DEF Send
    <3>3. Routed' /\ egress' = egress /\ (passthrough' <=> passthrough)
      BY <3>1 DEF Known, Routed, egress, passthrough
    <3>4. passthrough \/ req.text = "ok"
      BY <3>1 DEF Known, is_call
    <3>5. HasSent'
      BY <3>1, <3>2, <3>3, <3>4 DEF HasSent
    <3> QED
      BY <3>1, <3>5
  <2> QED
    BY <2>1 DEF Known, Before, Waiting, Phase, Ended
<1>7. CASE SendFails
  BY <1>7, LaterStep DEF SendFails, Waiting
<1>8. CASE UpstreamAnswers
  <2>1. phase' \in {"error_body", "relay", "body", "translate"}
    BY <1>8 DEF UpstreamAnswers, phase_after
  <2> QED
    BY <1>8, <2>1, LaterStep DEF UpstreamAnswers, Waiting
<1>9. CASE ReadErrorBody
  BY <1>9, LaterStep DEF ReadErrorBody, Waiting
<1>10. CASE ReadFails \/ RelayBody \/ ConvertBody
  BY <1>10, LaterStep DEF ReadFails, RelayBody, ConvertBody, Waiting
<1>11. ASSUME NEW n \in ChunkSizes, RelayChunk(n) PROVE Known'
  BY <1>11, LaterStep DEF RelayChunk, Waiting
<1>12. ASSUME NEW n \in ChunkSizes, TranslateChunk(n) PROVE Known'
  <2>1. phase' \in {"failed", "done", "translate"} /\ phase = "translate"
        /\ UNCHANGED <<call, config, sent>>
    BY <1>12 DEF TranslateChunk
  <2> QED
    BY <2>1, LaterStep DEF Waiting
<1>13. CASE RelayEnds \/ RelayDropped
  BY <1>13, LaterStep DEF RelayEnds, RelayDropped
<1>14. CASE TranslateEnds \/ TranslateBreaks \/ ClientGone
  BY <1>14, LaterStep DEF TranslateEnds, TranslateBreaks, ClientGone, Waiting
<1>15. CASE UNCHANGED proxyVars
  BY <1>15, StillSent DEF proxyVars, Known
<1> QED
  BY <1>1, <1>2, <1>3, <1>4, <1>5, <1>6, <1>7, <1>8, <1>9, <1>10, <1>11, <1>12, <1>13,
     <1>14, <1>15 DEF proxyNext

\* What is sent to a provider, for every configuration file and every call
\* (resolve_route, apply_egress_transforms, the conversions,
\* forward_request_headers_map): the section that lists the model, or else the
\* default one, its key, its limits and the fields it drops, and the rest of a
\* request that is passed on as the client made it.
THEOREM EgressIsTransformedAlways == Spec => []EgressIsTransformed
<1>1. Init => Known
  BY InitKnown, ProxyAssumption DEF Init
<1>2. Known /\ [Next]_vars => Known'
  <2> SUFFICES ASSUME Known, [Next]_vars PROVE Known'
    OBVIOUS
  <2>1. CASE client = "messages" /\ proxyNext
    BY <2>1, NextKnown
  <2>2. CASE UNCHANGED proxyVars
    BY <2>2, StillSent DEF proxyVars, Known
  <2> QED
    BY <2>1, <2>2 DEF Next, vars
<1>3. Known => EgressIsTransformed
  BY HasSentIs DEF Known, EgressIsTransformed
<1> QED
  BY <1>1, <1>2, <1>3, PTL DEF Spec

-----------------------------------------------------------------------------
(* Texts: sequences as the buffers and the lines use them *)

\* A set of numbers has a least one.
LEMMA LeastNumber ==
    ASSUME NEW T \in SUBSET Nat, T # {}
    PROVE  \E x \in T : \A y \in T : x <= y
<1>1. IsWellFoundedOn(OpToRel(<, Nat), Nat)
  BY NatLessThanWellFounded
<1> DEFINE R == OpToRel(<, Nat)
<1>2. \A x, y \in Nat : <<x, y>> \in R <=> x < y
  BY DEF OpToRel
<1> HIDE DEF R
<1>3. PICK x \in T : \A y \in T : ~(<<y, x>> \in R)
  BY <1>1, WFMin DEF R
<1>4. \A y \in T : x <= y
  <2> TAKE y \in T
  <2>1. x \in Nat /\ y \in Nat
    OBVIOUS
  <2>2. ~(y < x)
    BY <1>2, <1>3, <2>1
  <2> QED
    BY <2>1, <2>2
<1> QED
  BY <1>4

\* A sequence of anything.
Text(s) == s \in Seq(ToSet(s))

\* A sequence is a text.
LEMMA TextOf == ASSUME NEW T, NEW s \in Seq(T) PROVE Text(s)
<1>1. \A i \in 1 .. Len(s) : s[i] \in ToSet(s)
  BY DEF ToSet
<1> QED
  BY <1>1 DEF Text

\* A text is the function of its places.
LEMMA TextIs ==
    ASSUME NEW s, Text(s)
    PROVE  Len(s) \in Nat /\ DOMAIN s = 1 .. Len(s) /\ s = [i \in 1 .. Len(s) |-> s[i]]
BY DEF Text

\* Texts of no and of one item.
LEMMA ShortTexts ==
    /\ Text(<<>>) /\ Len(<<>>) = 0
    /\ \A x : Text(<<x>>) /\ Len(<<x>>) = 1
<1>1. Text(<<>>) /\ Len(<<>>) = 0
  BY DEF Text
<1>2. ASSUME NEW x PROVE Text(<<x>>) /\ Len(<<x>>) = 1
  <2>1. <<x>> \in Seq({x})
    OBVIOUS
  <2> QED
    BY <2>1, TextOf
<1> QED
  BY <1>1, <1>2

Joined(r, s, t) == r = s \o t

\* A text after another.
LEMMA TextConcat ==
    ASSUME NEW s, NEW t, Text(s), Text(t), NEW r, Joined(r, s, t)
    PROVE  /\ Text(r) /\ Len(r) = Len(s) + Len(t)
           /\ \A i \in 1 .. Len(s) : r[i] = s[i]
           /\ \A i \in 1 .. Len(t) : r[Len(s) + i] = t[i]
<1> DEFINE T == ToSet(s) \union ToSet(t)
<1>1. s \in Seq(T) /\ t \in Seq(T)
  BY DEF Text
<1> HIDE DEF T
<1>2. r \in Seq(T) /\ Len(r) = Len(s) + Len(t)
  BY <1>1 DEF Joined
<1>3. Text(r)
  BY <1>2, TextOf
<1>4. /\ \A i \in 1 .. Len(s) : r[i] = s[i]
      /\ \A i \in 1 .. Len(t) : r[Len(s) + i] = t[i]
  BY <1>1 DEF Joined
<1> QED
  BY <1>2, <1>3, <1>4

\* The same for texts whose lengths have a name.
LEMMA JoinedIs ==
    ASSUME NEW s, NEW t, Text(s), Text(t), NEW m \in Nat, Len(s) = m,
           NEW n \in Nat, Len(t) = n, NEW r, Joined(r, s, t)
    PROVE  /\ Text(r) /\ Len(r) = m + n
           /\ \A i \in 1 .. m : r[i] = s[i]
           /\ \A i \in 1 .. n : r[m + i] = t[i]
<1> DEFINE T == ToSet(s) \union ToSet(t)
<1>1. s \in Seq(T) /\ t \in Seq(T)
  BY DEF Text
<1> HIDE DEF T
<1>2. r \in Seq(T) /\ Len(r) = m + n
  BY <1>1 DEF Joined
<1>3. Text(r)
  BY <1>2, TextOf
<1>4. /\ \A i \in 1 .. m : r[i] = s[i]
      /\ \A i \in 1 .. n : r[m + i] = t[i]
  BY <1>1 DEF Joined
<1> QED
  BY <1>2, <1>3, <1>4

\* A part of a text.
LEMMA TextSub ==
    ASSUME NEW s, Text(s), NEW m \in Nat \ {0}, NEW n \in Nat, n <= Len(s)
    PROVE  /\ Text(SubSeq(s, m, n))
           /\ Len(SubSeq(s, m, n)) = IF m <= n THEN n - m + 1 ELSE 0
           /\ \A i \in 1 .. Len(SubSeq(s, m, n)) : SubSeq(s, m, n)[i] = s[m + i - 1]
<1>1. s \in Seq(ToSet(s))
  BY DEF Text
<1>2. SubSeq(s, m, n) \in Seq(ToSet(s))
  BY <1>1
<1>3. Text(SubSeq(s, m, n))
  BY <1>2, TextOf
<1>4. /\ Len(SubSeq(s, m, n)) = IF m <= n THEN n - m + 1 ELSE 0
      /\ \A i \in 1 .. Len(SubSeq(s, m, n)) : SubSeq(s, m, n)[i] = s[m + i - 1]
  BY <1>1
<1> QED
  BY <1>3, <1>4

\* Texts with the same items are the same.
LEMMA TextsAreEqual ==
    ASSUME NEW s, NEW t, Text(s), Text(t), Len(s) = Len(t),
           \A i \in 1 .. Len(s) : s[i] = t[i]
    PROVE  s = t
BY TextIs

\* What is left of a text is not longer.
LEMMA RestIs ==
    ASSUME NEW text, Text(text)
    PROVE  Text(rest_of(text)) /\ Len(rest_of(text)) <= Len(text)
<1> DEFINE S == {k \in DOMAIN text : text[k].half = 2} \union {0}
           n == Len(text)
           T == {n - k : k \in S}
<1>1. n = Len(text) /\ n \in Nat /\ DOMAIN text = 1 .. n
  BY TextIs
<1> HIDE DEF n
<1>2. S \subseteq 0 .. n /\ 0 \in S
  BY <1>1
<1> HIDE DEF S
<1>3. T \subseteq Nat /\ T # {}
  BY <1>1, <1>2
<1>4. PICK x \in T : \A y \in T : x <= y
  BY <1>3, LeastNumber
<1>5. PICK k \in S : x = n - k
  BY <1>4
<1>6. \A j \in S : k >= j
  <2> TAKE j \in S
  <2>1. n - k <= n - j
    BY <1>4, <1>5
  <2> QED
    BY <1>1, <1>2, <2>1
<1> DEFINE m == Max(S)
<1>7. m \in S
  BY <1>5, <1>6 DEF Max
<1>8. rest_of(text) = SubSeq(text, m + 1, n)
  BY DEF rest_of, S, n
<1> HIDE DEF m
<1>9. m \in 0 .. n /\ m + 1 \in Nat \ {0} /\ n <= Len(text)
  BY <1>1, <1>2, <1>7
<1>10. Text(rest_of(text)) /\ Len(rest_of(text)) = IF m + 1 <= n THEN n - (m + 1) + 1 ELSE 0
  BY <1>1, <1>8, <1>9, TextSub
<1> QED
  BY <1>1, <1>9, <1>10

-----------------------------------------------------------------------------
(* What a guard reports *)

IsDiag(d) == d = [stats_mode |-> d.stats_mode, dump_mode |-> d.dump_mode,
                  counter |-> d.counter, lines |-> d.lines]

\* The dumps that a guard keeps, in the order they are written in.
LEMMA DeferredAre ==
    ASSUME NEW g, NEW a, NEW b, g.ingress = <<a>>, g.egress = <<b>>, NEW status,
           NEW r, g.response \in {<<>>, <<r>>},
           NEW l, l = deferred_dumps(g, status)
    PROVE  /\ Text(l) /\ Len(l) = IF g.response = <<>> THEN 2 ELSE 3
           /\ l[1] = dump_line(g.id, "ingress", "request", status, a)
           /\ l[2] = dump_line(g.id, "egress", "request", status, b)
           /\ g.response # <<>> =>
                 l[3] = dump_line(g.id, "egress", "response", r.status, r.body)
<1> DEFINE p == [k \in DOMAIN g.ingress |->
                     dump_line(g.id, "ingress", "request", status, g.ingress[k])]
           q == [k \in DOMAIN g.egress |->
                     dump_line(g.id, "egress", "request", status, g.egress[k])]
           t == [k \in DOMAIN g.response |->
                     dump_line(g.id, "egress", "response", g.response[k].status,
                               g.response[k].body)]
<1>1. p = <<dump_line(g.id, "ingress", "request", status, a)>>
  OBVIOUS
<1>2. q = <<dump_line(g.id, "egress", "request", status, b)>>
  OBVIOUS
<1>3. t = IF g.response = <<>> THEN <<>>
          ELSE <<dump_line(g.id, "egress", "response", r.status, r.body)>>
  <2>1. CASE g.response = <<>>
    BY <2>1
  <2>2. CASE g.response # <<>>
    <3>1. g.response = <<r>>
      BY <2>2
    <3> QED
      BY <2>2, <3>1
  <2> QED
    BY <2>1, <2>2
<1> DEFINE u == p \o q
<1>4. Joined(l, u, t) /\ Joined(u, p, q)
  BY DEF deferred_dumps, Joined
<1> HIDE DEF p, q, t
<1>5. Text(p) /\ Len(p) = 1 /\ Text(q) /\ Len(q) = 1
  BY <1>1, <1>2, ShortTexts
<1> DEFINE n == IF g.response = <<>> THEN 0 ELSE 1
<1>6. Text(t) /\ Len(t) = n /\ n \in Nat
  BY <1>3, ShortTexts
<1> HIDE DEF u, n
<1>7. Text(u) /\ Len(u) = 2 /\ u[1] = p[1] /\ u[2] = q[1]
  <2>a. Text(p) /\ Text(q) /\ Joined(u, p, q)
    BY <1>4, <1>5
  <2>1. Text(u)
    BY <2>a, TextConcat
  <2>2. Len(u) = Len(p) + Len(q)
    BY <2>a, TextConcat
  <2>3. \A i \in 1 .. Len(p) : u[i] = p[i]
    BY <2>a, TextConcat
  <2>4. \A i \in 1 .. Len(q) : u[Len(p) + i] = q[i]
    BY <2>a, TextConcat
  <2> QED
    BY <1>5, <2>1, <2>2, <2>3, <2>4
<1>8. /\ Text(l) /\ Len(l) = 2 + n /\ \A i \in 1 .. 2 : l[i] = u[i]
      /\ \A i \in 1 .. n : l[2 + i] = t[i]
  <2>a. Text(u) /\ Text(t) /\ Joined(l, u, t)
    BY <1>4, <1>6, <1>7
  <2>1. Text(l)
    BY <2>a, TextConcat
  <2>2. Len(l) = Len(u) + Len(t)
    BY <2>a, TextConcat
  <2>3. \A i \in 1 .. Len(u) : l[i] = u[i]
    BY <2>a, TextConcat
  <2>4. \A i \in 1 .. Len(t) : l[Len(u) + i] = t[i]
    BY <2>a, TextConcat
  <2> QED
    BY <1>6, <1>7, <2>1, <2>2, <2>3, <2>4
<1>9. l[1] = p[1] /\ l[2] = q[1]
  BY <1>7, <1>8
<1>10. g.response # <<>> => l[3] = t[1]
  BY <1>8 DEF n
<1> QED
  BY <1>1, <1>2, <1>3, <1>8, <1>9, <1>10 DEF n

\* One line after some others, if it is recorded.
LEMMA StatsAfter ==
    ASSUME NEW d, IsDiag(d), Text(d.lines), NEW k \in Nat, Len(d.lines) = k, NEW line,
           NEW err \in BOOLEAN, line.error = err, NEW e, e = record_stats(d, line),
           NEW s \in Nat, s = IF records(d.stats_mode, err) THEN 1 ELSE 0
    PROVE  /\ IsDiag(e) /\ e.stats_mode = d.stats_mode /\ e.dump_mode = d.dump_mode
           /\ e.counter = d.counter
           /\ Text(e.lines) /\ Len(e.lines) = k + s
           /\ \A i \in 1 .. k : e.lines[i] = d.lines[i]
           /\ s = 1 => e.lines[k + 1] = line
<1>1. CASE ~records(d.stats_mode, err)
  <2>1. e = d /\ s = 0
    BY <1>1 DEF record_stats
  <2>3. /\ IsDiag(e) /\ e.stats_mode = d.stats_mode /\ e.dump_mode = d.dump_mode
        /\ e.counter = d.counter
    BY <2>1
  <2>4. Text(e.lines) /\ Len(e.lines) = k
    BY <2>1
  <2>7. Len(e.lines) = k + s
    BY <2>1, <2>4
  <2>5. \A i \in 1 .. k : e.lines[i] = d.lines[i]
    BY <2>1
  <2>6. s = 1 => e.lines[k + 1] = line
    BY <2>1
  <2> QED
    BY <2>3, <2>4, <2>5, <2>6, <2>7
<1>2. CASE records(d.stats_mode, err)
  <2> DEFINE l == Append(d.lines, line)
  <2>1. e = [d EXCEPT !.lines = l] /\ s = 1
    BY <1>2 DEF record_stats
  <2>2. d.lines \in Seq(ToSet(d.lines) \union {line})
    BY DEF Text
  <2>3. /\ l \in Seq(ToSet(d.lines) \union {line}) /\ Len(l) = k + 1
        /\ \A i \in 1 .. k : l[i] = d.lines[i]
        /\ l[k + 1] = line
    BY <2>2
  <2>4. Text(l)
    BY <2>3, TextOf
  <2> HIDE DEF l
  <2>5. e = [stats_mode |-> d.stats_mode, dump_mode |-> d.dump_mode,
             counter |-> d.counter, lines |-> l]
    BY <2>1 DEF IsDiag
  <2>6. e.lines = l /\ IsDiag(e) /\ e.stats_mode = d.stats_mode /\ e.dump_mode = d.dump_mode
        /\ e.counter = d.counter
    BY <2>5 DEF IsDiag
  <2> QED
    BY <2>1, <2>3, <2>4, <2>6
<1> QED
  BY <1>1, <1>2

\* Some dumps after some lines, if they are recorded.
LEMMA DumpsAfter ==
    ASSUME NEW d, IsDiag(d), Text(d.lines), NEW k \in Nat, Len(d.lines) = k,
           NEW l, Text(l), NEW m \in Nat, Len(l) = m,
           NEW err \in BOOLEAN, NEW e, e = record_dumps(d, l, err),
           NEW n \in Nat, n = IF records(d.dump_mode, err) THEN m ELSE 0
    PROVE  /\ IsDiag(e) /\ e.stats_mode = d.stats_mode /\ e.dump_mode = d.dump_mode
           /\ e.counter = d.counter
           /\ Text(e.lines) /\ Len(e.lines) = k + n
           /\ \A i \in 1 .. k : e.lines[i] = d.lines[i]
           /\ \A i \in 1 .. n : e.lines[k + i] = l[i]
<1>1. CASE ~records(d.dump_mode, err)
  <2>1. e = d /\ n = 0
    BY <1>1 DEF record_dumps
  <2>3. /\ IsDiag(e) /\ e.stats_mode = d.stats_mode /\ e.dump_mode = d.dump_mode
        /\ e.counter = d.counter
    BY <2>1
  <2>4. Text(e.lines) /\ Len(e.lines) = k
    BY <2>1
  <2>7. Len(e.lines) = k + n
    BY <2>1, <2>4
  <2>5. \A i \in 1 .. k : e.lines[i] = d.lines[i]
    BY <2>1
  <2>6. \A i \in 1 .. n : e.lines[k + i] = l[i]
    BY <2>1
  <2> QED
    BY <2>3, <2>4, <2>5, <2>6, <2>7
<1>2. CASE records(d.dump_mode, err)
  <2> DEFINE t == d.lines \o l
  <2>1. e = [d EXCEPT !.lines = t] /\ n = m
    BY <1>2 DEF record_dumps
  <2>2. /\ Text(t) /\ Len(t) = k + m
        /\ \A i \in 1 .. k : t[i] = d.lines[i]
        /\ \A i \in 1 .. m : t[k + i] = l[i]
    <3>1. Joined(t, d.lines, l)
      BY DEF Joined
    <3> HIDE DEF t
    <3>2. Text(t)
      BY <3>1, JoinedIs
    <3>3. Len(t) = k + m
      BY <3>1, JoinedIs
    <3>4. \A i \in 1 .. k : t[i] = d.lines[i]
      BY <3>1, JoinedIs
    <3>5. \A i \in 1 .. m : t[k + i] = l[i]
      BY <3>1, JoinedIs
    <3> QED
      BY <3>2, <3>3, <3>4, <3>5
  <2> HIDE DEF t
  <2>3. e = [stats_mode |-> d.stats_mode, dump_mode |-> d.dump_mode,
             counter |-> d.counter, lines |-> t]
    BY <2>1 DEF IsDiag
  <2>4. e.lines = t /\ IsDiag(e) /\ e.stats_mode = d.stats_mode /\ e.dump_mode = d.dump_mode
        /\ e.counter = d.counter
    BY <2>3 DEF IsDiag
  <2> QED
    BY <2>1, <2>2, <2>4
<1> QED
  BY <1>1, <1>2

\* The lines of a call: n dumps, s lines of statistics, and x dumps of a stream
\* that was passed on.
LinesAre(l, n, s, x, status, err, first, second, third) ==
    /\ n \in 0 .. 3 /\ s \in {0, 1} /\ x \in {0, 1} /\ (x = 1 => n = 2)
    /\ Text(l) /\ Len(l) = n + s + x
    /\ n >= 1 => \E st : l[1] = dump_line(0, "ingress", "request", st, first)
    /\ n >= 2 => \E st : l[2] = dump_line(0, "egress", "request", st, second)
    /\ n = 3 => \E st : l[3] = dump_line(0, "egress", "response", st, third)
    /\ s = 1 => l[n + 1] = stats_line(0, status, err)
    /\ x = 1 => \E st : l[n + s + 1] = dump_line(0, "egress", "response", st, third)

\* What a guard keeps, and the diagnostics after it reports.
Keeps(g, a, b, r) ==
    /\ g.id = 0 /\ g.finished = FALSE /\ g.ingress = <<a>> /\ g.egress = <<b>>
    /\ g.response \in {<<>>, <<r>>}
IsReport(e, d, g, status, err) == e = report(d, g, status, err)
Empty(d) == IsDiag(d) /\ d.lines = <<>>

\* The lines that the report of a guard writes.
LEMMA ReportIs ==
    ASSUME NEW d, Empty(d), NEW g, NEW a, NEW b, NEW r, Keeps(g, a, b, r), NEW status,
           NEW err \in BOOLEAN, NEW e, IsReport(e, d, g, status, err)
    PROVE  /\ IsDiag(e)
           /\ e.stats_mode = d.stats_mode /\ e.dump_mode = d.dump_mode /\ e.counter = d.counter
           /\ LinesAre(e.lines,
                       IF records(d.dump_mode, err)
                       THEN IF g.response = <<>> THEN 2 ELSE 3 ELSE 0,
                       IF records(d.stats_mode, err) THEN 1 ELSE 0, 0,
                       IF status = None THEN 0 ELSE status, err, a, b, r.body)
<1> DEFINE l == deferred_dumps(g, status)
           f == record_dumps(d, l, err)
           line == stats_line(g.id, IF status = None THEN 0 ELSE status, err)
           n == IF records(d.dump_mode, err) THEN IF g.response = <<>> THEN 2 ELSE 3 ELSE 0
           s == IF records(d.stats_mode, err) THEN 1 ELSE 0
<1>0. /\ IsDiag(d) /\ d.lines = <<>> /\ g.id = 0 /\ g.finished = FALSE
      /\ g.ingress = <<a>> /\ g.egress = <<b>> /\ g.response \in {<<>>, <<r>>}
  BY DEF Empty, Keeps
<1>1. e = record_stats(f, line)
  BY <1>0 DEF report, IsReport
<1>2. /\ Text(l) /\ Len(l) = IF g.response = <<>> THEN 2 ELSE 3
      /\ l[1] = dump_line(0, "ingress", "request", status, a)
      /\ l[2] = dump_line(0, "egress", "request", status, b)
      /\ g.response # <<>> => l[3] = dump_line(0, "egress", "response", r.status, r.body)
  <2>0. l = deferred_dumps(g, status)
    OBVIOUS
  <2> HIDE DEF l
  <2>1. Text(l) /\ Len(l) = IF g.response = <<>> THEN 2 ELSE 3
    <3>1. Text(l)
      BY <1>0, <2>0, DeferredAre
    <3>2. Len(l) = IF g.response = <<>> THEN 2 ELSE 3
      BY <1>0, <2>0, DeferredAre
    <3> QED
      BY <3>1, <3>2
  <2>2. /\ l[1] = dump_line(0, "ingress", "request", status, a)
        /\ l[2] = dump_line(0, "egress", "request", status, b)
    BY <1>0, <2>0, DeferredAre
  <2>3. g.response # <<>> => l[3] = dump_line(0, "egress", "response", r.status, r.body)
    BY <1>0, <2>0, DeferredAre
  <2> QED
    BY <2>1, <2>2, <2>3
<1> HIDE DEF l
<1>3. Text(d.lines) /\ Len(d.lines) = 0
  BY <1>0, ShortTexts
<1>4. /\ IsDiag(f) /\ f.stats_mode = d.stats_mode /\ f.dump_mode = d.dump_mode
      /\ f.counter = d.counter
      /\ Text(f.lines) /\ Len(f.lines) = n
      /\ \A i \in 1 .. n : f.lines[i] = l[i]
  <2> DEFINE m == IF g.response = <<>> THEN 2 ELSE 3
  <2>1. n = (IF records(d.dump_mode, err) THEN m ELSE 0) /\ n \in Nat /\ m \in Nat
        /\ Len(l) = m
    BY <1>2
  <2> HIDE DEF f, n, m
  <2>2. Text(l) /\ f = record_dumps(d, l, err)
    BY <1>2 DEF f
  <2>3. /\ IsDiag(f) /\ f.stats_mode = d.stats_mode /\ f.dump_mode = d.dump_mode
        /\ f.counter = d.counter
        /\ Text(f.lines) /\ Len(f.lines) = 0 + n
        /\ \A i \in 1 .. n : f.lines[0 + i] = l[i]
    BY <1>0, <1>3, <2>1, <2>2, DumpsAfter
  <2> QED
    BY <2>1, <2>3
<1> HIDE DEF f
<1>5. line.error = err
  BY DEF stats_line
<1>7. /\ IsDiag(e) /\ e.stats_mode = d.stats_mode /\ e.dump_mode = d.dump_mode
      /\ e.counter = d.counter
      /\ Text(e.lines) /\ Len(e.lines) = n + s
      /\ \A i \in 1 .. n : e.lines[i] = f.lines[i]
      /\ s = 1 => e.lines[n + 1] = line
  <2>1. /\ s = (IF records(f.stats_mode, err) THEN 1 ELSE 0) /\ s \in Nat /\ n \in Nat
        /\ IsDiag(f) /\ Text(f.lines) /\ Len(f.lines) = n
    BY <1>4
  <2> HIDE DEF line, s, n
  <2>2. /\ IsDiag(e) /\ e.stats_mode = f.stats_mode /\ e.dump_mode = f.dump_mode
        /\ e.counter = f.counter
        /\ Text(e.lines) /\ Len(e.lines) = n + s
        /\ \A i \in 1 .. n : e.lines[i] = f.lines[i]
        /\ s = 1 => e.lines[n + 1] = line
    BY <1>1, <1>5, <2>1, StatsAfter
  <2> QED
    BY <1>4, <2>2
<1>8. IsDiag(e) /\ e.stats_mode = d.stats_mode /\ e.dump_mode = d.dump_mode
      /\ e.counter = d.counter
  BY <1>7
<1>9. line = stats_line(0, IF status = None THEN 0 ELSE status, err)
  BY <1>0
<1>10. /\ n \in {0, 2, 3} /\ s \in {0, 1}
       /\ n = 3 => g.response # <<>>
  BY <1>0
<1> HIDE DEF line, n, s
<1>11. \A i \in 1 .. n : e.lines[i] = l[i]
  BY <1>4, <1>7
<1>12. LinesAre(e.lines, n, s, 0, IF status = None THEN 0 ELSE status, err, a, b, r.body)
  <2>1. /\ n >= 1 => e.lines[1] = l[1]
        /\ n >= 2 => e.lines[2] = l[2]
        /\ n = 3 => e.lines[3] = l[3]
    BY <1>10, <1>11
  <2>2. Len(e.lines) = n + s + 0
    BY <1>7, <1>10
  <2>3. s = 1 => e.lines[n + 1] = stats_line(0, IF status = None THEN 0 ELSE status, err)
    BY <1>7, <1>9
  <2> QED
    BY <1>2, <1>7, <1>10, <2>1, <2>2, <2>3 DEF LinesAre
<1> QED
  BY <1>8, <1>12 DEF n, s

-----------------------------------------------------------------------------
(* What the lines of a call say *)

\* Calls that leave no line of statistics: those that go on, are refused or taken
\* over by other components, and those of which ReportedOnce claims nothing.
unrecorded == ~ended \/ unclaimed

shown_status == IF phase = "gone" /\ ~relayed THEN 0 ELSE answer.status

Truthful(body) ==
    IF streamed
    THEN /\ IsPrefix(body, stream_bytes(upstream)) /\ Len(body) <= DumpLimit
         /\ phase = "done" /\ wire = <<>> =>
                Len(body) = Min({DumpLimit, Len(stream_bytes(upstream))})
    ELSE body \in {upstream.body.text, ""}

Told ==
    \E n \in 0 .. 3, s \in {0, 1}, x \in {0, 1} : \E first, third :
        /\ LinesAre(diag.lines, n, s, x, shown_status, failed, first, sent.body, third)
        /\ unrecorded /\ phase # "relay" => s = 0
        /\ ~unrecorded => (s = 1) = records(diag.stats_mode, failed)
        /\ n >= 1 => /\ records(diag.dump_mode, failed)
                     /\ guard.id = None \/ passthrough => first = req.fields
        /\ n = 3 \/ x = 1 => Truthful(third)
        /\ diag.dump_mode = "all" /\ phase = "done" /\ upstream # None
              /\ answer.status # 502 => n + x = 3

\* Lines of this form are what the two properties ask for.
LEMMA ToldIs == Told => ReportedOnce /\ DumpsTellTheTruth
<1> SUFFICES ASSUME Told PROVE ReportedOnce /\ DumpsTellTheTruth
  OBVIOUS
<1>pick. PICK n \in 0 .. 3, s \in {0, 1}, x \in {0, 1} : \E first, third :
        /\ LinesAre(diag.lines, n, s, x, shown_status, failed, first, sent.body, third)
        /\ unrecorded /\ phase # "relay" => s = 0
        /\ ~unrecorded => (s = 1) = records(diag.stats_mode, failed)
        /\ n >= 1 => /\ records(diag.dump_mode, failed)
                     /\ guard.id = None \/ passthrough => first = req.fields
        /\ n = 3 \/ x = 1 => Truthful(third)
        /\ diag.dump_mode = "all" /\ phase = "done" /\ upstream # None
              /\ answer.status # 502 => n + x = 3
  BY DEF Told
<1>1. PICK first, third :
        /\ LinesAre(diag.lines, n, s, x, shown_status, failed, first, sent.body, third)
        /\ unrecorded /\ phase # "relay" => s = 0
        /\ ~unrecorded => (s = 1) = records(diag.stats_mode, failed)
        /\ n >= 1 => /\ records(diag.dump_mode, failed)
                     /\ guard.id = None \/ passthrough => first = req.fields
        /\ n = 3 \/ x = 1 => Truthful(third)
        /\ diag.dump_mode = "all" /\ phase = "done" /\ upstream # None
              /\ answer.status # 502 => n + x = 3
  BY <1>pick
<1> DEFINE l == diag.lines
<1>2. /\ x = 1 => n = 2
      /\ DOMAIN l = 1 .. (n + s + x)
      /\ n >= 1 => \E st : l[1] = dump_line(0, "ingress", "request", st, first)
      /\ n >= 2 => \E st : l[2] = dump_line(0, "egress", "request", st, sent.body)
      /\ n = 3 => \E st : l[3] = dump_line(0, "egress", "response", st, third)
      /\ s = 1 => l[n + 1] = stats_line(0, shown_status, failed)
      /\ x = 1 => \E st : l[n + s + 1] = dump_line(0, "egress", "response", st, third)
  BY <1>1, TextIs DEF LinesAre
<1> HIDE DEF l
\* Every line is one of them.
<1>3. \A i \in DOMAIN l :
         \/ i = 1 /\ n >= 1
         \/ i = 2 /\ n >= 2
         \/ i = 3 /\ n = 3
         \/ i = n + 1 /\ s = 1
         \/ i = n + s + 1 /\ x = 1 /\ n = 2
  BY <1>2
<1>4. \A st, body, a, b :
         /\ dump_line(0, a, b, st, body).kind = "dump"
         /\ dump_line(0, a, b, st, body).id = 0
         /\ dump_line(0, a, b, st, body).stage = a
         /\ dump_line(0, a, b, st, body).direction = b
         /\ dump_line(0, a, b, st, body).body = body
  BY DEF dump_line
<1>5. /\ stats_line(0, shown_status, failed).kind = "stats"
      /\ stats_line(0, shown_status, failed).id = 0
      /\ stats_line(0, shown_status, failed).status = shown_status
      /\ stats_line(0, shown_status, failed).error = failed
  BY DEF stats_line
<1> DEFINE Is(i, stage, direction, body) ==
               /\ l[i].kind = "dump" /\ l[i].id = 0 /\ l[i].stage = stage
               /\ l[i].direction = direction /\ l[i].body = body
           t == n + s + 1
<1>6. /\ n >= 1 => Is(1, "ingress", "request", first)
      /\ n >= 2 => Is(2, "egress", "request", sent.body)
      /\ n = 3 => Is(3, "egress", "response", third)
      /\ x = 1 => Is(t, "egress", "response", third)
  BY <1>2, <1>4
<1>7. s = 1 => /\ l[n + 1].kind = "stats" /\ l[n + 1].id = 0
               /\ l[n + 1].status = shown_status /\ l[n + 1].error = failed
  BY <1>2, <1>5
<1> DEFINE S == {i \in DOMAIN l : l[i].kind = "stats"}
<1>8. S = IF s = 1 THEN {n + 1} ELSE {}
  <2>1. s = 1 => n + 1 \in DOMAIN l
    BY <1>2
  <2> QED
    BY <1>3, <1>6, <1>7, <2>1
<1>9. /\ dumped(1) = IF n >= 1 THEN {1} ELSE {}
      /\ dumped(2) = IF n >= 2 THEN {2} ELSE {}
      /\ dumped(3) = IF n = 3 THEN {3} ELSE IF x = 1 THEN {t} ELSE {}
  <2>1. /\ n >= 1 => 1 \in DOMAIN l
        /\ n >= 2 => 2 \in DOMAIN l
        /\ n = 3 => 3 \in DOMAIN l
        /\ x = 1 => t \in DOMAIN l /\ n = 2
    BY <1>2
  <2>2. Dumps[1] = <<"ingress", "request">> /\ Dumps[2] = <<"egress", "request">>
        /\ Dumps[3] = <<"egress", "response">>
    BY DEF Dumps
  <2>3. \A k : dumped(k) = {i \in DOMAIN l : l[i].kind = "dump"
                                /\ <<l[i].stage, l[i].direction>> = Dumps[k]}
    BY DEF dumped, is_dump, l
  <2>4. /\ dumped(1) = {i \in DOMAIN l : /\ l[i].kind = "dump"
                                         /\ l[i].stage = "ingress" /\ l[i].direction = "request"}
        /\ dumped(2) = {i \in DOMAIN l : /\ l[i].kind = "dump"
                                         /\ l[i].stage = "egress" /\ l[i].direction = "request"}
        /\ dumped(3) = {i \in DOMAIN l : /\ l[i].kind = "dump"
                                         /\ l[i].stage = "egress" /\ l[i].direction = "response"}
    BY <2>2, <2>3
  <2> QED
    BY <1>3, <1>6, <1>7, <2>1, <2>4
<1> HIDE DEF S
<1>10. \A i \in DOMAIN l : l[i].kind = "dump" =>
          n + x >= 1 /\ n >= 1 /\ \E k \in 1 .. 3 : i \in dumped(k)
  BY <1>3, <1>6, <1>7, <1>9
<1>11. \A i, j \in DOMAIN l : l[i].id = l[j].id
  BY <1>3, <1>6, <1>7
<1>12. ReportedOnce
  <2>1. \A i, j \in S : i = j
    BY <1>8
  <2>2. ~ended /\ phase # "relay" => S = {}
    BY <1>1, <1>8 DEF unrecorded
  <2>3. ended /\ ~unclaimed => (S # {}) = records(diag.stats_mode, failed)
    BY <1>1, <1>8 DEF unrecorded
  <2>4. \A i \in S : l[i].error = failed /\ l[i].status = shown_status
    BY <1>7, <1>8
  <2> QED
    BY <1>11, <2>1, <2>2, <2>3, <2>4 DEF ReportedOnce, S, l, shown_status
<1>13. DumpsTellTheTruth
  <2>1. \A i \in DOMAIN l : l[i].kind = "dump" =>
           records(diag.dump_mode, failed) /\ \E k \in 1 .. 3 : i \in dumped(k)
    BY <1>1, <1>10
  <2>2. \A k, m \in 1 .. 3 : \A i \in dumped(k), j \in dumped(m) : (i < j) = (k < m)
    <3> SUFFICES ASSUME NEW k \in 1 .. 3, NEW m \in 1 .. 3,
                        NEW i \in dumped(k), NEW j \in dumped(m)
                 PROVE  (i < j) = (k < m)
      OBVIOUS
    <3>1. t \in {3, 4} \/ x # 1
      BY <1>2
    <3>2. i = IF k = 3 /\ n # 3 THEN t ELSE k
      BY <1>9
    <3>3. j = IF m = 3 /\ n # 3 THEN t ELSE m
      BY <1>9
    <3>4. (k = 3 \/ m = 3) => n = 3 \/ x = 1
      BY <1>9
    <3> QED
      BY <3>1, <3>2, <3>3, <3>4
  <2>3. \A i \in dumped(1) :
           guard.id = None \/ passthrough => l[i].body = req.fields
    BY <1>1, <1>6, <1>9
  <2>4. \A i \in dumped(2) : l[i].body = sent.body
    BY <1>6, <1>9
  <2>5. \A i \in dumped(3) : Truthful(l[i].body)
    BY <1>1, <1>6, <1>9
  <2>6. diag.dump_mode = "all" /\ phase = "done" /\ upstream # None
           /\ answer.status # 502 => \A k \in 1 .. 3 : dumped(k) # {}
    <3> SUFFICES ASSUME n + x = 3, NEW k \in 1 .. 3 PROVE dumped(k) # {}
      BY <1>1
    <3>1. n >= 2 /\ (n = 3 \/ x = 1)
      BY <1>2
    <3> QED
      BY <1>9, <3>1
  <2> QED
    BY <2>1, <2>2, <2>3, <2>4, <2>5, <2>6 DEF DumpsTellTheTruth, is_dump, Truthful, l
<1> QED
  BY <1>12, <1>13

\* The guard of a call whose request was sent, before and after it reports.
Open == [id |-> 0, finished |-> FALSE, ingress |-> <<ingress_body(req, route, egress)>>,
         egress |-> <<sent.body>>, response |-> <<>>]
Closed == [id |-> 0, finished |-> TRUE, ingress |-> <<>>, egress |-> <<>>, response |-> <<>>]

Guarded ==
    /\ IsDiag(diag) /\ {diag.stats_mode, diag.dump_mode} \subseteq Modes
    /\ diag.counter \in {0, 1}
    /\ phase \in {"load", "call"} => route = None
    /\ phase = "handler" => ~too_large
    /\ phase \in Before => guard = NoGuard /\ diag.lines = <<>> /\ diag.counter = 0
    /\ phase \in Waiting => guard = Open /\ diag.lines = <<>> /\ diag.counter = 1
    /\ phase = "relay" =>
          /\ guard = Closed
          /\ LinesAre(diag.lines, IF records(diag.dump_mode, FALSE) THEN 2 ELSE 0,
                      IF records(diag.stats_mode, FALSE) THEN 1 ELSE 0, 0, answer.status, FALSE,
                      ingress_body(req, route, egress), sent.body, <<>>)
    /\ phase \in {"done", "failed", "gone"} =>
          (guard = NoGuard /\ sent = None) \/ (guard = Closed /\ HasSent)

\* What is kept of the first k bytes of a stream.
Kept(c, all, k) == c = SubSeq(all, 1, Min({k, DumpLimit}))

\* How much of a stream has arrived, and what of it is kept.
Arrived(k) ==
    LET all == stream_bytes(upstream) IN
    /\ k <= Len(all)
    /\ wire = SubSeq(all, k + 1, Len(all))
    /\ IF phase = "translate" \/ dump_enabled(diag) THEN Kept(capture, all, k)
                                                    ELSE capture = <<>>

Streaming ==
    /\ phase \in Before \union {"send"} => upstream = None
    /\ phase \in {"error_body", "body", "relay", "translate"} =>
          upstream \in Answers[egress] /\ phase_after(upstream) = phase
    /\ phase \in {"relay", "translate"} =>
          /\ \E k \in Nat : Arrived(k)
          /\ answer.status = IF phase = "relay" THEN upstream.status ELSE 200
    /\ phase \notin {"relay", "translate", "done", "failed", "gone"} =>
          line_buf = <<>> /\ capture = <<>>

Sizes ==
    /\ translating \in BOOLEAN
    /\ Text(line_buf)
    /\ Len(capture) <= DumpLimit
    /\ phase # "failed" => Len(line_buf) <= LineLimit
    /\ answer # None => answer.status \in 200 .. 999

PInv == Known /\ Guarded /\ Streaming /\ Sizes /\ Told

-----------------------------------------------------------------------------

\* None is no number.
LEMMA NoneIs == None \notin Nat /\ 0 # None
BY ProxyAssumption

\* A dump of what a handler took the request for.
LEMMA IngressIs ==
    passthrough => ingress_body(req, route, egress) = req.fields
BY DEF ingress_body, passthrough

\* The guard of the call reports, with the answer r if it keeps one.
Reported(g, r, status, err) ==
    /\ g = guard \/ g = [guard EXCEPT !.response = <<r>>]
    /\ IsReport(diag', diag, g, status, err)
    /\ guard' = finished_guard(g)

\* A guard that is finished reports nothing more.
LEMMA FinishIs ==
    ASSUME NEW g, NEW r, g = guard \/ g = [guard EXCEPT !.response = <<r>>], NEW status
    PROVE  /\ Finish(g, status) => Reported(g, r, status, FALSE)
           /\ FinishWithError(g, status) => Reported(g, r, status, TRUE)
           /\ Abort(g) => Reported(g, r, 502, TRUE)
           /\ DropGuard => Reported(guard, r, None, TRUE)
<1>1. ASSUME NEW d, NEW s PROVE report(d, finished_guard(g), s, TRUE) = d
  BY DEF report, finished_guard, NoGuard
<1>2. Finish(g, status) => Reported(g, r, status, FALSE)
  <2>1. Finish(g, status) => diag' = report(diag, g, status, FALSE) /\ guard' = finished_guard(g)
    BY <1>1 DEF Finish, Reports, finish, drop_guard
  <2> QED
    BY <2>1 DEF Reported, IsReport
<1>3. FinishWithError(g, status) => Reported(g, r, status, TRUE)
  <2>1. FinishWithError(g, status) =>
           diag' = report(diag, g, status, TRUE) /\ guard' = finished_guard(g)
    BY <1>1 DEF FinishWithError, Reports, finish_with_error, drop_guard
  <2> QED
    BY <2>1 DEF Reported, IsReport
<1> DEFINE once == report(diag, g, 502, TRUE)
           f == finished_guard(g)
           d == IF passthrough THEN report(once, f, 502, TRUE) ELSE once
<1>4. Abort(g) => diag' = report(d, f, None, TRUE) /\ guard' = f
  BY DEF Abort, Reports, finish_with_error, drop_guard
<1> HIDE DEF once, d
<1>5. d = once /\ report(d, f, None, TRUE) = d
  <2>1. report(once, f, 502, TRUE) = once
    BY <1>1
  <2>2. d = once
    BY <2>1 DEF d
  <2>3. report(d, f, None, TRUE) = d
    BY <1>1
  <2> QED
    BY <2>2, <2>3
<1>6. Abort(g) => Reported(g, r, 502, TRUE)
  <2>1. Abort(g) => diag' = report(diag, g, 502, TRUE) /\ guard' = finished_guard(g)
    BY <1>4, <1>5 DEF once
  <2> QED
    BY <2>1 DEF Reported, IsReport
<1>7. DropGuard => Reported(guard, r, None, TRUE)
  BY DEF DropGuard, drop_guard, Reported, IsReport
<1> QED
  BY <1>2, <1>3, <1>6, <1>7

\* The lines of a guard that reports.
LEMMA ReportsOpen ==
    ASSUME PInv, phase \in Waiting, UNCHANGED <<call, config, sent>>,
           NEW r, NEW g, NEW status, NEW err \in BOOLEAN, Reported(g, r, status, err)
    PROVE  /\ IsDiag(diag') /\ diag'.stats_mode = diag.stats_mode
           /\ diag'.dump_mode = diag.dump_mode /\ diag'.counter = 1
           /\ guard' = Closed
           /\ LinesAre(diag'.lines,
                       IF records(diag.dump_mode, err)
                       THEN IF g.response = <<>> THEN 2 ELSE 3 ELSE 0,
                       IF records(diag.stats_mode, err) THEN 1 ELSE 0, 0,
                       IF status = None THEN 0 ELSE status, err,
                       ingress_body(req, route, egress), sent.body, r.body)
<1> DEFINE a == ingress_body(req, route, egress)
           b == sent.body
<1>1. /\ Empty(diag) /\ guard = Open /\ diag.counter = 1
  BY DEF PInv, Guarded, Empty
<1>2. /\ g = guard \/ g = [guard EXCEPT !.response = <<r>>]
      /\ IsReport(diag', diag, g, status, err) /\ guard' = finished_guard(g)
  BY DEF Reported
<1>3. Keeps(g, a, b, r)
  BY <1>1, <1>2 DEF Open, Keeps
<1>4. guard' = Closed
  <2>1. g.id = 0
    BY <1>3 DEF Keeps
  <2> QED
    BY <1>2, <2>1 DEF finished_guard, NoGuard, Closed
<1> HIDE DEF a, b
<1>5. /\ IsDiag(diag') /\ diag'.stats_mode = diag.stats_mode
      /\ diag'.dump_mode = diag.dump_mode /\ diag'.counter = diag.counter
      /\ LinesAre(diag'.lines,
                  IF records(diag.dump_mode, err)
                  THEN IF g.response = <<>> THEN 2 ELSE 3 ELSE 0,
                  IF records(diag.stats_mode, err) THEN 1 ELSE 0, 0,
                  IF status = None THEN 0 ELSE status, err, a, b, r.body)
  BY <1>1, <1>2, <1>3, ReportIs
<1> QED
  BY <1>1, <1>4, <1>5 DEF a, b

\* A call that left no line and need not leave one.
LEMMA NoLinesTold ==
    diag.lines = <<>> /\ unrecorded /\ (phase = "done" => upstream = None) => Told
<1> SUFFICES ASSUME diag.lines = <<>>, unrecorded, phase = "done" => upstream = None
             PROVE  Told
  OBVIOUS
<1>1. LinesAre(diag.lines, 0, 0, 0, shown_status, failed, <<>>, sent.body, <<>>)
  BY ShortTexts DEF LinesAre
<1> QED
  BY <1>1 DEF Told

-----------------------------------------------------------------------------
(* The bytes of a stream *)

\* A function of the first numbers is a text.
LEMMA FunctionIsText ==
    ASSUME NEW n \in Nat, NEW s, s = [i \in 1 .. n |-> s[i]]
    PROVE  Text(s) /\ Len(s) = n
<1> DEFINE S == {s[i] : i \in 1 .. n}
<1>1. s \in [1 .. n -> S]
  OBVIOUS
<1>2. s \in Seq(S) /\ Len(s) = n
  BY <1>1
<1> QED
  BY <1>2, TextOf

\* The bytes of a stream are a text.
LEMMA BytesAreText ==
    ASSUME NEW a, a.events \in Seq(ToSet(a.events)) PROVE Text(stream_bytes(a))
<1> DEFINE n == 2 * Len(a.events)
           h == halves(a.events)
<1>1. n \in Nat
  OBVIOUS
<1>2. h = [i \in 1 .. n |-> h[i]]
  BY DEF halves
<1> HIDE DEF h, n
<1>3. Text(h)
  BY <1>1, <1>2, FunctionIsText
<1>4. Text(Front(h))
  <2>1. h \in Seq(ToSet(h))
    BY <1>3 DEF Text
  <2>2. Len(h) - 1 \in Int
    BY <2>1
  <2>3. Front(h) \in Seq(ToSet(h))
    BY <2>1, <2>2 DEF Front
  <2> QED
    BY <2>3, TextOf
<1>5. Text(<<[ev |-> NoEvent, half |-> 1]>>)
  BY ShortTexts
<1> QED
  BY <1>3, <1>4, <1>5 DEF stream_bytes, h

\* Replacing characters that were cut leaves a text.
LEMMA LossyIsText == ASSUME NEW s, Text(s) PROVE Text(lossy(s))
<1>1. Len(s) \in Nat /\ DOMAIN s = 1 .. Len(s)
  BY TextIs
<1>2. lossy(s) = [i \in 1 .. Len(s) |-> lossy(s)[i]]
  BY <1>1 DEF lossy
<1> QED
  BY <1>1, <1>2, FunctionIsText

\* What has not arrived yet.
LEMMA RestOfStream ==
    ASSUME NEW all, Text(all), NEW k \in Nat, k <= Len(all),
           NEW n \in Nat, n <= Len(SubSeq(all, k + 1, Len(all)))
    PROVE  LET w == SubSeq(all, k + 1, Len(all)) IN
           /\ k + n <= Len(all) /\ Len(w) = Len(all) - k
           /\ SubSeq(w, n + 1, Len(w)) = SubSeq(all, k + n + 1, Len(all))
           /\ Text(SubSeq(w, 1, n)) /\ Len(SubSeq(w, 1, n)) = n
           /\ \A i \in 1 .. n : SubSeq(w, 1, n)[i] = all[k + i]
<1> DEFINE l == Len(all)
           w == SubSeq(all, k + 1, l)
           v == SubSeq(w, n + 1, Len(w))
           u == SubSeq(all, k + n + 1, l)
           b == SubSeq(w, 1, n)
<1>1. l \in Nat /\ k + 1 \in Nat \ {0}
  BY TextIs
<1>2. /\ Text(w) /\ Len(w) = l - k
      /\ \A i \in 1 .. Len(w) : w[i] = all[(k + 1) + i - 1]
  <2>1. Text(w) /\ Len(w) = (IF k + 1 <= l THEN l - (k + 1) + 1 ELSE 0)
        /\ \A i \in 1 .. Len(w) : w[i] = all[(k + 1) + i - 1]
    BY <1>1, TextSub
  <2> HIDE DEF w
  <2> QED
    BY <1>1, <2>1
<1>3. n <= l - k /\ l - k \in Nat
  BY <1>1, <1>2
<1> HIDE DEF w
<1>4. /\ Text(v) /\ Len(v) = l - k - n
      /\ \A i \in 1 .. Len(v) : v[i] = w[(n + 1) + i - 1]
  <2>1. Text(v) /\ Len(v) = (IF n + 1 <= Len(w) THEN Len(w) - (n + 1) + 1 ELSE 0)
        /\ \A i \in 1 .. Len(v) : v[i] = w[(n + 1) + i - 1]
    BY <1>1, <1>2, <1>3, TextSub
  <2>2. Len(w) = l - k /\ l - k \in Nat /\ n \in Nat /\ n <= l - k
    BY <1>2, <1>3
  <2> HIDE DEF v, l
  <2>3. Len(v) = l - k - n
    BY <2>1, <2>2, <1>1
  <2> QED
    BY <2>1, <2>3
<1>5. /\ Text(u) /\ Len(u) = l - k - n
      /\ \A i \in 1 .. Len(u) : u[i] = all[(k + n + 1) + i - 1]
  <2>1. Text(u) /\ Len(u) = (IF k + n + 1 <= l THEN l - (k + n + 1) + 1 ELSE 0)
        /\ \A i \in 1 .. Len(u) : u[i] = all[(k + n + 1) + i - 1]
    BY <1>1, TextSub
  <2> HIDE DEF u
  <2> QED
    BY <1>1, <1>3, <2>1
<1>6. /\ Text(b) /\ Len(b) = n
      /\ \A i \in 1 .. Len(b) : b[i] = w[1 + i - 1]
  <2>1. Text(b) /\ Len(b) = (IF 1 <= n THEN n - 1 + 1 ELSE 0)
        /\ \A i \in 1 .. Len(b) : b[i] = w[1 + i - 1]
    BY <1>1, <1>2, <1>3, TextSub
  <2> HIDE DEF b
  <2> QED
    BY <2>1
<1> HIDE DEF v, u, b
<1>7. \A i \in 1 .. Len(v) : v[i] = u[i]
  <2> TAKE i \in 1 .. Len(v)
  <2>1. i \in Nat /\ n + i \in 1 .. Len(w) /\ i \in 1 .. Len(u)
    BY <1>1, <1>2, <1>3, <1>4, <1>5
  <2>2. v[i] = w[n + i] /\ w[n + i] = all[k + n + i] /\ u[i] = all[k + n + i]
    <3>1. v[i] = w[(n + 1) + i - 1] /\ (n + 1) + i - 1 = n + i
      BY <1>4, <2>1
    <3>2. w[n + i] = all[(k + 1) + (n + i) - 1] /\ (k + 1) + (n + i) - 1 = k + n + i
      BY <1>2, <2>1
    <3>3. u[i] = all[(k + n + 1) + i - 1] /\ (k + n + 1) + i - 1 = k + n + i
      BY <1>5, <2>1
    <3> QED
      BY <3>1, <3>2, <3>3
  <2> QED
    BY <2>2
<1>8. v = u
  BY <1>4, <1>5, <1>7, TextsAreEqual
<1>9. \A i \in 1 .. n : b[i] = all[k + i]
  <2> TAKE i \in 1 .. n
  <2>1. i \in Nat /\ i \in 1 .. Len(w)
    BY <1>2, <1>3
  <2>2. b[i] = w[1 + i - 1] /\ 1 + i - 1 = i
    BY <1>6, <2>1
  <2>3. w[i] = all[(k + 1) + i - 1] /\ (k + 1) + i - 1 = k + i
    BY <1>2, <2>1
  <2> QED
    BY <2>2, <2>3
<1> QED
  BY <1>1, <1>2, <1>3, <1>6, <1>8, <1>9 DEF w, v, u, b

\* A beginning of a stream.
LEMMA BeginningIs ==
    ASSUME NEW all, Text(all), NEW k \in Nat, k <= Len(all)
    PROVE  LET c == SubSeq(all, 1, k) IN
           /\ Text(c) /\ Len(c) = k /\ \A i \in 1 .. k : c[i] = all[i]
           /\ IsPrefix(c, all)
<1> DEFINE c == SubSeq(all, 1, k)
<1>1. /\ Text(c) /\ Len(c) = (IF 1 <= k THEN k - 1 + 1 ELSE 0)
      /\ \A i \in 1 .. Len(c) : c[i] = all[1 + i - 1]
  BY TextSub
<1> HIDE DEF c
<1>2. Len(c) = k /\ \A i \in 1 .. k : c[i] = all[i]
  BY <1>1
<1> DEFINE d == SubSeq(c, 1, Len(c))
<1>3. /\ Text(d) /\ Len(d) = (IF 1 <= k THEN k - 1 + 1 ELSE 0)
      /\ \A i \in 1 .. Len(d) : d[i] = c[1 + i - 1]
  BY <1>1, <1>2, TextSub
<1> HIDE DEF d
<1>4. d = c
  <2>1. Len(d) = Len(c) /\ \A i \in 1 .. Len(d) : d[i] = c[i]
    BY <1>2, <1>3
  <2> QED
    BY <1>1, <1>3, <2>1, TextsAreEqual
<1>5. IsPrefix(c, all)
  BY <1>2, <1>4 DEF IsPrefix, c, d
<1> QED
  BY <1>1, <1>2, <1>5 DEF c

\* All of a text is the text.
LEMMA WholeIs == ASSUME NEW all, Text(all) PROVE SubSeq(all, 1, Len(all)) = all
<1>1. Len(all) \in Nat
  BY TextIs
<1>2. /\ Text(SubSeq(all, 1, Len(all))) /\ Len(SubSeq(all, 1, Len(all))) = Len(all)
      /\ \A i \in 1 .. Len(all) : SubSeq(all, 1, Len(all))[i] = all[i]
  BY <1>1, BeginningIs
<1> QED
  BY <1>2, TextsAreEqual

Begins(c, all) == \A i \in 1 .. Len(c) : c[i] = all[i]

\* What is kept of a stream is a prefix of it, within the limit.
LEMMA KeptIs ==
    ASSUME NEW all, Text(all), NEW k \in Nat, k <= Len(all), NEW c, Kept(c, all, k)
    PROVE  /\ Min({k, DumpLimit}) = IF k <= DumpLimit THEN k ELSE DumpLimit
           /\ Text(c) /\ Len(c) = Min({k, DumpLimit}) /\ Len(c) <= DumpLimit
           /\ Begins(c, all)
           /\ IsPrefix(c, all)
<1> DEFINE m == Min({k, DumpLimit})
<1>1. DumpLimit \in Nat
  BY ProxyAssumption
<1>2. m = IF k <= DumpLimit THEN k ELSE DumpLimit
  BY <1>1, TwoMin
<1>3. Len(all) \in Nat
  BY TextIs
<1> HIDE DEF m
<1>4. m \in Nat /\ m <= Len(all) /\ m <= DumpLimit
  BY <1>1, <1>2, <1>3
<1>5. c = SubSeq(all, 1, m)
  BY DEF Kept, m
<1>6. Text(c) /\ Len(c) = m /\ (\A i \in 1 .. m : c[i] = all[i]) /\ IsPrefix(c, all)
  BY <1>4, <1>5, BeginningIs
<1> QED
  BY <1>2, <1>4, <1>6 DEF m, Begins

\* The next bytes are kept as long as there is room.
LEMMA CapturedIs ==
    ASSUME NEW all, Text(all), NEW k \in Nat, NEW n \in Nat, k + n <= Len(all),
           NEW b, Text(b), Len(b) = n, \A i \in 1 .. n : b[i] = all[k + i],
           Kept(capture, all, k)
    PROVE  Kept(captured(b), all, k + n)
<1> DEFINE D == DumpLimit
           m == Min({k, D})
           t == capture \o b
           q == Min({Len(t), D})
           u == SubSeq(t, 1, q)
           r == Min({k + n, D})
           v == SubSeq(all, 1, r)
<1>1. D \in Nat /\ Len(all) \in Nat /\ k <= Len(all)
  BY ProxyAssumption, TextIs
<1>2. /\ m = IF k <= D THEN k ELSE D
      /\ Text(capture) /\ Len(capture) = m
      /\ \A i \in 1 .. m : capture[i] = all[i]
  <2>1. Min({k, DumpLimit}) = IF k <= DumpLimit THEN k ELSE DumpLimit
    BY <1>1, KeptIs
  <2>2. Text(capture)
    BY <1>1, KeptIs
  <2>3. Len(capture) = Min({k, DumpLimit})
    BY <1>1, KeptIs
  <2>4. Begins(capture, all)
    BY <1>1, KeptIs
  <2>5. \A i \in 1 .. Len(capture) : capture[i] = all[i]
    BY <2>4 DEF Begins
  <2> QED
    BY <2>1, <2>2, <2>3, <2>5
<1> HIDE DEF m
<1>3. m \in Nat
  BY <1>1, <1>2
<1>4. Joined(t, capture, b)
  BY DEF Joined
<1>5. captured(b) = u
  BY DEF captured
<1> HIDE DEF t
<1>6. /\ Text(t) /\ Len(t) = m + n
      /\ \A i \in 1 .. m : t[i] = capture[i]
      /\ \A i \in 1 .. n : t[m + i] = b[i]
  <2>1. Text(t)
    BY <1>2, <1>3, <1>4, JoinedIs
  <2>2. Len(t) = m + n
    BY <1>2, <1>3, <1>4, JoinedIs
  <2>3. \A i \in 1 .. m : t[i] = capture[i]
    BY <1>2, <1>3, <1>4, JoinedIs
  <2>4. \A i \in 1 .. n : t[m + i] = b[i]
    BY <1>2, <1>3, <1>4, JoinedIs
  <2> QED
    BY <2>1, <2>2, <2>3, <2>4
<1>7. q = IF m + n <= D THEN m + n ELSE D
  <2>1. m + n \in Nat
    BY <1>3
  <2> QED
    BY <1>1, <1>6, <2>1, TwoMin
<1>8. r = IF k + n <= D THEN k + n ELSE D
  BY <1>1, TwoMin
<1> HIDE DEF q, r, D
<1>9. /\ q = r /\ q \in Nat /\ q <= Len(t) /\ q <= Len(all)
      /\ q <= m \/ m = k
  BY <1>1, <1>2, <1>3, <1>6, <1>7, <1>8
<1>10. Text(u) /\ Len(u) = q /\ \A i \in 1 .. q : u[i] = t[i]
  BY <1>6, <1>9, BeginningIs
<1>11. Text(v) /\ Len(v) = q /\ \A i \in 1 .. q : v[i] = all[i]
  BY <1>9, BeginningIs
<1> HIDE DEF u, v
<1>12. \A i \in 1 .. q : t[i] = all[i]
  <2> TAKE i \in 1 .. q
  <2>1. CASE i <= m
    BY <1>2, <1>3, <1>6, <1>9, <2>1
  <2>2. CASE ~(i <= m)
    <3>1. m = k /\ i - k \in 1 .. n /\ k + (i - k) = i
      BY <1>3, <1>6, <1>9, <2>2
    <3>2. t[i] = b[i - k] /\ b[i - k] = all[i]
      <4>1. t[m + (i - k)] = b[i - k]
        BY <1>6, <3>1
      <4>2. b[i - k] = all[k + (i - k)]
        BY <3>1
      <4> QED
        BY <3>1, <4>1, <4>2
    <3> QED
      BY <3>2
  <2> QED
    BY <2>1, <2>2
<1>13. u = v
  BY <1>10, <1>11, <1>12, TextsAreEqual
<1> QED
  BY <1>5, <1>9, <1>13 DEF Kept, v, r, D

-----------------------------------------------------------------------------
(* A call that waits for the provider *)

\* What the answer of the provider is to the client.
LEMMA StreamedIs ==
    ASSUME PInv
    PROVE  /\ phase \in Waiting => ~relayed /\ (streamed <=> phase = "translate")
           /\ phase = "relay" => relayed
           /\ phase \in {"load", "call", "handler"} => ~relayed
           /\ phase \in {"error_body", "body", "relay", "translate"} =>
                 upstream # None /\ upstream.status \in 200 .. 999
                 /\ Text(stream_bytes(upstream))
<1>1. phase \in Before \union {"send"} => upstream = None
  BY DEF PInv, Streaming
<1>2. phase \in {"error_body", "body", "relay", "translate"} =>
         /\ upstream \in Answers[egress] /\ phase_after(upstream) = phase
         /\ egress \in {"openai", "anthropic"}
  BY DEF PInv, Streaming, Known, HasSent, Routed, Waiting
<1>3. phase \in {"error_body", "body", "relay", "translate"} =>
         /\ upstream # None /\ upstream.status \in 200 .. 999
         /\ upstream.events \in Seq(ToSet(upstream.events))
  BY <1>2, ProxyAssumption
<1>4. phase \in {"error_body", "body", "relay", "translate"} =>
         Text(stream_bytes(upstream))
  BY <1>3, BytesAreText
<1>5. phase_after(upstream) = "relay" => passthrough
  BY DEF phase_after
<1>6. phase_after(upstream) = "translate" => ~passthrough
  BY DEF phase_after
<1>7. phase \in Waiting => ~relayed /\ (streamed <=> phase = "translate")
  BY <1>1, <1>2, <1>3, <1>6 DEF relayed, streamed, Waiting
<1>8. phase = "relay" => relayed
  BY <1>2, <1>3, <1>5 DEF relayed, streamed
<1>9. phase \in {"load", "call", "handler"} => ~relayed
  BY <1>1 DEF relayed, streamed, Before
<1> QED
  BY <1>3, <1>4, <1>7, <1>8, <1>9

\* How an answer is passed on depends on these alone.
LEMMA StillStreamed ==
    ASSUME UNCHANGED <<call, upstream>>
    PROVE  /\ streamed' = streamed /\ relayed' = relayed
           /\ stream_bytes(upstream)' = stream_bytes(upstream)
BY DEF call, streamed, relayed, phase_after, passthrough, egress, stream_bytes

\* A call that ends with the report of its guard.
LEMMA EndTold ==
    ASSUME PInv, Known', phase \in Waiting, UNCHANGED <<call, config, sent, upstream>>,
           phase' \in {"done", "failed", "gone"},
           NEW r, NEW g, NEW status, NEW err \in BOOLEAN, Reported(g, r, status, err),
           failed' = err, shown_status' = IF status = None THEN 0 ELSE status,
           g.response # <<>> => Truthful(r.body)',
           phase' = "done" /\ upstream # None /\ answer'.status # 502 => g.response # <<>>
    PROVE  Guarded' /\ Told'
<1> DEFINE n == IF records(diag.dump_mode, err)
                THEN IF g.response = <<>> THEN 2 ELSE 3 ELSE 0
           s == IF records(diag.stats_mode, err) THEN 1 ELSE 0
           a == ingress_body(req, route, egress)
<1>1. /\ IsDiag(diag') /\ diag'.stats_mode = diag.stats_mode
      /\ diag'.dump_mode = diag.dump_mode /\ diag'.counter = 1
      /\ guard' = Closed
  BY ReportsOpen
<1>2. LinesAre(diag'.lines, n, s, 0, IF status = None THEN 0 ELSE status, err,
               a, sent.body, r.body)
  BY ReportsOpen
<1>3. HasSent /\ HasSent' /\ (passthrough' <=> passthrough) /\ req' = req /\ sent' = sent
  BY StillSent DEF PInv, Known, call
<1>4. Guarded'
  <2>1. {diag'.stats_mode, diag'.dump_mode} \subseteq Modes
    BY <1>1 DEF PInv, Guarded
  <2> QED
    BY <1>1, <1>3, <2>1 DEF Guarded, Before, Waiting, Closed
<1>5. passthrough => a = req.fields
  BY <1>3, IngressIs
<1> HIDE DEF a
<1>6. /\ n \in 0 .. 3 /\ s \in {0, 1}
      /\ (s = 1) = records(diag.stats_mode, err)
      /\ n >= 1 => records(diag.dump_mode, err)
      /\ n = 3 => g.response # <<>>
      /\ diag.dump_mode = "all" /\ g.response # <<>> => n = 3
  BY DEF records
<1> HIDE DEF n, s
<1>7. ~unrecorded'
  <2>1. guard'.id = 0 /\ 0 # None
    BY <1>1, NoneIs DEF Closed
  <2> QED
    BY <2>1 DEF unrecorded, ended, unclaimed
<1>8. Told'
  <2>1. LinesAre(diag'.lines, n, s, 0, shown_status', failed', a, sent'.body, r.body)
    BY <1>2, <1>3
  <2>2. (s = 1) = records(diag'.stats_mode, failed')
    BY <1>1, <1>6
  <2>3. n >= 1 => /\ records(diag'.dump_mode, failed')
                  /\ guard'.id = None \/ passthrough' => a = req'.fields
    <3>1. guard'.id # None
      BY <1>1, NoneIs DEF Closed
    <3> QED
      BY <1>1, <1>3, <1>5, <1>6, <3>1
  <2>4. n = 3 \/ 0 = 1 => Truthful(r.body)'
    BY <1>6
  <2>5. diag'.dump_mode = "all" /\ phase' = "done" /\ upstream' # None
           /\ answer'.status # 502 => n + 0 = 3
    BY <1>1, <1>6
  <2> QED
    BY <1>6, <1>7, <2>1, <2>2, <2>3, <2>4, <2>5 DEF Told
<1> QED
  BY <1>4, <1>8

Final == {"done", "failed", "gone"}

\* A call that ends with the buffers as they were.
LEMMA EndStreams ==
    ASSUME PInv, phase \in Waiting \union {"relay", "call", "handler"}, phase' \in Final,
           UNCHANGED stream, answer' = answer \/ answer'.status \in 200 .. 999
    PROVE  Streaming' /\ Sizes'
<1>1. Streaming'
  BY DEF Streaming, Final, Before
<1>2. Sizes'
  <2>1. line_buf' = line_buf /\ capture' = capture /\ translating' = translating
    BY DEF stream
  <2>2. /\ translating \in BOOLEAN /\ Text(line_buf) /\ Len(capture) <= DumpLimit
        /\ phase # "failed" => Len(line_buf) <= LineLimit
        /\ answer # None => answer.status \in 200 .. 999
    BY DEF PInv, Sizes
  <2>3. phase # "failed"
    BY DEF Waiting
  <2> QED
    BY <2>1, <2>2, <2>3 DEF Sizes, Text
<1> QED
  BY <1>1, <1>2

\* What a dump of a whole body says: the body as far as it was read.
Said(text) == text \in {upstream.body.text, ""}
KeepsWhole(g, r) == g.response # <<>> => Said(r.body)

\* What the two handlers dump of a whole body.
LEMMA SaidIs == Said(upstream.body.text) /\ Said("")
BY Zenon DEF Said

\* A dump of a whole body is the truth.
LEMMA WholeIsTruthful ==
    ASSUME ~streamed', upstream' = upstream, NEW g, NEW r, KeepsWhole(g, r), g.response # <<>>
    PROVE  Truthful(r.body)'
BY Zenon DEF KeepsWhole, Said, Truthful

\* No answer at all, or one that breaks off.
LEMMA NoAnswerTold ==
    ASSUME PInv, Known', phase \in {"send", "body"},
           UNCHANGED <<call, config, sent, upstream, stream>>,
           phase' = "done", answer'.status = 502,
           NEW r, NEW g, Reported(g, r, 502, TRUE),
           KeepsWhole(g, r)
    PROVE  PInv'
<1>1. ~relayed /\ ~streamed /\ phase \in Waiting
  BY StreamedIs DEF Waiting
<1>2. ~relayed' /\ ~streamed' /\ upstream' = upstream
  BY <1>1, StillStreamed
<1>3. failed' = TRUE
  BY <1>2 DEF failed
<1>4. shown_status' = IF 502 = None THEN 0 ELSE 502
  BY NoneIs DEF shown_status
<1>5. g.response # <<>> => Truthful(r.body)'
  BY <1>2, WholeIsTruthful
<1>6. Guarded' /\ Told'
  <2>1. UNCHANGED <<call, config, sent, upstream>> /\ TRUE \in BOOLEAN
        /\ phase' \in {"done", "failed", "gone"}
    OBVIOUS
  <2>2. phase' = "done" /\ upstream # None /\ answer'.status # 502 => g.response # <<>>
    OBVIOUS
  <2>3. Guarded'
    BY <1>1, <1>3, <1>4, <1>5, <2>1, <2>2, EndTold
  <2>4. Told'
    BY <1>1, <1>3, <1>4, <1>5, <2>1, <2>2, EndTold
  <2> QED
    BY <2>3, <2>4
<1>7. Streaming' /\ Sizes'
  BY <1>1, EndStreams DEF Final
<1> QED
  BY <1>6, <1>7 DEF PInv

\* A guard that waits keeps no answer.
LEMMA NothingKept ==
    ASSUME PInv, phase \in Waiting, NEW r PROVE KeepsWhole(guard, r)
BY DEF PInv, Guarded, Open, KeepsWhole

\* The provider could not be reached.
LEMMA SendFailsTold == ASSUME PInv, Known', SendFails PROVE PInv'
<1>1. /\ phase = "send" /\ phase' = "done" /\ answer'.status = 502
      /\ UNCHANGED <<call, config, sent, upstream, stream>>
  BY DEF SendFails, Refused, Answered, AppError
<1>2. Reported(guard, None, 502, TRUE)
  BY FinishIs DEF SendFails
<1>3. KeepsWhole(guard, None)
  BY <1>1, NothingKept DEF Waiting
<1> QED
  BY <1>1, <1>2, <1>3, NoAnswerTold

\* The body breaks off.
LEMMA ReadFailsTold == ASSUME PInv, Known', ReadFails PROVE PInv'
<1>1. /\ phase = "body" /\ phase' = "done" /\ answer'.status = 502
      /\ UNCHANGED <<call, config, sent, upstream, stream>>
  BY DEF ReadFails, Refused, Answered, AppError
<1>2. Reported(guard, None, 502, TRUE)
  BY FinishIs DEF ReadFails
<1>3. KeepsWhole(guard, None)
  BY <1>1, NothingKept DEF Waiting
<1> QED
  BY <1>1, <1>2, <1>3, NoAnswerTold

\* The client is answered with what the provider said.
LEMMA ErrorTold ==
    ASSUME PInv, Known', phase \in {"error_body", "body"},
           UNCHANGED <<call, config, sent, upstream, stream>>, phase' = "done",
           NEW status \in 300 .. 999, answer'.status = status,
           NEW r, NEW g, KeepsWhole(g, r), g.response # <<>>, Reported(g, r, status, TRUE)
    PROVE  PInv'
<1>1. ~relayed /\ ~streamed /\ phase \in Waiting
  BY StreamedIs DEF Waiting
<1>2. ~relayed' /\ ~streamed' /\ upstream' = upstream
  BY <1>1, StillStreamed
<1>3. failed' = TRUE
  BY <1>2 DEF failed
<1>4. shown_status' = IF status = None THEN 0 ELSE status
  BY NoneIs DEF shown_status
<1>5. Truthful(r.body)'
  BY <1>2, WholeIsTruthful
<1>6. Guarded' /\ Told'
  <2>1. UNCHANGED <<call, config, sent, upstream>> /\ TRUE \in BOOLEAN
        /\ phase' \in {"done", "failed", "gone"}
    OBVIOUS
  <2>2. Guarded'
    BY <1>1, <1>3, <1>4, <1>5, <2>1, EndTold
  <2>3. Told'
    BY <1>1, <1>3, <1>4, <1>5, <2>1, EndTold
  <2> QED
    BY <2>2, <2>3
<1>7. Streaming' /\ Sizes'
  BY <1>1, EndStreams DEF Final
<1> QED
  BY <1>6, <1>7 DEF PInv

\* The client is answered with success.
LEMMA AnswerTold ==
    ASSUME PInv, Known', phase = "body",
           UNCHANGED <<call, config, sent, upstream, stream>>, phase' = "done",
           NEW status \in 200 .. 299, answer'.status = status,
           NEW r, NEW g, KeepsWhole(g, r), g.response # <<>>, Reported(g, r, status, FALSE)
    PROVE  PInv'
<1>1. ~relayed /\ ~streamed /\ phase \in Waiting
  BY StreamedIs DEF Waiting
<1>2. ~relayed' /\ ~streamed' /\ upstream' = upstream
  BY <1>1, StillStreamed
<1>3. failed' = FALSE
  BY <1>2 DEF failed
<1>4. shown_status' = IF status = None THEN 0 ELSE status
  BY NoneIs DEF shown_status
<1>5. Truthful(r.body)'
  BY <1>2, WholeIsTruthful
<1>6. Guarded' /\ Told'
  <2>1. UNCHANGED <<call, config, sent, upstream>> /\ FALSE \in BOOLEAN
        /\ phase' \in {"done", "failed", "gone"}
    OBVIOUS
  <2>2. Guarded'
    BY <1>1, <1>3, <1>4, <1>5, <2>1, EndTold
  <2>3. Told'
    BY <1>1, <1>3, <1>4, <1>5, <2>1, EndTold
  <2> QED
    BY <2>2, <2>3
<1>7. Streaming' /\ Sizes'
  BY <1>1, EndStreams DEF Final
<1> QED
  BY <1>6, <1>7 DEF PInv

\* A guard that keeps an answer.
LEMMA DumpIs ==
    ASSUME PInv, phase \in Waiting, NEW status, NEW body
    PROVE  /\ response_dump(guard, status, body) =
                 [guard EXCEPT !.response = <<[status |-> status, body |-> body]>>]
           /\ response_dump(guard, status, body).response # <<>>
           /\ [status |-> status, body |-> body].body = body
BY DEF response_dump, PInv, Guarded, Open

\* An error of the provider is passed on.
LEMMA ReadErrorBodyTold == ASSUME PInv, Known', ReadErrorBody PROVE PInv'
<1>1. /\ phase = "error_body" /\ phase' = "done" /\ phase \in Waiting
      /\ UNCHANGED <<call, config, sent, upstream, stream>>
  BY DEF ReadErrorBody, Waiting
<1> DEFINE st == upstream.status
           g(body) == response_dump(guard, st, body.text)
           Read(body) == FinishWithError(g(body), st)
                            /\ Answered(st, apply_error_translation(st, body,
                                                                    config.error_translation))
<1>2. \E body \in {upstream.body, [text |-> "", says |-> {}]} : Read(body)
  BY DEF ReadErrorBody
<1> HIDE DEF Read
<1>3. PICK body : body \in {upstream.body, [text |-> "", says |-> {}]} /\ Read(body)
  BY <1>2
<1>4. FinishWithError(g(body), st) /\ answer'.status = st
  BY <1>3 DEF Read, Answered
<1> DEFINE r == [status |-> st, body |-> body.text]
<1>5. /\ g(body) = [guard EXCEPT !.response = <<r>>] /\ g(body).response # <<>>
      /\ r.body = body.text
  BY <1>1, DumpIs
<1>6. st \in 300 .. 999
  <2>1. st \in 200 .. 999 /\ phase_after(upstream) = "error_body"
    BY <1>1, StreamedIs DEF PInv, Streaming
  <2>2. ~is_success(upstream)
    BY <2>1 DEF phase_after
  <2> QED
    BY <2>1, <2>2 DEF is_success
<1>7. KeepsWhole(g(body), r)
  <2>1. Said(body.text)
    <3>1. CASE body = upstream.body
      BY <3>1, SaidIs
    <3>2. CASE body = [text |-> "", says |-> {}]
      <4>1. body.text = ""
        BY <3>2, Zenon
      <4> QED
        BY <4>1, SaidIs, Zenon
    <3> QED
      BY <1>3, <3>1, <3>2, Zenon
  <2> QED
    BY <1>5, <2>1 DEF KeepsWhole
<1> HIDE DEF r, g
<1>8. Reported(g(body), r, st, TRUE)
  BY <1>4, <1>5, FinishIs
<1> QED
  BY <1>1, <1>4, <1>5, <1>6, <1>7, <1>8, ErrorTold

\* A whole body is passed on.
LEMMA RelayBodyTold == ASSUME PInv, Known', RelayBody PROVE PInv'
<1> DEFINE st == upstream.status
           g == response_dump(guard, st, upstream.body.text)
           r == [status |-> st, body |-> upstream.body.text]
<1>1. /\ phase = "body" /\ phase' = "done" /\ passthrough /\ phase \in Waiting
      /\ UNCHANGED <<call, config, sent, upstream, stream>>
  BY DEF RelayBody, Waiting
<1>2. st \in 200 .. 299
  <2>1. st \in 200 .. 999 /\ phase_after(upstream) = "body"
    BY <1>1, StreamedIs DEF PInv, Streaming
  <2>2. is_success(upstream)
    BY <1>1, <2>1 DEF phase_after
  <2> QED
    BY <2>1, <2>2 DEF is_success
<1>3. g = [guard EXCEPT !.response = <<r>>] /\ g.response # <<>>
      /\ KeepsWhole(g, r)
  <2>1. g = [guard EXCEPT !.response = <<r>>] /\ g.response # <<>>
        /\ r.body = upstream.body.text
    BY <1>1, DumpIs
  <2>2. Said(r.body)
    BY <2>1, SaidIs
  <2> QED
    BY <2>1, <2>2 DEF KeepsWhole
<1>4. /\ upstream.format # "bytes" => Finish(g, st) /\ answer'.status = st
      /\ upstream.format = "bytes" => Abort(g) /\ answer'.status = 502
  BY DEF RelayBody, Refused, Answered, AppError
<1> HIDE DEF r, g
<1>5. CASE upstream.format # "bytes"
  <2>1. Reported(g, r, st, FALSE)
    BY <1>3, <1>4, <1>5, FinishIs
  <2> QED
    BY <1>1, <1>2, <1>3, <1>4, <1>5, <2>1, AnswerTold
<1>6. CASE upstream.format = "bytes"
  <2>1. Reported(g, r, 502, TRUE)
    BY <1>3, <1>4, <1>6, FinishIs
  <2> QED
    BY <1>1, <1>3, <1>4, <1>6, <2>1, NoAnswerTold
<1> QED
  BY <1>5, <1>6

\* A whole body is converted.
LEMMA ConvertBodyTold == ASSUME PInv, Known', ConvertBody PROVE PInv'
<1> DEFINE g == response_dump(guard, 200, upstream.body.text)
           r == [status |-> 200, body |-> upstream.body.text]
<1>0. PICK st \in 200 .. 299 : st = 200
  OBVIOUS
<1>1. /\ phase = "body" /\ phase' = "done" /\ phase \in Waiting
      /\ UNCHANGED <<call, config, sent, upstream, stream>>
  BY DEF ConvertBody, Waiting
<1>2. /\ upstream.format = "json" => Finish(g, 200) /\ answer'.status = 200
      /\ upstream.format # "json" => Abort(guard) /\ answer'.status = 502
  BY DEF ConvertBody, Refused, Answered, AppError
<1>3. g = [guard EXCEPT !.response = <<r>>] /\ g.response # <<>>
      /\ KeepsWhole(g, r)
  <2>1. g = [guard EXCEPT !.response = <<r>>] /\ g.response # <<>>
        /\ r.body = upstream.body.text
    BY <1>1, DumpIs
  <2>2. Said(r.body)
    BY <2>1, SaidIs
  <2> QED
    BY <2>1, <2>2 DEF KeepsWhole
<1> HIDE DEF r, g
<1>4. CASE upstream.format = "json"
  <2>1. Finish(g, st) /\ answer'.status = st
    BY <1>0, <1>2, <1>4
  <2>2. Reported(g, r, st, FALSE)
    BY <1>3, <2>1, FinishIs
  <2> QED
    BY <1>1, <1>3, <2>1, <2>2, AnswerTold
<1>5. CASE upstream.format # "json"
  <2>1. Abort(guard) /\ answer'.status = 502
    BY <1>2, <1>5
  <2>2. Reported(guard, None, 502, TRUE)
    BY <2>1, FinishIs
  <2>3. KeepsWhole(guard, None)
    BY <1>1, NothingKept
  <2> QED
    BY <1>1, <2>1, <2>2, <2>3, NoAnswerTold
<1> QED
  BY <1>4, <1>5

\* The client goes while something is awaited.
LEMMA ClientGoneTold == ASSUME PInv, Known', ClientGone PROVE PInv'
<1>1. /\ phase \in Waiting /\ phase' = "gone"
      /\ UNCHANGED <<call, config, sent, upstream, answer, out, stream>>
  BY DEF ClientGone, Waiting
<1>2. Reported(guard, None, None, TRUE)
  BY FinishIs DEF ClientGone
<1>3. ~relayed
  BY <1>1, StreamedIs
<1>4. UNCHANGED <<call, upstream>> /\ UNCHANGED <<call, config, sent, upstream>>
      /\ UNCHANGED stream /\ answer' = answer
  BY <1>1
<1>5. ~relayed'
  BY <1>3, <1>4, StillStreamed
<1>6. failed' = TRUE
  BY <1>1, <1>5 DEF failed
<1>7. shown_status' = IF None = None THEN 0 ELSE None
  BY <1>1, <1>5 DEF shown_status
<1>8. guard.response = <<>>
  BY <1>1 DEF PInv, Guarded, Open
<1>9. Guarded' /\ Told'
  <2>1. TRUE \in BOOLEAN /\ phase' \in {"done", "failed", "gone"} /\ phase' # "done"
    BY <1>1
  <2>2. Guarded'
    BY <1>1, <1>2, <1>4, <1>6, <1>7, <1>8, <2>1, EndTold
  <2>3. Told'
    BY <1>1, <1>2, <1>4, <1>6, <1>7, <1>8, <2>1, EndTold
  <2> QED
    BY <2>2, <2>3
<1>10. Streaming' /\ Sizes'
  BY <1>1, <1>4, EndStreams DEF Final
<1> QED
  BY <1>9, <1>10 DEF PInv

-----------------------------------------------------------------------------
(* Before anything is sent *)

\* Nothing of the stream, and nothing of the answer of the provider.
LEMMA StillNoStream ==
    ASSUME PInv, phase \in {"load", "call", "handler"}, UNCHANGED <<upstream, stream>>,
           phase' \notin {"error_body", "body", "relay", "translate"},
           answer' = answer \/ answer'.status \in 200 .. 999
    PROVE  Streaming' /\ Sizes' /\ upstream' = None
<1>1. upstream' = None
  BY DEF PInv, Streaming, Before
<1>2. line_buf' = <<>> /\ capture' = <<>>
  BY DEF PInv, Streaming, stream
<1>3. Streaming'
  BY <1>1, <1>2 DEF Streaming
<1>4. Text(line_buf)' /\ Len(line_buf') = 0 /\ Len(capture') = 0
  BY <1>2, ShortTexts
<1>5. Sizes'
  BY <1>4, ProxyAssumption DEF PInv, Sizes, stream
<1> QED
  BY <1>1, <1>3, <1>5

\* The same as NoLinesTold after a step.
LEMMA NoLinesToldNext ==
    ASSUME diag'.lines = <<>>, unrecorded', phase' = "done" => upstream' = None
    PROVE  Told'
<1>1. LinesAre(diag'.lines, 0, 0, 0, shown_status', failed', <<>>, sent'.body, <<>>)
  BY ShortTexts DEF LinesAre
<1> QED
  BY <1>1 DEF Told

\* Calls that leave nothing.
LEMMA SilentTold ==
    ASSUME PInv, Known', phase \in {"load", "call", "handler"}, UNCHANGED <<upstream, stream>>,
           phase' \in Before \union {"done"}, guard' = guard, sent' = sent,
           answer' = answer \/ answer'.status \in 200 .. 999,
           diag' = [diag EXCEPT !.stats_mode = diag'.stats_mode, !.dump_mode = diag'.dump_mode],
           {diag'.stats_mode, diag'.dump_mode} \subseteq Modes,
           phase' \in {"load", "call"} => route' = None,
           phase' = "handler" => ~too_large',
           unrecorded'
    PROVE  PInv'
<1>1. Streaming' /\ Sizes' /\ upstream' = None
  BY StillNoStream DEF Before
<1>2. IsDiag(diag) /\ diag.lines = <<>> /\ diag.counter = 0 /\ guard = NoGuard /\ sent = None
  BY DEF PInv, Guarded, Known, Before
<1>3. diag' = [stats_mode |-> diag'.stats_mode, dump_mode |-> diag'.dump_mode,
               counter |-> 0, lines |-> <<>>]
  BY <1>2, ZenonT(60) DEF IsDiag
<1>4. IsDiag(diag') /\ diag'.lines = <<>> /\ diag'.counter = 0
  BY <1>3 DEF IsDiag
<1>5. Guarded'
  <2>1. guard' = NoGuard /\ sent' = None
    BY <1>2
  <2>2. phase' \notin Waiting \union {"relay", "failed", "gone"}
    BY DEF Before, Waiting
  <2> QED
    BY <1>4, <2>1, <2>2 DEF Guarded
<1>6. Told'
  BY <1>1, <1>4, NoLinesToldNext
<1> QED
  BY <1>1, <1>5, <1>6 DEF PInv

\* The modes of the diagnostics are those of the file.
LEMMA LoadTold == ASSUME PInv, Known', Load PROVE PInv'
<1>1. /\ phase = "load" /\ phase' \in {"call", "refused"}
      /\ UNCHANGED <<raw, req, route, guard, sent, upstream, answer, out, stream>>
      /\ diag' = [diag EXCEPT !.stats_mode = raw.diagnostics.stats_mode,
                              !.dump_mode = raw.diagnostics.dump_mode]
  BY DEF Load
<1>2. /\ IsDiag(diag) /\ route = None
      /\ {raw.diagnostics.stats_mode, raw.diagnostics.dump_mode} \subseteq Modes
  BY <1>1 DEF PInv, Guarded, Known, is_file
<1>3. diag'.stats_mode = raw.diagnostics.stats_mode /\ diag'.dump_mode = raw.diagnostics.dump_mode
  BY <1>1, <1>2 DEF IsDiag
<1>4. unrecorded'
  BY <1>1 DEF unrecorded, ended, unclaimed
<1>5. /\ UNCHANGED <<upstream, stream>> /\ guard' = guard /\ sent' = sent /\ answer' = answer
      /\ phase \in {"load", "call", "handler"} /\ phase' \in Before \union {"done"}
      /\ phase' # "handler" /\ route' = None
      /\ diag' = [diag EXCEPT !.stats_mode = diag'.stats_mode, !.dump_mode = diag'.dump_mode]
      /\ {diag'.stats_mode, diag'.dump_mode} \subseteq Modes
  BY <1>1, <1>2, <1>3 DEF Before
<1> QED
  BY <1>4, <1>5, SilentTold

\* The modes stay as they are.
LEMMA SameDiag ==
    ASSUME PInv, diag' = diag
    PROVE  /\ diag' = [diag EXCEPT !.stats_mode = diag'.stats_mode, !.dump_mode = diag'.dump_mode]
           /\ {diag'.stats_mode, diag'.dump_mode} \subseteq Modes
BY DEF PInv, Guarded, IsDiag

\* A body that is too large leaves nothing.
LEMMA TooLargeTold == ASSUME PInv, Known', TooLarge PROVE PInv'
<1>1. /\ phase = "call" /\ phase' = "done" /\ too_large /\ answer'.status = 413
      /\ UNCHANGED <<call, config, guard, diag, sent, upstream, out, stream>>
  BY DEF TooLarge, Answered
<1>2. guard.id = None
  BY <1>1 DEF PInv, Guarded, Before, NoGuard
<1>3. unrecorded'
  BY <1>1, <1>2 DEF unrecorded, ended, unclaimed, too_large, call
<1>4. /\ UNCHANGED <<upstream, stream>> /\ guard' = guard /\ sent' = sent
      /\ phase \in {"load", "call", "handler"} /\ phase' \in Before \union {"done"}
      /\ phase' # "handler" /\ phase' \notin {"load", "call"} /\ answer'.status \in 200 .. 999
  BY <1>1 DEF Before
<1>5. diag' = diag
  BY <1>1
<1> QED
  BY <1>3, <1>4, <1>5, SameDiag, SilentTold

\* A call that gets its handler has left nothing yet.
LEMMA DispatchTold == ASSUME PInv, Known', Dispatch PROVE PInv'
<1>1. /\ phase = "call" /\ ~too_large /\ phase' \in {"handler", "interactions"}
      /\ UNCHANGED <<raw, config, req, guard, diag, sent, upstream, answer, out, stream>>
  BY DEF Dispatch
<1>2. ~too_large'
  BY <1>1 DEF too_large
<1>3. unrecorded'
  BY <1>1 DEF unrecorded, ended, unclaimed
<1>4. /\ UNCHANGED <<upstream, stream>> /\ guard' = guard /\ sent' = sent /\ answer' = answer
      /\ phase \in {"load", "call", "handler"} /\ phase' \in Before \union {"done"}
      /\ phase' \notin {"load", "call"}
  BY <1>1 DEF Before
<1>5. diag' = diag
  BY <1>1
<1> QED
  BY <1>2, <1>3, <1>4, <1>5, SameDiag, SilentTold

\* One line, and a dump of the body if there is one, under a new identity.
IsReject(e, d, body, err) ==
    e = record_stats(record_dumps(with_new_id(d),
                                  <<dump_line(0, "ingress", "request", None, body)>>, err),
                     stats_line(0, 400, err))
IsUndumped(e, d, err) == e = record_stats(with_new_id(d), stats_line(0, 400, err))

\* One line is written under a mode, or none.
Counted(n, mode, err) == n = IF records(mode, err) THEN 1 ELSE 0

\* One line or none.
LEMMA CountedIs ==
    ASSUME NEW mode, NEW err, NEW n, Counted(n, mode, err)
    PROVE  n \in {0, 1} /\ (n = 1 => records(mode, err)) /\ ((n = 1) = records(mode, err))
BY DEF Counted, records

\* The first identity.
LEMMA NewIdIs ==
    ASSUME NEW d, Empty(d), d.counter = 0, NEW f, f = with_new_id(d)
    PROVE  /\ IsDiag(f) /\ f.stats_mode = d.stats_mode /\ f.dump_mode = d.dump_mode
           /\ f.counter = 1 /\ f.lines = <<>> /\ Text(f.lines) /\ Len(f.lines) = 0
<1>1. f = [stats_mode |-> d.stats_mode, dump_mode |-> d.dump_mode, counter |-> 1,
           lines |-> <<>>]
  BY DEF Empty, IsDiag, with_new_id
<1> QED
  BY <1>1, ShortTexts DEF IsDiag

\* A refusal without a dump.
LEMMA UndumpedIs ==
    ASSUME NEW d, Empty(d), d.counter = 0, NEW err \in BOOLEAN, NEW e, IsUndumped(e, d, err)
    PROVE  /\ IsDiag(e) /\ e.stats_mode = d.stats_mode /\ e.dump_mode = d.dump_mode
           /\ e.counter = 1
           /\ \E s : /\ Counted(s, d.stats_mode, err)
                    /\ \A a, b, c : LinesAre(e.lines, 0, s, 0, 400, err, a, b, c)
<1> DEFINE f == with_new_id(d)
           k == Len(f.lines)
           line == stats_line(0, 400, err)
           s == IF records(d.stats_mode, err) THEN 1 ELSE 0
<1>1. /\ IsDiag(f) /\ f.stats_mode = d.stats_mode /\ f.dump_mode = d.dump_mode
      /\ f.counter = 1 /\ f.lines = <<>> /\ Text(f.lines) /\ k = 0
  BY NewIdIs
<1>2. e = record_stats(f, line)
  BY DEF IsUndumped
<1>3. line.error = err
  BY DEF stats_line
<1>4. s \in {0, 1} /\ s \in Nat /\ s = IF records(f.stats_mode, err) THEN 1 ELSE 0
  BY <1>1
<1>5. k \in Nat /\ Len(f.lines) = k
  BY <1>1
<1>6. line = stats_line(0, 400, err) /\ Counted(s, d.stats_mode, err)
  BY DEF Counted
<1> HIDE DEF f, line, s, k
<1>7. /\ IsDiag(e) /\ e.stats_mode = f.stats_mode /\ e.dump_mode = f.dump_mode
      /\ e.counter = f.counter
      /\ Text(e.lines) /\ Len(e.lines) = k + s
      /\ \A i \in 1 .. k : e.lines[i] = f.lines[i]
      /\ s = 1 => e.lines[k + 1] = line
  BY <1>1, <1>2, <1>3, <1>4, <1>5, StatsAfter
<1>8. Len(e.lines) = 0 + s + 0 /\ (s = 1 => e.lines[0 + 1] = line)
  BY <1>1, <1>4, <1>7
<1>9. \A a, b, c : LinesAre(e.lines, 0, s, 0, 400, err, a, b, c)
  BY <1>4, <1>6, <1>7, <1>8 DEF LinesAre
<1>10. \E s_ : /\ Counted(s_, d.stats_mode, err)
              /\ \A a, b, c : LinesAre(e.lines, 0, s_, 0, 400, err, a, b, c)
  BY <1>6, <1>9
<1> QED
  BY <1>1, <1>7, <1>10

\* What a refusal leaves behind.
Refusal(e, d, err, body) ==
    \E n, s : /\ Counted(n, d.dump_mode, err) /\ Counted(s, d.stats_mode, err)
             /\ \A b, c : LinesAre(e.lines, n, s, 0, 400, err, body, b, c)

\* A refusal with the dump of the body.
LEMMA RejectIs ==
    ASSUME NEW d, Empty(d), d.counter = 0, NEW err \in BOOLEAN,
           NEW body, NEW e, IsReject(e, d, body, err)
    PROVE  /\ IsDiag(e) /\ e.stats_mode = d.stats_mode /\ e.dump_mode = d.dump_mode
           /\ e.counter = 1
           /\ Refusal(e, d, err, body)
<1> DEFINE f == with_new_id(d)
           k == Len(f.lines)
           dump == dump_line(0, "ingress", "request", None, body)
           l == <<dump>>
           m == Len(l)
           h == record_dumps(f, l, err)
           line == stats_line(0, 400, err)
           n == IF records(d.dump_mode, err) THEN 1 ELSE 0
           s == IF records(d.stats_mode, err) THEN 1 ELSE 0
<1>1. /\ IsDiag(f) /\ f.stats_mode = d.stats_mode /\ f.dump_mode = d.dump_mode
      /\ f.counter = 1 /\ f.lines = <<>> /\ Text(f.lines) /\ k = 0
  BY NewIdIs
<1>2. e = record_stats(h, line)
  BY DEF IsReject
<1>3. line.error = err
  BY DEF stats_line
<1>4. Text(l) /\ m = 1 /\ l[1] = dump
  BY ShortTexts
<1>5. n \in {0, 1} /\ n \in Nat /\ n = IF records(f.dump_mode, err) THEN m ELSE 0
  BY <1>1, <1>4
<1>6. s \in {0, 1} /\ s \in Nat /\ s = IF records(f.stats_mode, err) THEN 1 ELSE 0
  BY <1>1
<1>7. /\ h = record_dumps(f, l, err) /\ k \in Nat /\ Len(f.lines) = k
      /\ m \in Nat /\ Len(l) = m
  BY <1>1, <1>4
<1>8. line = stats_line(0, 400, err) /\ dump = dump_line(0, "ingress", "request", None, body)
      /\ Counted(n, d.dump_mode, err) /\ Counted(s, d.stats_mode, err)
  BY DEF Counted
<1> HIDE DEF f, line, s, n, l, h, dump, k, m
<1>9. /\ IsDiag(h) /\ h.stats_mode = f.stats_mode /\ h.dump_mode = f.dump_mode
      /\ h.counter = f.counter
      /\ Text(h.lines) /\ Len(h.lines) = k + n
      /\ \A i \in 1 .. k : h.lines[i] = f.lines[i]
      /\ \A i \in 1 .. n : h.lines[k + i] = l[i]
  <2>a. /\ IsDiag(f) /\ Text(f.lines) /\ k \in Nat /\ Len(f.lines) = k
        /\ Text(l) /\ m \in Nat /\ Len(l) = m
        /\ h = record_dumps(f, l, err)
        /\ n \in Nat /\ n = IF records(f.dump_mode, err) THEN m ELSE 0
    BY <1>1, <1>4, <1>5, <1>7
  <2>1. IsDiag(h) /\ h.stats_mode = f.stats_mode
    BY <2>a, DumpsAfter
  <2>2. h.dump_mode = f.dump_mode /\ h.counter = f.counter
    BY <2>a, DumpsAfter
  <2>3. Text(h.lines)
    BY <2>a, DumpsAfter
  <2>6. Len(h.lines) = k + n
    <3>1. CASE records(f.dump_mode, err)
      BY <2>a, <3>1, DumpsAfter
    <3>2. CASE ~records(f.dump_mode, err)
      BY <2>a, <3>2, DumpsAfter
    <3> QED
      BY <3>1, <3>2
  <2>4. \A i \in 1 .. k : h.lines[i] = f.lines[i]
    BY <2>a, DumpsAfter
  <2>5. \A i \in 1 .. n : h.lines[k + i] = l[i]
    BY <2>a, DumpsAfter
  <2> QED
    BY <2>1, <2>2, <2>3, <2>4, <2>5, <2>6
<1>10. Len(h.lines) = n /\ (n = 1 => h.lines[1] = dump)
       /\ s = IF records(h.stats_mode, err) THEN 1 ELSE 0
  BY <1>1, <1>4, <1>5, <1>6, <1>9
<1>11. /\ IsDiag(e) /\ e.stats_mode = h.stats_mode /\ e.dump_mode = h.dump_mode
       /\ e.counter = h.counter
       /\ Text(e.lines) /\ Len(e.lines) = n + s
       /\ \A i \in 1 .. n : e.lines[i] = h.lines[i]
       /\ s = 1 => e.lines[n + 1] = line
  <2>1. IsDiag(e) /\ e.stats_mode = h.stats_mode
    BY <1>2, <1>3, <1>5, <1>6, <1>9, <1>10, StatsAfter
  <2>2. e.dump_mode = h.dump_mode /\ e.counter = h.counter
    BY <1>2, <1>3, <1>5, <1>6, <1>9, <1>10, StatsAfter
  <2>3. Text(e.lines) /\ Len(e.lines) = n + s
    BY <1>2, <1>3, <1>5, <1>6, <1>9, <1>10, StatsAfter
  <2>4. \A i \in 1 .. n : e.lines[i] = h.lines[i]
    BY <1>2, <1>3, <1>5, <1>6, <1>9, <1>10, StatsAfter
  <2>5. s = 1 => e.lines[n + 1] = line
    BY <1>2, <1>3, <1>5, <1>6, <1>9, <1>10, StatsAfter
  <2> QED
    BY <2>1, <2>2, <2>3, <2>4, <2>5
<1>12. \A b, c : LinesAre(e.lines, n, s, 0, 400, err, body, b, c)
  <2>1. Len(e.lines) = n + s + 0 /\ (n >= 1 => e.lines[1] = dump)
    BY <1>5, <1>6, <1>10, <1>11
  <2> QED
    BY <1>5, <1>6, <1>8, <1>11, <2>1 DEF LinesAre
<1>13. Refusal(e, d, err, body)
  BY <1>8, <1>12 DEF Refusal
<1>14. /\ IsDiag(e) /\ e.stats_mode = d.stats_mode /\ e.dump_mode = d.dump_mode
       /\ e.counter = 1
  BY <1>1, <1>9, <1>11
<1> QED
  BY <1>13, <1>14

\* A call that is refused, and recorded.
LEMMA RefusedTold ==
    ASSUME PInv, Known', phase \in {"call", "handler"}, phase' = "done",
           UNCHANGED <<call, config, guard, sent, upstream, out, stream>>,
           answer'.status = 400, ~unrecorded',
           NEW n \in {0, 1}, n = 1 => records(diag.dump_mode, TRUE),
           NEW s, Counted(s, diag.stats_mode, TRUE),
           IsDiag(diag'), diag'.stats_mode = diag.stats_mode, diag'.dump_mode = diag.dump_mode,
           diag'.counter = 1,
           LinesAre(diag'.lines, n, s, 0, 400, TRUE, req.fields, sent.body, None)
    PROVE  PInv'
<1>1. UNCHANGED <<upstream, stream>> /\ UNCHANGED <<call, upstream>>
      /\ req' = req /\ sent' = sent /\ guard' = guard
  BY DEF call
<1>2. Streaming' /\ Sizes' /\ upstream' = None
  <2>1. phase \in {"load", "call", "handler"} /\ answer'.status \in 200 .. 999
        /\ phase' \notin {"error_body", "body", "relay", "translate"}
    OBVIOUS
  <2>2. Streaming'
    BY <1>1, <2>1, StillNoStream
  <2>3. Sizes'
    BY <1>1, <2>1, StillNoStream
  <2>4. upstream' = None
    BY <1>1, <2>1, StillNoStream
  <2> QED
    BY <2>2, <2>3, <2>4
<1>3. ~relayed' /\ ~streamed'
  BY <1>2 DEF relayed, streamed
<1>4. failed' = TRUE
  BY <1>3 DEF failed
<1>5. shown_status' = 400
  BY DEF shown_status
<1>6. guard = NoGuard /\ sent = None /\ {diag.stats_mode, diag.dump_mode} \subseteq Modes
  BY DEF PInv, Guarded, Known, Before
<1>7. Guarded'
  BY <1>1, <1>6 DEF Guarded, Before, Waiting
<1>8. s \in {0, 1} /\ (s = 1) = records(diag.stats_mode, TRUE)
  BY CountedIs
<1>9. LinesAre(diag'.lines, n, s, 0, shown_status', failed', req.fields, sent'.body, None)
  BY <1>1, <1>4, <1>5
<1>10. Told'
  <2>1. (s = 1) = records(diag'.stats_mode, failed')
    BY <1>4, <1>8
  <2>2. n >= 1 => records(diag'.dump_mode, failed')
    <3>1. records(diag'.dump_mode, failed') <=> records(diag.dump_mode, TRUE)
      BY <1>4
    <3>2. n >= 1 => n = 1
      OBVIOUS
    <3> QED
      BY <3>1, <3>2
  <2>3. n \in 0 .. 3 /\ ~(n = 3 \/ 0 = 1)
    OBVIOUS
  <2> QED
    BY <1>1, <1>2, <1>8, <1>9, <2>1, <2>2, <2>3 DEF Told
<1> QED
  BY <1>2, <1>7, <1>10 DEF PInv

\* A refusal is reported as an error (a name, since the provers do not
\* instantiate lemmas with a literal).
Error == TRUE

LEMMA ErrorIs == Error \in BOOLEAN
BY DEF Error

\* A call that no handler gets.
LEMMA RejectTold == ASSUME PInv, Known', Reject PROVE PInv'
<1>1. /\ phase = "call" /\ phase' = "done" /\ ~too_large
      /\ UNCHANGED <<call, config, guard, sent, upstream, out, stream>>
      /\ diag' = reject(diag, 400, req.fields) /\ answer'.status = 400
  BY DEF Reject, Refused, Answered, AppError
<1>2. /\ Empty(diag) /\ diag.counter = 0 /\ guard.id = None /\ route = None
  BY <1>1 DEF PInv, Guarded, Before, NoGuard, Empty
<1>3. IsReject(diag', diag, req.fields, Error)
  BY <1>1, <1>2 DEF IsReject, reject, Error
<1>4. ~unrecorded'
  BY <1>1, <1>2 DEF unrecorded, ended, unclaimed, too_large, call
<1>5. /\ IsDiag(diag') /\ diag'.stats_mode = diag.stats_mode
      /\ diag'.dump_mode = diag.dump_mode /\ diag'.counter = 1
  BY <1>2, <1>3, ErrorIs, RejectIs
<1>6. PICK n, s : /\ Counted(n, diag.dump_mode, Error) /\ Counted(s, diag.stats_mode, Error)
                  /\ \A b, c : LinesAre(diag'.lines, n, s, 0, 400, Error, req.fields, b, c)
  <2>1. Refusal(diag', diag, Error, req.fields)
    BY <1>2, <1>3, ErrorIs, RejectIs
  <2> QED
    BY <2>1 DEF Refusal
<1>7. n \in {0, 1} /\ (n = 1 => records(diag.dump_mode, TRUE))
  BY <1>6, CountedIs DEF Error
<1>8. Counted(s, diag.stats_mode, TRUE)
  BY <1>6 DEF Error
<1>9. LinesAre(diag'.lines, n, s, 0, 400, TRUE, req.fields, sent.body, None)
  BY <1>6 DEF Error
<1> QED
  BY <1>1, <1>4, <1>5, <1>7, <1>8, <1>9, RefusedTold

\* A call that its handler refuses.
LEMMA RefuseTold == ASSUME PInv, Known', Refuse PROVE PInv'
<1>1. /\ phase = "handler" /\ phase' = "done" /\ phase \in {"load", "call", "handler"}
      /\ UNCHANGED <<call, config, guard, sent, upstream, out, stream>>
      /\ UNCHANGED <<upstream, stream>> /\ guard' = guard /\ sent' = sent
  BY DEF Refuse
<1>2. /\ Empty(diag) /\ diag.counter = 0 /\ guard.id = None /\ ~too_large /\ route # None
  BY <1>1 DEF PInv, Guarded, Before, NoGuard, Empty, Known, Routed
<1>3. CASE req.text = "untyped"
  <2>1. diag' = reject_undumped(diag, 400) /\ answer'.status = 400
    BY <1>3 DEF Refuse, Refused, Answered, AppError
  <2>2. IsUndumped(diag', diag, Error)
    BY <1>2, <2>1 DEF IsUndumped, reject_undumped, Error
  <2>3. ~unrecorded'
    BY <1>1, <1>2, <1>3 DEF unrecorded, ended, unclaimed, too_large, call
  <2>4. /\ IsDiag(diag') /\ diag'.stats_mode = diag.stats_mode
        /\ diag'.dump_mode = diag.dump_mode /\ diag'.counter = 1
    BY <1>2, <2>2, ErrorIs, UndumpedIs
  <2>5. PICK s : /\ Counted(s, diag.stats_mode, Error)
                 /\ \A a, b, c : LinesAre(diag'.lines, 0, s, 0, 400, Error, a, b, c)
    BY <1>2, <2>2, ErrorIs, UndumpedIs
  <2>6. Counted(s, diag.stats_mode, TRUE)
    BY <2>5 DEF Error
  <2>7. LinesAre(diag'.lines, 0, s, 0, 400, TRUE, req.fields, sent.body, None)
    BY <2>5 DEF Error
  <2>8. PICK n \in {0, 1} : n = 0
    OBVIOUS
  <2>9. LinesAre(diag'.lines, n, s, 0, 400, TRUE, req.fields, sent.body, None)
    BY <2>7, <2>8
  <2>10. n = 1 => records(diag.dump_mode, TRUE)
    BY <2>8
  <2> QED
    BY <1>1, <2>1, <2>3, <2>4, <2>6, <2>9, <2>10, RefusedTold
<1>4. CASE req.text = "untranslatable"
  <2>1. diag' = diag /\ answer'.status \in 200 .. 999
    BY <1>4 DEF Refuse, Refused, Answered, AppError
  <2>2. unrecorded'
    BY <1>1, <1>2, <1>4 DEF unrecorded, ended, unclaimed, call
  <2>3. phase' \in Before \union {"done"} /\ phase' \notin {"load", "call"} /\ phase' # "handler"
    BY <1>1
  <2> QED
    BY <1>1, <2>1, <2>2, <2>3, SameDiag, SilentTold
<1> QED
  BY <1>3, <1>4 DEF Refuse

-----------------------------------------------------------------------------
(* The request is sent *)

\* A guard that is new, with the two requests.
LEMMA NewGuardIs ==
    ASSUME NEW d, d.counter = 0, NEW a, NEW b
    PROVE  ingress_dump(egress_dump(new_guard(d), b), a) =
              [id |-> 0, finished |-> FALSE, ingress |-> <<a>>, egress |-> <<b>>,
               response |-> <<>>]
<1>1. new_guard(d) = [id |-> 0, finished |-> FALSE, ingress |-> <<>>, egress |-> <<>>,
                      response |-> <<>>]
  BY DEF new_guard
<1>2. Append(<<>>, b) = <<b>>
  OBVIOUS
<1>3. egress_dump(new_guard(d), b) =
         [id |-> 0, finished |-> FALSE, ingress |-> <<>>, egress |-> <<b>>, response |-> <<>>]
  <2> DEFINE g == new_guard(d)
  <2> HIDE DEF g
  <2>1. g = [id |-> 0, finished |-> FALSE, ingress |-> <<>>, egress |-> <<>>, response |-> <<>>]
    BY <1>1 DEF g
  <2>2. egress_dump(g, b) = [g EXCEPT !.egress = <<b>>]
    BY <1>2, <2>1 DEF egress_dump
  <2>3. egress_dump(g, b) =
           [id |-> 0, finished |-> FALSE, ingress |-> <<>>, egress |-> <<b>>, response |-> <<>>]
    BY <2>1, <2>2
  <2> QED
    BY <2>3 DEF g
<1> DEFINE h == egress_dump(new_guard(d), b)
<1> HIDE DEF h
<1>4. h = [id |-> 0, finished |-> FALSE, ingress |-> <<>>, egress |-> <<b>>, response |-> <<>>]
  BY <1>3 DEF h
<1> DEFINE p == <<a>>
           q == <<b>>
<1>5. h = [id |-> 0, finished |-> FALSE, ingress |-> <<>>, egress |-> q, response |-> <<>>]
      /\ ingress_dump(h, a) = [h EXCEPT !.ingress = p]
  BY <1>4 DEF ingress_dump
<1> HIDE DEF p, q
<1>6. ingress_dump(h, a) =
         [id |-> 0, finished |-> FALSE, ingress |-> p, egress |-> q, response |-> <<>>]
  BY <1>5
<1> QED
  BY <1>6 DEF h, p, q

\* The request is sent, and the guard is open.
LEMMA SendTold == ASSUME PInv, Known', Send PROVE PInv'
<1>1. /\ phase = "handler" /\ phase' = "send" /\ raw' = raw /\ req' = req /\ route' = route
      /\ UNCHANGED <<upstream, stream>> /\ answer' = answer /\ diag' = with_new_id(diag)
      /\ guard' = ingress_dump(egress_dump(new_guard(diag), sent'.body),
                               ingress_body(req, route, egress))
  BY DEF Send, call
<1>2. Streaming' /\ Sizes' /\ upstream' = None
  BY <1>1, StillNoStream
<1>3. /\ Empty(diag) /\ diag.counter = 0 /\ guard = NoGuard
      /\ {diag.stats_mode, diag.dump_mode} \subseteq Modes
  BY <1>1 DEF PInv, Guarded, Before, Empty
<1>4. /\ IsDiag(diag') /\ diag'.stats_mode = diag.stats_mode
      /\ diag'.dump_mode = diag.dump_mode /\ diag'.counter = 1 /\ diag'.lines = <<>>
  BY <1>1, <1>3, NewIdIs
<1>5. guard' = Open'
  <2>1. egress' = egress
    BY <1>1 DEF egress
  <2>2. guard' = [id |-> 0, finished |-> FALSE, ingress |-> <<ingress_body(req, route, egress)>>,
                  egress |-> <<sent'.body>>, response |-> <<>>]
    BY <1>1, <1>3, NewGuardIs
  <2> QED
    BY <1>1, <2>1, <2>2 DEF Open
<1>6. Guarded'
  BY <1>1, <1>3, <1>4, <1>5 DEF Guarded, Before, Waiting
<1>7. unrecorded'
  BY <1>1 DEF unrecorded, ended, unclaimed
<1>8. Told'
  BY <1>1, <1>4, <1>7, NoLinesToldNext
<1> QED
  BY <1>2, <1>6, <1>8 DEF PInv

\* A call that waits for more, with nothing said yet.
LEMMA WaitsTold ==
    ASSUME PInv, Known', phase \in Waiting, phase' \in Waiting,
           UNCHANGED <<call, config, sent, guard, diag>>
    PROVE  Guarded' /\ Told'
<1>1. guard = Open /\ diag.lines = <<>> /\ diag.counter = 1 /\ IsDiag(diag)
      /\ {diag.stats_mode, diag.dump_mode} \subseteq Modes
  BY DEF PInv, Guarded
<1>2. Open' = Open
  BY DEF Open, call, egress
<1>3. phase' \notin Before /\ phase' \notin Final /\ phase' # "relay"
      /\ phase' \notin {"load", "call"} /\ phase' # "handler"
  BY DEF Waiting, Before, Final
<1>4. Guarded'
  BY <1>1, <1>2, <1>3 DEF Guarded, Final
<1>5. unrecorded'
  BY <1>3 DEF unrecorded, ended, unclaimed, Final
<1>6. Told'
  BY <1>1, <1>3, <1>5, NoLinesToldNext DEF Final
<1> QED
  BY <1>4, <1>6

\* Nothing of a stream is kept before any of it arrives.
LEMMA NothingArrived ==
    ASSUME NEW all, Text(all)
    PROVE  Kept(<<>>, all, 0) /\ 0 <= Len(all) /\ SubSeq(all, 0 + 1, Len(all)) = all
<1>1. Min({0, DumpLimit}) = 0
  <2>1. PICK z \in Nat : z = 0
    OBVIOUS
  <2>2. DumpLimit \in Nat /\ z <= DumpLimit
    BY <2>1, ProxyAssumption
  <2>3. Min({z, DumpLimit}) = z
    BY <2>2, TwoMin
  <2> QED
    BY <2>1, <2>3
<1>2. Text(SubSeq(all, 1, 0)) /\ Len(SubSeq(all, 1, 0)) = 0
  <2>1. 1 \in Nat \ {0} /\ 0 \in Nat /\ 0 <= Len(all) /\ ~(1 <= 0)
    BY TextIs
  <2>2. Text(SubSeq(all, 1, 0))
    BY <2>1, TextSub
  <2>3. Len(SubSeq(all, 1, 0)) = 0
    BY <2>1, TextSub
  <2> QED
    BY <2>2, <2>3
<1>3. SubSeq(all, 1, 0) = <<>>
  BY <1>2, ShortTexts, TextsAreEqual
<1>4. Len(all) \in Nat /\ SubSeq(all, 1, Len(all)) = all
  BY TextIs, WholeIs
<1>5. Kept(<<>>, all, 0)
  BY <1>1, <1>3 DEF Kept
<1>6. 0 <= Len(all)
  BY <1>4
<1>7. SubSeq(all, 0 + 1, Len(all)) = all
  <2>1. 0 + 1 = 1
    OBVIOUS
  <2> QED
    BY <1>4, <2>1
<1> QED
  BY <1>5, <1>6, <1>7

\* The head of the answer of the provider.
Answers1(a) ==
    /\ upstream' = a /\ phase' = phase_after(a)
    /\ wire' = IF phase' \in {"relay", "translate"} THEN stream_bytes(a) ELSE <<>>
    /\ translating' = (phase' = "translate" /\ egress = "openai")
    /\ IF phase' = "relay" THEN Finish(guard, a.status) ELSE UNCHANGED <<guard, diag>>
    /\ CASE phase' = "relay" -> Answered(a.status, "stream")
         [] phase' = "translate" -> Answered(200, "stream")
         [] OTHER -> UNCHANGED answer

\* The stream of an answer begins, if it is one.
LEMMA HeadTold ==
    ASSUME PInv, phase = "send", NEW a \in Answers[egress], Answers1(a),
           UNCHANGED <<call, config, sent, out, line_buf, capture>>
    PROVE  /\ Streaming' /\ Sizes' /\ phase' \in {"error_body", "body", "relay", "translate"}
           /\ a.status \in 200 .. 999 /\ a # None
           /\ phase' \in {"relay", "translate"} => Text(stream_bytes(a))
<1>1. egress \in {"openai", "anthropic"}
  BY DEF PInv, Known, HasSent, Routed, Waiting
<1>2. /\ a # None /\ a.status \in 200 .. 999 /\ a.events \in Seq(ToSet(a.events))
  BY <1>1, ProxyAssumption
<1>3. Text(stream_bytes(a))
  BY <1>2, BytesAreText
<1>4. phase_after(a) \in {"error_body", "body", "relay", "translate"}
  BY DEF phase_after
<1>5. /\ req' = req /\ route' = route /\ upstream' = a /\ phase' = phase_after(a)
      /\ line_buf' = line_buf /\ capture' = capture
      /\ translating' \in BOOLEAN
      /\ phase' \in {"relay", "translate"} => wire' = stream_bytes(a)
      /\ phase' = "relay" => answer'.status = a.status
      /\ phase' = "translate" => answer'.status = 200
      /\ phase' \notin {"relay", "translate"} => answer' = answer
  BY DEF call, Answers1, Answered
<1>6. egress' = egress /\ (passthrough' <=> passthrough)
  BY <1>5 DEF egress, passthrough
<1>7. phase_after(upstream)' = phase' /\ stream_bytes(upstream)' = stream_bytes(a)
      /\ upstream' \in Answers[egress']
  BY <1>5, <1>6 DEF phase_after, stream_bytes
<1>8. line_buf' = <<>> /\ capture' = <<>>
  BY <1>5 DEF PInv, Streaming
<1>9. phase' \in {"relay", "translate"} => Arrived(0)'
  BY <1>3, <1>5, <1>7, <1>8, NothingArrived DEF Arrived
<1>10. Streaming'
  <2>1. phase' \in {"relay", "translate"} => \E k \in Nat : Arrived(k)'
    BY <1>9
  <2> QED
    BY <1>4, <1>5, <1>7, <1>8, <2>1 DEF Streaming, Before
<1>11. Text(line_buf)' /\ Len(line_buf') = 0 /\ Len(capture') = 0
  BY <1>8, ShortTexts
<1>12. Sizes'
  <2>1. answer' # None => answer'.status \in 200 .. 999
    <3>1. CASE phase' = "relay"
      BY <1>2, <1>5, <3>1
    <3>2. CASE phase' = "translate"
      BY <1>5, <3>2
    <3>3. CASE phase' \notin {"relay", "translate"}
      BY <1>5, <3>3 DEF PInv, Sizes
    <3> QED
      BY <3>1, <3>2, <3>3
  <2>2. Len(capture') <= DumpLimit /\ Len(line_buf') <= LineLimit
    BY <1>11, ProxyAssumption
  <2> QED
    BY <1>5, <1>11, <2>1, <2>2 DEF Sizes
<1> QED
  BY <1>2, <1>3, <1>4, <1>5, <1>10, <1>12

-----------------------------------------------------------------------------
(* A stream that is passed on *)

\* The lines of a call whose answer is passed on as a stream.
LinesOfRelay(mode, dump, l, status, first, second) ==
    LinesAre(l, IF records(dump, FALSE) THEN 2 ELSE 0, IF records(mode, FALSE) THEN 1 ELSE 0,
             0, status, FALSE, first, second, <<>>)

\* A guard that reports without an answer, at a success.
LEMMA ReportsRelay ==
    ASSUME PInv, phase = "send", UNCHANGED <<call, config, sent>>,
           NEW status, status # None, Finish(guard, status)
    PROVE  /\ IsDiag(diag') /\ diag'.stats_mode = diag.stats_mode
           /\ diag'.dump_mode = diag.dump_mode /\ diag'.counter = 1
           /\ guard' = Closed
           /\ LinesOfRelay(diag.stats_mode, diag.dump_mode, diag'.lines, status,
                           ingress_body(req, route, egress), sent.body)
<1> DEFINE r == [body |-> <<>>]
<1>1. guard.response = <<>> /\ phase \in Waiting
  BY DEF PInv, Guarded, Open, Waiting
<1>2. r.body = <<>>
  OBVIOUS
<1> HIDE DEF r
<1>e. PICK err \in BOOLEAN : err = FALSE
  OBVIOUS
<1>3. Reported(guard, r, status, err)
  BY <1>e, FinishIs
<1>4. /\ IsDiag(diag') /\ diag'.stats_mode = diag.stats_mode
      /\ diag'.dump_mode = diag.dump_mode /\ diag'.counter = 1
      /\ guard' = Closed
  BY <1>1, <1>3, ReportsOpen
<1>5. LinesAre(diag'.lines,
               IF records(diag.dump_mode, err)
               THEN IF guard.response = <<>> THEN 2 ELSE 3 ELSE 0,
               IF records(diag.stats_mode, err) THEN 1 ELSE 0, 0,
               IF status = None THEN 0 ELSE status, err,
               ingress_body(req, route, egress), sent.body, r.body)
  BY <1>1, <1>3, ReportsOpen
<1>6. LinesOfRelay(diag.stats_mode, diag.dump_mode, diag'.lines, status,
                   ingress_body(req, route, egress), sent.body)
  BY <1>1, <1>2, <1>e, <1>5 DEF LinesOfRelay
<1> QED
  BY <1>4, <1>6

\* What the lines say while the stream is passed on.
LEMMA RelayIsTold ==
    ASSUME Known', HasSent, UNCHANGED <<call, sent>>,
           phase' = "relay", Streaming', guard' = Closed,
           IsDiag(diag'), {diag'.stats_mode, diag'.dump_mode} \subseteq Modes,
           diag'.counter \in {0, 1},
           LinesOfRelay(diag.stats_mode, diag.dump_mode, diag.lines, answer.status,
                        ingress_body(req, route, egress), sent.body)'
    PROVE  Guarded' /\ Told'
<1>1. Guarded'
  BY DEF Guarded, LinesOfRelay, Before, Waiting
<1>2. relayed'
  <2>0. HasSent'
    BY DEF Known
  <2>1. upstream' \in Answers[egress'] /\ phase_after(upstream)' = phase'
        /\ egress' \in {"openai", "anthropic"}
    BY <2>0 DEF Streaming, HasSent, Routed
  <2>2. upstream' # None
    BY <2>1, ProxyAssumption
  <2> QED
    BY <2>1, <2>2 DEF relayed, streamed, phase_after
<1>3. failed' = FALSE /\ shown_status' = answer'.status
  BY <1>2 DEF failed, shown_status
<1> DEFINE n == IF records(diag'.dump_mode, FALSE) THEN 2 ELSE 0
           s == IF records(diag'.stats_mode, FALSE) THEN 1 ELSE 0
           b == ingress_body(req, route, egress)'
<1>4. LinesAre(diag'.lines, n, s, 0, shown_status', failed', b, sent'.body, <<>>)
  BY <1>3 DEF LinesOfRelay
<1>5. passthrough' => b = req'.fields
  <2>1. /\ req' = req /\ route' = route /\ egress' = egress /\ (passthrough' <=> passthrough)
    BY StillSent DEF call
  <2> QED
    BY <2>1, IngressIs
<1>6. n \in {0, 2} /\ s \in {0, 1} /\ (n >= 1 => records(diag'.dump_mode, FALSE))
  BY DEF records
<1>7. unrecorded' /\ phase' # "done"
  BY DEF unrecorded, ended, unclaimed
<1>8. guard'.id # None
  BY NoneIs DEF Closed
<1> HIDE DEF n, s, b
<1>9. n >= 1 => /\ records(diag'.dump_mode, failed')
                /\ guard'.id = None \/ passthrough' => b = req'.fields
  BY <1>3, <1>5, <1>6, <1>8
<1>10. Told'
  BY <1>4, <1>6, <1>7, <1>9 DEF Told
<1> QED
  BY <1>1, <1>10

\* The head of the answer arrives.
LEMMA UpstreamAnswersTold == ASSUME PInv, Known', UpstreamAnswers PROVE PInv'
<1>1. phase = "send" /\ UNCHANGED <<call, config, sent, out, line_buf, capture>>
  BY DEF UpstreamAnswers
<1>2. PICK a \in Answers[egress] : Answers1(a)
  BY DEF UpstreamAnswers, Answers1
<1>3. /\ Streaming' /\ Sizes' /\ phase' \in {"error_body", "body", "relay", "translate"}
      /\ a.status \in 200 .. 999
  BY <1>1, <1>2, HeadTold
<1>4. CASE phase' # "relay"
  <2>1. phase \in Waiting /\ phase' \in Waiting
        /\ UNCHANGED <<call, config, sent, guard, diag>>
    BY <1>1, <1>2, <1>3, <1>4 DEF Answers1, Waiting
  <2> QED
    BY <1>3, <2>1, WaitsTold DEF PInv
<1>5. CASE phase' = "relay"
  <2>1. Finish(guard, a.status) /\ answer'.status = a.status /\ a.status # None
        /\ UNCHANGED <<call, config, sent>>
    BY <1>1, <1>2, <1>3, <1>5, NoneIs DEF Answers1, Answered
  <2>2. /\ IsDiag(diag') /\ diag'.stats_mode = diag.stats_mode
        /\ diag'.dump_mode = diag.dump_mode /\ diag'.counter = 1
        /\ guard' = Closed
    BY <1>1, <2>1, ReportsRelay
  <2>3. LinesOfRelay(diag.stats_mode, diag.dump_mode, diag'.lines, a.status,
                     ingress_body(req, route, egress), sent.body)
    BY <1>1, <2>1, ReportsRelay
  <2>4. /\ req' = req /\ route' = route /\ sent' = sent /\ HasSent /\ HasSent'
        /\ egress' = egress /\ (passthrough' <=> passthrough)
        /\ {diag'.stats_mode, diag'.dump_mode} \subseteq Modes
    BY <1>1, <2>1, <2>2, StillSent DEF call, PInv, Known, Guarded, Waiting
  <2>5. LinesOfRelay(diag'.stats_mode, diag'.dump_mode, diag'.lines, answer'.status,
                     ingress_body(req, route, egress)', sent'.body)
    BY <2>1, <2>2, <2>3, <2>4
  <2>6. LinesOfRelay(diag.stats_mode, diag.dump_mode, diag.lines, answer.status,
                     ingress_body(req, route, egress), sent.body)'
    BY <2>5
  <2>7. UNCHANGED <<call, sent>>
    BY <2>1
  <2> QED
    BY <1>3, <1>5, <2>2, <2>4, <2>6, <2>7, RelayIsTold DEF PInv
<1> QED
  BY <1>4, <1>5

\* How much has arrived, and what is kept of it, when `on` says that it is kept.
Came(k, all, w, c, on) ==
    /\ k <= Len(all)
    /\ w = SubSeq(all, k + 1, Len(all))
    /\ IF on THEN Kept(c, all, k) ELSE c = <<>>

\* A chunk arrives.
LEMMA ChunkArrives ==
    ASSUME PInv, NEW all, Text(all), NEW k \in Nat, NEW on \in BOOLEAN,
           Came(k, all, wire, capture, on),
           NEW n \in Nat, n <= Len(wire), NEW b, b = SubSeq(wire, 1, n),
           NEW w, w = SubSeq(wire, n + 1, Len(wire)),
           NEW c, c = IF on THEN captured(b) ELSE capture
    PROVE  Came(k + n, all, w, c, on) /\ Text(b) /\ k + n \in Nat
<1>1. k <= Len(all) /\ wire = SubSeq(all, k + 1, Len(all))
  BY DEF Came
<1>2. n <= Len(SubSeq(all, k + 1, Len(all)))
  BY <1>1
<1>3. /\ k + n <= Len(all)
      /\ w = SubSeq(all, k + n + 1, Len(all))
      /\ Text(b) /\ Len(b) = n
      /\ \A i \in 1 .. n : b[i] = all[k + i]
  BY <1>1, <1>2, RestOfStream
<1>4. CASE on
  <2>1. Kept(capture, all, k)
    BY <1>4 DEF Came
  <2>2. Kept(captured(b), all, k + n)
    BY <1>3, <2>1, CapturedIs
  <2> QED
    BY <1>3, <1>4, <2>2 DEF Came
<1>5. CASE ~on
  BY <1>3, <1>5 DEF Came
<1> QED
  BY <1>3, <1>4, <1>5

Keeping == phase = "translate" \/ dump_enabled(diag)

\* What has arrived of a stream, as the invariant has it.
LEMMA ArrivedIs ==
    ASSUME PInv, phase \in {"relay", "translate"}
    PROVE  /\ Text(stream_bytes(upstream)) /\ Keeping \in BOOLEAN
           /\ \E k \in Nat : Came(k, stream_bytes(upstream), wire, capture, Keeping)
<1>1. Text(stream_bytes(upstream))
  BY StreamedIs
<1>2. \E k \in Nat : Arrived(k)
  BY DEF PInv, Streaming
<1>3. \A k \in Nat : Arrived(k) => Came(k, stream_bytes(upstream), wire, capture, Keeping)
  BY DEF Arrived, Came, Keeping
<1>4. Keeping \in BOOLEAN
  BY DEF Keeping, dump_enabled
<1> QED
  BY <1>1, <1>2, <1>3, <1>4

\* A stream that goes on.
LEMMA StreamGoesOn ==
    ASSUME PInv, phase \in {"relay", "translate"}, phase' = phase,
           UNCHANGED <<call, config, sent, upstream, answer, diag>>,
           NEW n \in Nat, n <= Len(wire), wire' = SubSeq(wire, n + 1, Len(wire)),
           capture' = IF Keeping THEN captured(SubSeq(wire, 1, n)) ELSE capture
    PROVE  Streaming' /\ Len(capture') <= DumpLimit /\ Text(SubSeq(wire, 1, n))
<1> DEFINE all == stream_bytes(upstream)
<1>1. Text(all) /\ Keeping \in BOOLEAN
  BY ArrivedIs
<1>2. PICK k \in Nat : Came(k, all, wire, capture, Keeping)
  BY ArrivedIs
<1>3. all' = all /\ Keeping' = Keeping
  BY StillStreamed DEF Keeping
<1> HIDE DEF all
<1> DEFINE on == Keeping
           w == SubSeq(wire, n + 1, Len(wire))
           b == SubSeq(wire, 1, n)
           c == IF on THEN captured(b) ELSE capture
<1>4. Came(k + n, all, w, c, on) /\ Text(b) /\ k + n \in Nat
  BY <1>1, <1>2, ChunkArrives
<1>5. Came(k + n, all', wire', capture', on')
  BY <1>3, <1>4
<1>6. Arrived(k + n)'
  BY <1>5 DEF Arrived, Came, Keeping, all
<1>7. Streaming'
  <2>1. /\ upstream' \in Answers[egress'] /\ phase_after(upstream)' = phase'
        /\ answer'.status = IF phase' = "relay" THEN upstream'.status ELSE 200
    BY DEF PInv, Streaming, call, egress, phase_after, passthrough
  <2>2. \E j \in Nat : Arrived(j)'
    BY <1>4, <1>6
  <2> QED
    BY <2>1, <2>2 DEF Streaming, Before
<1>8. Len(capture') <= DumpLimit
  <2>1. k + n <= Len(all) /\ (on => Kept(c, all, k + n))
    BY <1>4 DEF Came
  <2>2. CASE on
    <3>1. Len(c) <= DumpLimit
      BY <1>1, <1>4, <2>1, <2>2, KeptIs
    <3> QED
      BY <3>1
  <2>3. CASE ~on
    BY <2>3 DEF PInv, Sizes
  <2> QED
    BY <2>2, <2>3
<1> QED
  BY <1>4, <1>7, <1>8

\* A chunk is passed on.
LEMMA RelayChunkTold ==
    ASSUME PInv, Known', NEW n \in ChunkSizes, RelayChunk(n) PROVE PInv'
<1>1. /\ phase = "relay" /\ phase' = phase /\ n <= Len(wire) /\ n \in Nat
      /\ wire' = SubSeq(wire, n + 1, Len(wire))
      /\ capture' = IF dump_enabled(diag) THEN captured(SubSeq(wire, 1, n)) ELSE capture
      /\ UNCHANGED <<call, config, sent, upstream, answer, diag>>
      /\ UNCHANGED <<call, sent>> /\ guard' = guard
      /\ UNCHANGED <<line_buf, translating>>
  BY ProxyAssumption DEF RelayChunk
<1>2. phase \in {"relay", "translate"}
      /\ capture' = IF Keeping THEN captured(SubSeq(wire, 1, n)) ELSE capture
  BY <1>1 DEF Keeping
<1>3. Streaming' /\ Len(capture') <= DumpLimit
  BY <1>1, <1>2, StreamGoesOn
<1>4. Sizes'
  BY <1>1, <1>3 DEF PInv, Sizes, Text
<1>5. /\ HasSent /\ guard' = Closed /\ IsDiag(diag') /\ diag'.counter \in {0, 1}
      /\ {diag'.stats_mode, diag'.dump_mode} \subseteq Modes
  <2>1. HasSent /\ guard = Closed /\ IsDiag(diag)
        /\ {diag.stats_mode, diag.dump_mode} \subseteq Modes
    BY <1>1 DEF PInv, Known, Guarded, Waiting
  <2>2. diag.counter \in {0, 1}
    BY <1>1 DEF PInv, Guarded
  <2> QED
    BY <1>1, <2>1, <2>2
<1>6. LinesOfRelay(diag.stats_mode, diag.dump_mode, diag.lines, answer.status,
                   ingress_body(req, route, egress), sent.body)
  BY <1>1 DEF PInv, Guarded, LinesOfRelay
<1>7. LinesOfRelay(diag.stats_mode, diag.dump_mode, diag.lines, answer.status,
                   ingress_body(req, route, egress), sent.body)'
  <2>1. diag' = diag /\ answer' = answer /\ sent' = sent /\ req' = req /\ route' = route
        /\ egress' = egress
    BY <1>1, StillSent DEF call
  <2> QED
    BY <1>6, <2>1
<1>8. phase' = "relay"
  BY <1>1
<1> QED
  BY <1>1, <1>3, <1>4, <1>5, <1>7, <1>8, RelayIsTold DEF PInv

\* The lines once the stream is dumped as well.
LinesOfStream(mode, dump, l, status, first, second, third) ==
    LinesAre(l, IF records(dump, FALSE) THEN 2 ELSE 0, IF records(mode, FALSE) THEN 1 ELSE 0,
             IF records(dump, FALSE) THEN 1 ELSE 0, status, FALSE, first, second, third)
IsStreamDump(e, d, status, c) ==
    e = record_dumps(d, <<dump_line(0, "egress", "response", status, c)>>, FALSE)

\* The number of lines once some are added.
LEMMA DumpsCount ==
    ASSUME NEW d, IsDiag(d), Text(d.lines), NEW k \in Nat, Len(d.lines) = k,
           NEW l, Text(l), NEW m \in Nat, Len(l) = m,
           NEW err \in BOOLEAN, NEW e, e = record_dumps(d, l, err),
           NEW n \in Nat, n = IF records(d.dump_mode, err) THEN m ELSE 0
    PROVE  Len(e.lines) = k + n
<1>1. CASE ~records(d.dump_mode, err)
  <2>1. e = d /\ n = 0
    BY <1>1 DEF record_dumps
  <2> QED
    BY <2>1
<1>2. CASE records(d.dump_mode, err)
  <2> DEFINE t == d.lines \o l
  <2>1. e = [d EXCEPT !.lines = t] /\ n = m
    BY <1>2 DEF record_dumps
  <2>2. Joined(t, d.lines, l)
    BY DEF Joined
  <2> HIDE DEF t
  <2>3. Len(t) = k + m
    BY <2>2, JoinedIs
  <2>4. e.lines = t
    BY <2>1 DEF IsDiag
  <2> QED
    BY <2>1, <2>3, <2>4
<1> QED
  BY <1>1, <1>2

\* A stream that was passed on is dumped after the report.
LEMMA StreamDumpIs ==
    ASSUME NEW d, IsDiag(d), NEW status, NEW a, NEW b, NEW c, NEW st, NEW e,
           LinesOfRelay(d.stats_mode, d.dump_mode, d.lines, status, a, b),
           IsStreamDump(e, d, st, c)
    PROVE  /\ IsDiag(e) /\ e.stats_mode = d.stats_mode /\ e.dump_mode = d.dump_mode
           /\ e.counter = d.counter
           /\ LinesOfStream(d.stats_mode, d.dump_mode, e.lines, status, a, b, c)
<1> DEFINE n == IF records(d.dump_mode, FALSE) THEN 2 ELSE 0
           s == IF records(d.stats_mode, FALSE) THEN 1 ELSE 0
           k == n + s
           dump == dump_line(0, "egress", "response", st, c)
           l == <<dump>>
           m == Len(l)
           x == IF records(d.dump_mode, FALSE) THEN m ELSE 0
<1>e. PICK err \in BOOLEAN : err = FALSE
  OBVIOUS
<1>1. LinesAre(d.lines, n, s, 0, status, FALSE, a, b, <<>>)
  BY DEF LinesOfRelay
<1>2. Text(l) /\ m = 1 /\ l[1] = dump
  BY ShortTexts
<1>3. n \in {0, 2} /\ s \in {0, 1} /\ x \in {0, 1} /\ x \in Nat /\ k \in Nat /\ m \in Nat
      /\ (x = 1 => n = 2)
  BY <1>2 DEF records
<1>4. e = record_dumps(d, l, err) /\ x = IF records(d.dump_mode, err) THEN m ELSE 0
  BY <1>e DEF IsStreamDump
<1>5. k = n + s /\ x = (IF records(d.dump_mode, FALSE) THEN 1 ELSE 0)
      /\ dump = dump_line(0, "egress", "response", st, c) /\ Len(l) = m
      /\ n = (IF records(d.dump_mode, FALSE) THEN 2 ELSE 0)
      /\ s = (IF records(d.stats_mode, FALSE) THEN 1 ELSE 0)
  BY <1>2
<1> HIDE DEF n, s, k, l, m, x, dump
<1>6. Text(d.lines) /\ Len(d.lines) = k
  BY <1>1, <1>3, <1>5 DEF LinesAre
<1>7. /\ IsDiag(e) /\ e.stats_mode = d.stats_mode /\ e.dump_mode = d.dump_mode
      /\ e.counter = d.counter
      /\ Text(e.lines) /\ Len(e.lines) = k + x
      /\ \A i \in 1 .. k : e.lines[i] = d.lines[i]
      /\ \A i \in 1 .. x : e.lines[k + i] = l[i]
  <2>a. /\ IsDiag(d) /\ Text(d.lines) /\ k \in Nat /\ Len(d.lines) = k
        /\ Text(l) /\ m \in Nat /\ Len(l) = m
        /\ e = record_dumps(d, l, err)
        /\ x \in Nat /\ x = IF records(d.dump_mode, err) THEN m ELSE 0
    BY <1>2, <1>3, <1>4, <1>5, <1>6
  <2>1. IsDiag(e) /\ e.stats_mode = d.stats_mode
    BY <2>a, DumpsAfter
  <2>2. e.dump_mode = d.dump_mode /\ e.counter = d.counter
    BY <2>a, DumpsAfter
  <2>3. Text(e.lines)
    BY <2>a, DumpsAfter
  <2>4. Len(e.lines) = k + x
    BY <2>a, DumpsCount
  <2>5. \A i \in 1 .. k : e.lines[i] = d.lines[i]
    BY <2>a, DumpsAfter
  <2>6. \A i \in 1 .. x : e.lines[k + i] = l[i]
    BY <2>a, DumpsAfter
  <2> QED
    BY <2>1, <2>2, <2>3, <2>4, <2>5, <2>6
<1>8. k = n + s /\ l[1] = dump /\ n \in {0, 2} /\ s \in {0, 1} /\ x \in {0, 1}
  BY <1>2, <1>3, <1>5
<1>9. LinesAre(e.lines, n, s, x, status, FALSE, a, b, c)
  <2>1. /\ n >= 1 => e.lines[1] = d.lines[1]
        /\ n >= 2 => e.lines[2] = d.lines[2]
        /\ s = 1 => e.lines[n + 1] = d.lines[n + 1]
    BY <1>7, <1>8
  <2>2. x = 1 => e.lines[n + s + 1] = dump
    BY <1>7, <1>8
  <2>3. Len(e.lines) = n + s + x /\ n # 3
    BY <1>7, <1>8
  <2>4. /\ n >= 1 => \E t : d.lines[1] = dump_line(0, "ingress", "request", t, a)
        /\ n >= 2 => \E t : d.lines[2] = dump_line(0, "egress", "request", t, b)
        /\ s = 1 => d.lines[n + 1] = stats_line(0, status, FALSE)
    BY <1>1 DEF LinesAre
  <2>5. n \in 0 .. 3
    BY <1>3
  <2> QED
    BY <1>3, <1>5, <1>7, <1>8, <2>1, <2>2, <2>3, <2>4, <2>5 DEF LinesAre
<1>10. LinesOfStream(d.stats_mode, d.dump_mode, e.lines, status, a, b, c)
  BY <1>5, <1>9 DEF LinesOfStream
<1> QED
  BY <1>7, <1>10

\* What is kept of a stream is its beginning, and all of it up to the limit once
\* all has arrived.
LEMMA BeginningKept ==
    ASSUME NEW all, Text(all), NEW k \in Nat, NEW w, NEW c, Came(k, all, w, c, TRUE)
    PROVE  /\ IsPrefix(c, all) /\ Len(c) <= DumpLimit
           /\ w = <<>> => Len(c) = Min({DumpLimit, Len(all)})
<1>1. k <= Len(all) /\ w = SubSeq(all, k + 1, Len(all)) /\ Kept(c, all, k)
  BY DEF Came
<1>2. /\ Min({k, DumpLimit}) = IF k <= DumpLimit THEN k ELSE DumpLimit
      /\ Len(c) = Min({k, DumpLimit}) /\ Len(c) <= DumpLimit
      /\ IsPrefix(c, all)
  BY <1>1, KeptIs
<1>3. w = <<>> => Len(c) = Min({DumpLimit, Len(all)})
  <2> SUFFICES ASSUME w = <<>> PROVE Len(c) = Min({DumpLimit, Len(all)})
    OBVIOUS
  <2>1. Len(w) = 0 /\ Len(all) \in Nat
    BY ShortTexts, TextIs
  <2>2. 0 \in Nat /\ 0 <= Len(SubSeq(all, k + 1, Len(all)))
    BY <1>1, <2>1
  <2>3. Len(SubSeq(all, k + 1, Len(all))) = Len(all) - k
    BY <1>1, <2>2, RestOfStream
  <2>4. k = Len(all)
    <3>1. Len(all) - k = 0
      BY <1>1, <2>1, <2>3
    <3> QED
      BY <2>1, <3>1
  <2>5. {DumpLimit, Len(all)} = {k, DumpLimit}
    BY <2>4
  <2> QED
    BY <1>2, <2>5
<1> QED
  BY <1>2, <1>3

\* What is kept of a stream that was passed on is its beginning.
LEMMA CaptureIsTruthful ==
    ASSUME PInv, phase \in {"relay", "translate"}, Keeping, UNCHANGED <<call, upstream>>,
           capture' = capture, wire' = wire, phase' = "done" => wire = <<>>
    PROVE  \A c : c = capture => Truthful(c)'
<1> DEFINE all == stream_bytes(upstream)
<1>1. Text(all) /\ Keeping \in BOOLEAN
  BY ArrivedIs
<1>2. PICK k \in Nat : Came(k, all, wire, capture, Keeping)
  BY ArrivedIs
<1>3. streamed' /\ stream_bytes(upstream)' = all
  BY StreamedIs, StillStreamed DEF Waiting, relayed
<1> HIDE DEF all
<1>4. Came(k, all, wire, capture, TRUE)
  BY <1>2 DEF Came
<1>5. /\ IsPrefix(capture, all) /\ Len(capture) <= DumpLimit
      /\ wire = <<>> => Len(capture) = Min({DumpLimit, Len(all)})
  BY <1>1, <1>4, BeginningKept
<1> QED
  BY <1>3, <1>5 DEF Truthful

\* The lines of a stream that was passed on, with x dumps of it.
LinesAtEnd(mode, dump, l, x, status, first, second, third) ==
    LinesAre(l, IF records(dump, FALSE) THEN 2 ELSE 0, IF records(mode, FALSE) THEN 1 ELSE 0,
             x, status, FALSE, first, second, third)

\* A stream that was passed on is over.
LEMMA RelayOver ==
    ASSUME PInv, Known', phase = "relay", phase' \in {"done", "failed", "gone"},
           UNCHANGED <<call, config, guard, sent, upstream, answer, out, stream>>,
           IsDiag(diag'), diag'.stats_mode = diag.stats_mode,
           diag'.dump_mode = diag.dump_mode, diag'.counter = diag.counter,
           NEW x \in {0, 1}, x = 1 => records(diag.dump_mode, FALSE),
           LinesAtEnd(diag.stats_mode, diag.dump_mode, diag'.lines, x, answer.status,
                      ingress_body(req, route, egress), sent.body, capture),
           phase' = "done" => wire = <<>> /\ (diag.dump_mode = "all" => x = 1)
    PROVE  PInv'
<1>1. UNCHANGED stream /\ UNCHANGED <<call, upstream>> /\ answer' = answer
      /\ req' = req /\ sent' = sent /\ guard' = guard /\ capture' = capture /\ wire' = wire
  BY DEF call, stream
<1>2. Streaming' /\ Sizes'
  BY <1>1, EndStreams DEF Final
<1>3. /\ guard = Closed /\ HasSent /\ {diag.stats_mode, diag.dump_mode} \subseteq Modes
      /\ diag.counter \in {0, 1}
  BY DEF PInv, Guarded, Known, Waiting
<1>4. HasSent' /\ (passthrough' <=> passthrough)
  BY <1>1, <1>3, StillSent DEF call
<1>5. Guarded'
  BY <1>1, <1>3, <1>4 DEF Guarded, Before, Waiting, Closed
<1>6. relayed'
  BY <1>1, StreamedIs, StillStreamed
<1>7. failed' = FALSE /\ shown_status' = answer.status
  BY <1>1, <1>6 DEF failed, shown_status
<1>8. guard'.id # None /\ ~unrecorded'
  BY <1>1, <1>3, NoneIs DEF Closed, unrecorded, ended, unclaimed
<1>c. PICK c : c = capture
  OBVIOUS
<1> DEFINE n == IF records(diag.dump_mode, FALSE) THEN 2 ELSE 0
           s == IF records(diag.stats_mode, FALSE) THEN 1 ELSE 0
           b == ingress_body(req, route, egress)
<1>9. LinesAre(diag'.lines, n, s, x, shown_status', failed', b, sent'.body, capture)
  BY <1>1, <1>7 DEF LinesAtEnd
<1>l. LinesAre(diag'.lines, n, s, x, shown_status', failed', b, sent'.body, c)
  BY <1>9, <1>c
<1>10. passthrough => b = req.fields
  BY <1>3, IngressIs
<1>11. /\ n \in {0, 2} /\ s \in {0, 1} /\ (n >= 1 => records(diag.dump_mode, FALSE))
       /\ (s = 1) = records(diag.stats_mode, FALSE)
       /\ diag.dump_mode = "all" => n = 2
  BY DEF records
<1> HIDE DEF n, s, b
<1>12. n >= 1 => /\ records(diag'.dump_mode, failed')
                 /\ guard'.id = None \/ passthrough' => b = req'.fields
   BY <1>1, <1>4, <1>7, <1>8, <1>10, <1>11
<1>13. n = 3 \/ x = 1 => Truthful(c)'
  <2> SUFFICES ASSUME x = 1 PROVE Truthful(c)'
    BY <1>11
  <2>1. Keeping
    <3>1. records(diag.dump_mode, FALSE)
      OBVIOUS
    <3> QED
      BY <3>1 DEF Keeping, dump_enabled, records
  <2> QED
    BY <1>1, <1>c, <2>1, CaptureIsTruthful
<1>14. diag'.dump_mode = "all" /\ phase' = "done" => n + x = 3
  BY <1>11
<1>15. (s = 1) = records(diag'.stats_mode, failed')
  BY <1>7, <1>11
<1>16. n \in 0 .. 3
  BY <1>11
<1>17. Told'
  BY <1>8, <1>l, <1>11, <1>12, <1>13, <1>14, <1>15, <1>16 DEF Told
<1> QED
  BY <1>2, <1>5, <1>17 DEF PInv

\* The stream is dumped when it is over.
LEMMA DumpedOver ==
    ASSUME PInv, Known', phase = "relay", phase' \in {"done", "failed", "gone"},
           UNCHANGED <<call, config, guard, sent, upstream, answer, out, stream>>,
           diag' = stream_dump(diag), phase' = "done" => wire = <<>>
    PROVE  PInv'
<1> DEFINE b == ingress_body(req, route, egress)
<1>1. IsDiag(diag) /\ guard = Closed
  BY DEF PInv, Guarded
<1>2. LinesOfRelay(diag.stats_mode, diag.dump_mode, diag.lines, answer.status, b, sent.body)
  BY DEF PInv, Guarded, LinesOfRelay
<1>3. IsStreamDump(diag', diag, upstream.status, capture)
  BY <1>1 DEF stream_dump, IsStreamDump, Closed
<1>4. IsDiag(diag') /\ diag'.stats_mode = diag.stats_mode /\ diag'.dump_mode = diag.dump_mode
      /\ diag'.counter = diag.counter
  <2>0. IsDiag(diag')
    BY <1>1, <1>2, <1>3, StreamDumpIs
  <2>1. diag'.stats_mode = diag.stats_mode
    BY <1>1, <1>2, <1>3, StreamDumpIs
  <2>2. diag'.dump_mode = diag.dump_mode
    BY <1>1, <1>2, <1>3, StreamDumpIs
  <2>3. diag'.counter = diag.counter
    BY <1>1, <1>2, <1>3, StreamDumpIs
  <2> QED
    BY <2>0, <2>1, <2>2, <2>3
<1>5. LinesOfStream(diag.stats_mode, diag.dump_mode, diag'.lines, answer.status, b, sent.body,
                    capture)
  BY <1>1, <1>2, <1>3, StreamDumpIs
<1>6. PICK x \in {0, 1} : x = IF records(diag.dump_mode, FALSE) THEN 1 ELSE 0
  OBVIOUS
<1>7. LinesAtEnd(diag.stats_mode, diag.dump_mode, diag'.lines, x, answer.status, b, sent.body,
                 capture)
  BY <1>5, <1>6 DEF LinesOfStream, LinesAtEnd
<1>8. (x = 1 => records(diag.dump_mode, FALSE)) /\ (diag.dump_mode = "all" => x = 1)
  BY <1>6 DEF records
<1> QED
  BY <1>4, <1>7, <1>8, RelayOver

\* At its end it is dumped.
LEMMA RelayEndsTold == ASSUME PInv, Known', RelayEnds PROVE PInv'
BY DumpedOver DEF RelayEnds

\* When it is dropped, it is dumped if any of it was kept.
LEMMA RelayDroppedTold == ASSUME PInv, Known', RelayDropped PROVE PInv'
<1>1. /\ phase = "relay" /\ phase' \in {"failed", "gone"}
      /\ phase' \in {"done", "failed", "gone"} /\ phase' # "done"
      /\ UNCHANGED <<call, config, guard, sent, upstream, answer, out, stream>>
  BY DEF RelayDropped
<1>2. CASE capture # <<>>
  BY <1>1, <1>2, DumpedOver DEF RelayDropped
<1>3. CASE capture = <<>>
  <2>1. diag' = diag
    BY <1>3 DEF RelayDropped
  <2>2. IsDiag(diag)
    BY DEF PInv, Guarded
  <2>3. PICK x \in {0, 1} : x = 0
    OBVIOUS
  <2>4. LinesAtEnd(diag.stats_mode, diag.dump_mode, diag'.lines, x, answer.status,
                   ingress_body(req, route, egress), sent.body, capture)
    BY <1>1, <1>3, <2>1, <2>3 DEF PInv, Guarded, LinesAtEnd
  <2>5. x = 1 => records(diag.dump_mode, FALSE)
    BY <2>3
  <2>6. /\ IsDiag(diag') /\ diag'.stats_mode = diag.stats_mode
        /\ diag'.dump_mode = diag.dump_mode /\ diag'.counter = diag.counter
    BY <2>1, <2>2
  <2> QED
    BY <1>1, <2>4, <2>5, <2>6, RelayOver
<1> QED
  BY <1>2, <1>3

-----------------------------------------------------------------------------
(* A stream that is translated *)

\* A stream that is translated ends with the report of its guard.
LEMMA TranslatedTold ==
    ASSUME PInv, Known', phase = "translate", phase' \in {"done", "failed", "gone"},
           UNCHANGED <<call, config, sent, upstream>>, answer' = answer,
           phase' # "gone", NEW c, Truthful(c)', NEW err \in BOOLEAN, failed' = err,
           \/ err = FALSE /\ Finish(response_dump(guard, 200, c), 200)
           \/ err = TRUE /\ FinishWithError(response_dump(guard, 200, c), 200)
    PROVE  Guarded' /\ Told'
<1> DEFINE g == response_dump(guard, 200, c)
           r == [status |-> 200, body |-> c]
<1>0. PICK st \in 200 .. 299 : st = 200
  OBVIOUS
<1>1. phase \in Waiting /\ UNCHANGED <<call, config, sent, upstream>>
  BY DEF Waiting
<1>2. g = [guard EXCEPT !.response = <<r>>] /\ g.response # <<>> /\ r.body = c
  BY <1>1, DumpIs
<1>3. (err = FALSE /\ Finish(g, st)) \/ (err = TRUE /\ FinishWithError(g, st))
  BY <1>0
<1> HIDE DEF r, g
<1>4. Reported(g, r, st, err)
  <2>1. CASE err = FALSE /\ Finish(g, st)
    BY <1>2, <2>1, FinishIs
  <2>2. CASE err = TRUE /\ FinishWithError(g, st)
    BY <1>2, <2>2, FinishIs
  <2> QED
    BY <1>3, <2>1, <2>2
<1>5. shown_status' = IF st = None THEN 0 ELSE st
  <2>1. answer.status = 200
    BY DEF PInv, Streaming
  <2>2. shown_status' = answer.status
    BY DEF shown_status
  <2>3. st # None
    BY NoneIs
  <2> QED
    BY <1>0, <2>1, <2>2, <2>3
<1>6. Truthful(r.body)'
  BY <1>2 DEF Truthful
<1>7. Guarded'
  BY <1>1, <1>2, <1>4, <1>5, <1>6, EndTold
<1>8. Told'
  BY <1>1, <1>2, <1>4, <1>5, <1>6, EndTold
<1> QED
  BY <1>7, <1>8

\* Translating keeps what it dumps.
LEMMA TranslateKeeps == phase = "translate" => Keeping
BY DEF Keeping

\* A stream that is translated comes to its end.
LEMMA TranslateEndsTold == ASSUME PInv, Known', TranslateEnds PROVE PInv'
<1>1. /\ phase = "translate" /\ phase' = "done" /\ wire = <<>>
      /\ UNCHANGED <<call, config, sent, upstream>> /\ answer' = answer
      /\ UNCHANGED stream /\ UNCHANGED <<call, upstream>> /\ capture' = capture /\ wire' = wire
      /\ Finish(response_dump(guard, 200, capture), 200)
  BY DEF TranslateEnds, FinishStream, stream
<1>2. PICK c : c = capture
  OBVIOUS
<1>3. Truthful(c)'
  BY <1>1, <1>2, TranslateKeeps, CaptureIsTruthful
<1>4. failed' = FALSE
  <2>1. answer.status = 200
    BY <1>1 DEF PInv, Streaming
  <2> QED
    BY <1>1, <2>1 DEF failed
<1>5. PICK err \in BOOLEAN : err = FALSE
  OBVIOUS
<1>6. Finish(response_dump(guard, 200, c), 200)
  BY <1>1, <1>2
<1>7. phase' \in {"done", "failed", "gone"} /\ phase' # "gone"
  BY <1>1
<1>8. Guarded' /\ Told'
  <2>1. Guarded'
    BY <1>1, <1>3, <1>4, <1>5, <1>6, <1>7, TranslatedTold
  <2>2. Told'
    BY <1>1, <1>3, <1>4, <1>5, <1>6, <1>7, TranslatedTold
  <2> QED
    BY <2>1, <2>2
<1>9. Streaming' /\ Sizes'
  BY <1>1, EndStreams DEF Final, Waiting
<1> QED
  BY <1>8, <1>9 DEF PInv

\* It breaks off: an error.
LEMMA TranslateBreaksTold == ASSUME PInv, Known', TranslateBreaks PROVE PInv'
<1>1. /\ phase = "translate" /\ phase' = "failed"
      /\ UNCHANGED <<call, config, sent, upstream>> /\ answer' = answer
      /\ UNCHANGED stream /\ UNCHANGED <<call, upstream>> /\ capture' = capture /\ wire' = wire
      /\ line_buf' = line_buf
      /\ FinishWithError(response_dump(guard, 200, capture), 200)
  BY DEF TranslateBreaks, stream
<1>2. PICK c : c = capture
  OBVIOUS
<1>3. Truthful(c)'
  BY <1>1, <1>2, TranslateKeeps, CaptureIsTruthful
<1>4. failed' = TRUE
  <2>1. Len(line_buf) <= LineLimit /\ Len(line_buf) \in Nat
    BY <1>1, TextIs DEF PInv, Sizes
  <2>2. ~too_long'
    BY <1>1, <2>1, ProxyAssumption DEF too_long
  <2>3. ~relayed'
    BY <1>1, StreamedIs, StillStreamed DEF Waiting
  <2> QED
    BY <1>1, <2>2, <2>3 DEF failed
<1>5. PICK err \in BOOLEAN : err = TRUE
  OBVIOUS
<1>6. FinishWithError(response_dump(guard, 200, c), 200)
  BY <1>1, <1>2
<1>7. phase' \in {"done", "failed", "gone"} /\ phase' # "gone"
  BY <1>1
<1>8. Guarded' /\ Told'
  <2>1. Guarded'
    BY <1>1, <1>3, <1>4, <1>5, <1>6, <1>7, TranslatedTold
  <2>2. Told'
    BY <1>1, <1>3, <1>4, <1>5, <1>6, <1>7, TranslatedTold
  <2> QED
    BY <2>1, <2>2
<1>9. Streaming' /\ Sizes'
  BY <1>1, EndStreams DEF Final, Waiting
<1> QED
  BY <1>8, <1>9 DEF PInv

\* A chunk of a stream that is translated.
Chunk(n) ==
    /\ n <= Len(wire)
    /\ wire' = SubSeq(wire, n + 1, Len(wire))
    /\ capture' = captured(SubSeq(wire, 1, n))

\* What is kept with a chunk is the beginning of the stream.
LEMMA ChunkKept ==
    ASSUME PInv, phase = "translate", UNCHANGED <<call, upstream>>, NEW n \in Nat, Chunk(n)
    PROVE  /\ \A c : c = capture' => Truthful(c)'
           /\ Text(SubSeq(wire, 1, n)) /\ Len(capture') <= DumpLimit
<1> DEFINE all == stream_bytes(upstream)
           b == SubSeq(wire, 1, n)
           w == SubSeq(wire, n + 1, Len(wire))
<1>0. PICK on \in BOOLEAN : on = TRUE
  OBVIOUS
<1>1. Text(all)
  BY ArrivedIs
<1>2. PICK k \in Nat : Came(k, all, wire, capture, on)
  BY <1>0, ArrivedIs, TranslateKeeps DEF Came
<1>3. streamed' /\ stream_bytes(upstream)' = all
  BY StreamedIs, StillStreamed DEF Waiting
<1>4. n <= Len(wire) /\ wire' = w /\ capture' = captured(b)
  BY DEF Chunk
<1> HIDE DEF all, b, w
<1> DEFINE c == captured(b)
<1>5. c = IF on THEN captured(b) ELSE capture
  BY <1>0
<1>6. b = SubSeq(wire, 1, n) /\ w = SubSeq(wire, n + 1, Len(wire))
  BY DEF b, w
<1>c. capture' = c
  BY <1>4
<1> HIDE DEF c
<1>7. Came(k + n, all, w, c, on) /\ Text(b) /\ k + n \in Nat
  BY <1>1, <1>2, <1>4, <1>5, <1>6, ChunkArrives
<1>8. /\ IsPrefix(c, all) /\ Len(c) <= DumpLimit
      /\ w = <<>> => Len(c) = Min({DumpLimit, Len(all)})
  BY <1>0, <1>1, <1>7, BeginningKept
<1>9. \A x : x = capture' => Truthful(x)'
  BY <1>3, <1>4, <1>8, <1>c DEF Truthful
<1> QED
  BY <1>6, <1>7, <1>8, <1>9, <1>c

\* The text that is translated.
Pending(n) == line_buf \o lossy(SubSeq(wire, 1, n))

\* What is to be translated is a text, and what is left of it is not longer.
LEMMA PendingIs ==
    ASSUME PInv, NEW n, Text(SubSeq(wire, 1, n))
    PROVE  /\ Text(Pending(n)) /\ Len(Pending(n)) \in Nat
           /\ Text(rest_of(Pending(n))) /\ Len(rest_of(Pending(n))) <= Len(Pending(n))
<1>1. Text(line_buf) /\ Text(lossy(SubSeq(wire, 1, n)))
  BY LossyIsText DEF PInv, Sizes
<1>2. Joined(Pending(n), line_buf, lossy(SubSeq(wire, 1, n)))
  BY DEF Joined, Pending
<1>3. Text(Pending(n))
  BY <1>1, <1>2, TextConcat
<1> QED
  BY <1>3, TextIs, RestIs

\* Whether the message is closed by what arrives.
Closes(n) == closes_at(events_in(Pending(n)), translating) # {}

\* What a chunk does: a text that is too long, an end, or neither.
LEMMA TranslateChunkIs ==
    ASSUME NEW n \in ChunkSizes, TranslateChunk(n)
    PROVE  /\ phase = "translate" /\ Chunk(n) /\ UNCHANGED <<call, config, sent, upstream>>
           /\ answer' = answer
           /\ Len(Pending(n)) > LineLimit =>
                 /\ phase' = "failed" /\ Finish(response_dump(guard, 200, capture'), 200)
                 /\ line_buf' = Pending(n) /\ translating' = translating
           /\ ~(Len(Pending(n)) > LineLimit) =>
                 /\ line_buf' = rest_of(Pending(n)) /\ translating' \in BOOLEAN
                 /\ \/ phase' = "done" /\ Finish(response_dump(guard, 200, capture'), 200)
                    \/ phase' = phase /\ UNCHANGED <<guard, diag>>
<1>1. /\ phase = "translate" /\ Chunk(n) /\ UNCHANGED <<call, config, sent, upstream>>
      /\ answer' = answer
  BY DEF TranslateChunk, Chunk
<1>2. Len(Pending(n)) > LineLimit =>
         /\ phase' = "failed" /\ Finish(response_dump(guard, 200, capture'), 200)
         /\ line_buf' = Pending(n) /\ translating' = translating
  BY DEF TranslateChunk, Pending, FinishStream
<1>3. ~(Len(Pending(n)) > LineLimit) =>
         /\ line_buf' = rest_of(Pending(n))
         /\ translating' \in BOOLEAN
         /\ IF Closes(n) /\ egress = "anthropic"
            THEN phase' = "done" /\ Finish(response_dump(guard, 200, capture'), 200)
            ELSE UNCHANGED <<phase, guard, diag>>
  BY DEF TranslateChunk, Pending, FinishStream, Closes
<1> QED
  BY <1>1, <1>2, <1>3

\* A chunk is translated.
LEMMA TranslateChunkTold ==
    ASSUME PInv, Known', NEW n \in ChunkSizes, TranslateChunk(n) PROVE PInv'
<1>1. /\ phase = "translate" /\ Chunk(n) /\ UNCHANGED <<call, config, sent, upstream>>
      /\ answer' = answer /\ UNCHANGED <<call, upstream>> /\ n \in Nat
  BY TranslateChunkIs, ProxyAssumption
<1>2. /\ \A c : c = capture' => Truthful(c)'
      /\ Text(SubSeq(wire, 1, n)) /\ Len(capture') <= DumpLimit
  BY <1>1, ChunkKept
<1>3. /\ Text(Pending(n)) /\ Len(Pending(n)) \in Nat
      /\ Text(rest_of(Pending(n))) /\ Len(rest_of(Pending(n))) <= Len(Pending(n))
  BY <1>2, PendingIs
<1>4. /\ answer.status = 200 /\ answer.status \in 200 .. 999 /\ translating \in BOOLEAN
      /\ answer # None => answer.status \in 200 .. 999
      /\ LineLimit \in Nat
  BY <1>1, ProxyAssumption DEF PInv, Streaming, Sizes
<1>5. PICK err \in BOOLEAN : err = FALSE
  OBVIOUS
<1>6. PICK c : c = capture'
  OBVIOUS
<1>7. Truthful(c)'
  BY <1>2, <1>6
<1>8. ~relayed'
  BY <1>1, StreamedIs, StillStreamed DEF Waiting
<1>9. CASE Len(Pending(n)) > LineLimit
  <2>1. /\ phase' = "failed" /\ Finish(response_dump(guard, 200, c), 200)
        /\ line_buf' = Pending(n) /\ translating' = translating
    BY <1>6, <1>9, TranslateChunkIs
  <2>2. failed' = FALSE
    BY <1>9, <2>1 DEF failed, too_long
  <2>3. phase' \in {"done", "failed", "gone"} /\ phase' # "gone"
    BY <2>1
  <2>4. Guarded'
    BY <1>1, <1>5, <1>7, <2>1, <2>2, <2>3, TranslatedTold
  <2>5. Told'
    BY <1>1, <1>5, <1>7, <2>1, <2>2, <2>3, TranslatedTold
  <2>6. Streaming' /\ Sizes'
    BY <1>1, <1>2, <1>3, <1>4, <2>1 DEF Streaming, Sizes, Before, Text
  <2> QED
    BY <2>4, <2>5, <2>6 DEF PInv
<1>10. CASE ~(Len(Pending(n)) > LineLimit)
  <2>1. /\ line_buf' = rest_of(Pending(n)) /\ translating' \in BOOLEAN
        /\ \/ phase' = "done" /\ Finish(response_dump(guard, 200, c), 200)
           \/ phase' = phase /\ UNCHANGED <<guard, diag>>
    BY <1>6, <1>10, TranslateChunkIs
  <2>2. Sizes'
    <3>1. Len(line_buf') <= LineLimit
      <4>1. Len(rest_of(Pending(n))) \in Nat
        BY <1>3, TextIs
      <4> QED
        BY <1>3, <1>4, <1>10, <2>1, <4>1
    <3>2. Text(line_buf)'
      BY <1>3, <2>1 DEF Text
    <3> QED
      BY <1>1, <1>2, <1>4, <2>1, <3>1, <3>2 DEF Sizes
  <2>3. CASE phase' = "done" /\ Finish(response_dump(guard, 200, c), 200)
    <3>1. failed' = FALSE
      BY <1>1, <1>4, <2>3 DEF failed
    <3>2. phase' \in {"done", "failed", "gone"} /\ phase' # "gone"
      BY <2>3
    <3>3. Guarded'
      BY <1>1, <1>5, <1>7, <2>3, <3>1, <3>2, TranslatedTold
    <3>4. Told'
      BY <1>1, <1>5, <1>7, <2>3, <3>1, <3>2, TranslatedTold
    <3>5. Streaming'
      BY <2>3 DEF Streaming, Before
    <3> QED
      BY <2>2, <3>3, <3>4, <3>5 DEF PInv
  <2>4. CASE phase' = phase /\ UNCHANGED <<guard, diag>>
    <3>1. phase \in Waiting /\ phase' \in Waiting
          /\ UNCHANGED <<call, config, sent, guard, diag>>
      BY <1>1, <2>4 DEF Waiting
    <3>2. Guarded' /\ Told'
      BY <3>1, WaitsTold
    <3>3. /\ phase \in {"relay", "translate"} /\ phase' = phase
          /\ UNCHANGED <<call, config, sent, upstream, answer, diag>>
          /\ n <= Len(wire) /\ wire' = SubSeq(wire, n + 1, Len(wire))
          /\ capture' = IF Keeping THEN captured(SubSeq(wire, 1, n)) ELSE capture
      BY <1>1, <2>4, TranslateKeeps DEF Chunk
    <3>4. Streaming'
      BY <1>1, <3>3, StreamGoesOn
    <3> QED
      BY <2>2, <3>2, <3>4 DEF PInv
  <2> QED
    BY <2>1, <2>3, <2>4
<1> QED
  BY <1>9, <1>10

-----------------------------------------------------------------------------
(* All steps *)

\* At the start nothing is told.
LEMMA InitPInv == ASSUME NEW c \in Calls, proxyInit(c) PROVE PInv
<1>1. /\ phase = "load" /\ route = None /\ guard = NoGuard /\ sent = None /\ upstream = None
      /\ answer = None /\ line_buf = <<>> /\ capture = <<>> /\ translating = FALSE
      /\ diag = [stats_mode |-> "off", dump_mode |-> "off", counter |-> 0, lines |-> <<>>]
  BY DEF proxyInit
<1>2. Known
  BY InitKnown
<1>3. IsDiag(diag) /\ diag.lines = <<>> /\ diag.counter = 0
      /\ {diag.stats_mode, diag.dump_mode} \subseteq Modes
  BY <1>1 DEF IsDiag, Modes
<1>4. Guarded
  BY <1>1, <1>3 DEF Guarded, Before, Waiting
<1>5. Streaming
  BY <1>1 DEF Streaming
<1>6. Sizes
  <2>1. Text(line_buf) /\ Len(line_buf) = 0 /\ Len(capture) = 0
    BY <1>1, ShortTexts
  <2>2. Len(line_buf) <= LineLimit /\ Len(capture) <= DumpLimit
    BY <2>1, ProxyAssumption
  <2>3. translating \in BOOLEAN /\ ~(answer # None)
    BY <1>1
  <2> QED
    BY <2>1, <2>2, <2>3 DEF Sizes
<1>7. unrecorded
  BY <1>1 DEF unrecorded, ended, unclaimed
<1>8. Told
  BY <1>1, <1>3, <1>7, NoLinesTold
<1> QED
  BY <1>2, <1>4, <1>5, <1>6, <1>8 DEF PInv

\* Calls of the other kind, and calls that are over.
LEMMA UnchangedPInv == PInv /\ UNCHANGED proxyVars => PInv'
<1> SUFFICES ASSUME PInv, UNCHANGED proxyVars PROVE PInv'
  OBVIOUS
<1>1. /\ UNCHANGED <<raw, config, req, phase, route, guard, diag, sent, upstream, wire>>
      /\ UNCHANGED <<line_buf, capture, translating, answer, out>>
      /\ UNCHANGED <<call, upstream>> /\ UNCHANGED <<raw, req, route, sent>>
  BY DEF proxyVars, call
<1>2. Known'
  BY <1>1, StillSent DEF PInv, Known
<1>3. /\ egress' = egress /\ (passthrough' <=> passthrough) /\ (HasSent' <=> HasSent)
      /\ streamed' = streamed /\ relayed' = relayed
      /\ stream_bytes(upstream)' = stream_bytes(upstream)
  BY <1>1, StillSent, StillStreamed
<1>4. Guarded'
  BY <1>1, <1>3 DEF PInv, Guarded, Open, too_large
<1>5. Streaming'
  BY <1>1, <1>3 DEF PInv, Streaming, Arrived, phase_after
<1>6. Sizes'
  BY <1>1 DEF PInv, Sizes, Text
<1>7. Told'
  <2>1. failed' = failed /\ shown_status' = shown_status /\ unrecorded' = unrecorded
    BY <1>1, <1>3 DEF failed, too_long, shown_status, unrecorded, ended, unclaimed, too_large
  <2>2. \A body : Truthful(body)' <=> Truthful(body)
    BY <1>1, <1>3 DEF Truthful
  <2> QED
    BY <1>1, <1>3, <2>1, <2>2 DEF PInv, Told
<1> QED
  BY <1>2, <1>4, <1>5, <1>6, <1>7 DEF PInv

\* Every step tells what happened.
LEMMA NextPInv == PInv /\ proxyNext => PInv'
<1> SUFFICES ASSUME PInv, proxyNext PROVE PInv'
  OBVIOUS
<1>0. Known'
  BY NextKnown DEF PInv
<1>1. CASE Load
  BY <1>0, <1>1, LoadTold
<1>2. CASE TooLarge
  BY <1>0, <1>2, TooLargeTold
<1>3. CASE Reject
  BY <1>0, <1>3, RejectTold
<1>4. CASE Dispatch
  BY <1>0, <1>4, DispatchTold
<1>5. CASE Refuse
  BY <1>0, <1>5, RefuseTold
<1>6. CASE Send
  BY <1>0, <1>6, SendTold
<1>7. CASE SendFails
  BY <1>0, <1>7, SendFailsTold
<1>8. CASE UpstreamAnswers
  BY <1>0, <1>8, UpstreamAnswersTold
<1>9. CASE ReadErrorBody
  BY <1>0, <1>9, ReadErrorBodyTold
<1>10. CASE ReadFails
  BY <1>0, <1>10, ReadFailsTold
<1>11. CASE RelayBody
  BY <1>0, <1>11, RelayBodyTold
<1>12. CASE ConvertBody
  BY <1>0, <1>12, ConvertBodyTold
<1>13. CASE \E n \in ChunkSizes : RelayChunk(n) \/ TranslateChunk(n)
  BY <1>0, <1>13, RelayChunkTold, TranslateChunkTold
<1>14. CASE RelayEnds
  BY <1>0, <1>14, RelayEndsTold
<1>15. CASE RelayDropped
  BY <1>0, <1>15, RelayDroppedTold
<1>16. CASE TranslateEnds
  BY <1>0, <1>16, TranslateEndsTold
<1>17. CASE TranslateBreaks
  BY <1>0, <1>17, TranslateBreaksTold
<1>18. CASE ClientGone
  BY <1>0, <1>18, ClientGoneTold
<1>19. CASE UNCHANGED proxyVars
  BY <1>19, UnchangedPInv
<1> QED
  BY <1>1, <1>2, <1>3, <1>4, <1>5, <1>6, <1>7, <1>8, <1>9, <1>10, <1>11, <1>12, <1>13,
     <1>14, <1>15, <1>16, <1>17, <1>18, <1>19 DEF proxyNext

\* The invariant of the calls for a completion.
LEMMA PInvAlways == Spec => []PInv
<1>1. Init => PInv
  BY InitPInv, ProxyAssumption DEF Init
<1>2. PInv /\ [Next]_vars => PInv'
  <2> SUFFICES ASSUME PInv, [Next]_vars PROVE PInv'
    OBVIOUS
  <2>1. CASE client = "messages" /\ proxyNext
    BY <2>1, NextPInv
  <2>2. CASE UNCHANGED proxyVars
    BY <2>2, UnchangedPInv
  <2> QED
    BY <2>1, <2>2 DEF Next, vars
<1> QED
  BY <1>1, <1>2, PTL DEF Spec

\* However a call ends - refused, answered, broken off, dropped by its client in
\* the middle of a stream, or failed twice - it leaves one line of statistics if
\* the mode asks for it, with what became of it (RequestDiagnostics::report and
\* its Drop).
THEOREM ReportedOnceAlways == Spec => []ReportedOnce
<1>1. PInv => ReportedOnce
  BY ToldIs DEF PInv
<1> QED
  BY <1>1, PInvAlways, PTL

\* The dumps of a call are what the client and the provider said, in this order,
\* the beginning of a stream up to MAX_STREAMING_DUMP_BYTES wherever the
\* transport cut it, and nothing of a call the mode does not ask for
\* (flush_deferred_dumps, DiagnosticStream).
THEOREM DumpsTellTheTruthAlways == Spec => []DumpsTellTheTruth
<1>1. PInv => DumpsTellTheTruth
  BY ToldIs DEF PInv
<1> QED
  BY <1>1, PInvAlways, PTL

\* The invariant has the types of these calls.
LEMMA ProxyTypesAre == PInv => ProxyTypeOK
<1> SUFFICES ASSUME PInv PROVE ProxyTypeOK
  OBVIOUS
<1>1. /\ phase \in Phase /\ req.ingress \in {"openai", "anthropic"}
      /\ {diag.stats_mode, diag.dump_mode} \subseteq Modes /\ diag.counter \in {0, 1}
  BY DEF PInv, Known, is_call, Guarded
<1>2. /\ translating \in BOOLEAN /\ Len(capture) <= DumpLimit
      /\ phase # "failed" => Len(line_buf) <= LineLimit
      /\ answer # None => answer.status \in 200..999
  BY DEF PInv, Sizes
<1>3. /\ phase \in Before => guard = NoGuard /\ sent = None
      /\ phase \in Waiting => guard = Open /\ HasSent
      /\ phase = "relay" => guard = Closed /\ HasSent
      /\ phase \in {"done", "failed", "gone"} =>
            (guard = NoGuard /\ sent = None) \/ (guard = Closed /\ HasSent)
  BY DEF PInv, Guarded, Known
<1>4. Phase = Before \union Waiting \union {"relay"} \union {"done", "failed", "gone"}
  BY DEF Phase, Ended, Before, Waiting
<1>5. /\ NoGuard.finished = TRUE /\ NoGuard.id = None
      /\ Closed.finished = TRUE /\ Closed.id # None
      /\ Open.finished = FALSE /\ Open.id # None
  BY NoneIs DEF NoGuard, Closed, Open
<1>6. HasSent => sent.protocol = egress
  BY DEF HasSent
<1>7. ~guard.finished <=> phase \in {"send", "error_body", "body", "translate"}
  BY <1>1, <1>3, <1>4, <1>5 DEF Waiting, Before
<1>8. IF guard.id = None THEN sent = None ELSE sent.protocol = egress
  BY <1>1, <1>3, <1>4, <1>5, <1>6
<1> QED
  BY <1>1, <1>2, <1>7, <1>8 DEF ProxyTypeOK

\* The invariant has the types of the calls for the health.
LEMMA HealthTypesAre == HInv => HealthTypeOK
<1> SUFFICES ASSUME HInv PROVE HealthTypeOK
  OBVIOUS
<1>1. \A p \in Prober : probing[p] # None =>
         probing[p].age \in 0..CheckTimeout /\ DOMAIN probing[p].status = endpoints
  BY DEF HInv, HealthTypes, Runs
<1>2. health_cache = None
         \/ (health_cache.ok \in BOOLEAN /\ health_cache.age \in 0..MaxAge)
  BY DEF HInv, HealthTypes, Results
<1> QED
  BY <1>1, <1>2 DEF HInv, HealthTypes, HealthTypeOK

\* The types of both kinds of calls; the two buffers of a stream stay within
\* their limits (MAX_SSE_LINE_LENGTH, MAX_STREAMING_DUMP_BYTES), and the guard of
\* a call is open exactly while something is awaited that finishes it.
THEOREM TypeOKAlways == Spec => []TypeOK
<1>1. PInv /\ HInv => TypeOK
  BY ProxyTypesAre, HealthTypesAre DEF TypeOK
<1> QED
  BY <1>1, PInvAlways, HInvAlways, PTL

=============================================================================
