------------------------------- MODULE Health -------------------------------
(***************************************************************************)
(* GET /health (src/router.rs): the endpoints are probed at once, each for  *)
(* CheckTimeout at most, and the result is kept for CacheTtl.  Requests that *)
(* find no fresh result probe side by side, and any of them may be dropped  *)
(* by its client.                                                           *)
(*                                                                         *)
(* Time passes in ticks; what takes no time in the code is done before the  *)
(* next one.                                                                *)
(***************************************************************************)
EXTENDS Configuration

CONSTANTS
    Prober,        \* requests that may be probing at the same time
    CacheTtl,      \* CACHE_TTL, in ticks
    CheckTimeout,  \* CHECK_TIMEOUT, in ticks
    MaxAge         \* bound: older than this is the same

ASSUME HealthAssumption ==
    /\ CacheTtl \in Nat \ {0} /\ CheckTimeout \in Nat /\ MaxAge \in Nat
    /\ None \notin {"ok", "degraded"}

VARIABLES
    endpoints,     \* what is probed
    state,         \* state[e]: "up", "down", or "slow" to answer
    since_ok,      \* history: since_ok[e], how long ago e was up
    since_bad,     \* history: since_bad[e], how long ago e was not
    health_cache,  \* None, or [ok, age]
    probing,       \* probing[p]: None, or [age, status], the status of each endpoint
    told           \* history: what was answered in the last step

healthVars == <<endpoints, state, since_ok, since_bad, health_cache, probing, told>>
service == <<endpoints, state, since_ok, since_bad>>

fresh_always(c) == c # None   \* mutant
fresh(c) == IF c = None THEN FALSE ELSE c.age < CacheTtl

waiting(p, e) == probing[p] # None /\ probing[p].status[e] = "pending"

\* From the cache; both locks are released before anything is probed.
AnswerFromCache ==
    /\ fresh(health_cache)
    /\ told' = IF health_cache.ok THEN "ok" ELSE "degraded"
    /\ UNCHANGED <<service, health_cache, probing>>

StartProbe(p) ==
    /\ probing[p] = None /\ ~fresh(health_cache)
    /\ probing' = [probing EXCEPT ![p] =
                       [age |-> 0, status |-> [e \in endpoints |-> "pending"]]]
    /\ told' = None
    /\ UNCHANGED <<service, health_cache>>

learn(run, e, s) == [age |-> run.age, status |-> [run.status EXCEPT ![e] = s]]

\* Any answer is a sign of life, whatever its status.
Probe(p, e) ==
    /\ waiting(p, e)
    /\ \/ state[e] = "up" /\ probing' = [probing EXCEPT ![p] = learn(@, e, "ok")]
       \/ state[e] = "down" /\ probing' = [probing EXCEPT ![p] = learn(@, e, "unreachable")]
       \/ /\ state[e] = "slow" /\ probing[p].age = CheckTimeout
          /\ probing' = [probing EXCEPT ![p] = learn(@, e, "timeout")]
    /\ told' = None
    /\ UNCHANGED <<service, health_cache>>

\* join_all: all of them have a status.  The result is new when it is kept.
FinishProbe(p) ==
    /\ probing[p] # None /\ \A e \in endpoints : ~waiting(p, e)
    /\ LET all_ok == \A e \in endpoints : probing[p].status[e] = "ok"
       IN /\ health_cache' = [ok |-> all_ok, age |-> 0]
          /\ told' = IF all_ok THEN "ok" ELSE "degraded"
    /\ probing' = [probing EXCEPT ![p] = None]
    /\ UNCHANGED service

\* The client disconnects.
ProbeDropped(p) ==
    /\ probing[p] # None
    /\ probing' = [probing EXCEPT ![p] = None]
    /\ told' = None
    /\ UNCHANGED <<service, health_cache>>

\* The providers (external) and time.
Change(e) ==
    /\ \E s \in {"up", "down", "slow"} :
          /\ s # state[e] /\ state' = [state EXCEPT ![e] = s]
          /\ IF s = "up" THEN since_ok' = [since_ok EXCEPT ![e] = 0] /\ UNCHANGED since_bad
             ELSE since_bad' = [since_bad EXCEPT ![e] = 0] /\ UNCHANGED since_ok
    /\ told' = None
    /\ UNCHANGED <<endpoints, health_cache, probing>>

older(n) == Min({n + 1, MaxAge})

Tick ==
    /\ \A p \in Prober : probing[p] # None =>
           /\ probing[p].age < CheckTimeout
           /\ \E e \in endpoints : waiting(p, e)
           /\ \A e \in endpoints : waiting(p, e) => state[e] = "slow"
    /\ since_ok' = [e \in endpoints |-> IF state[e] = "up" THEN 0 ELSE older(since_ok[e])]
    /\ since_bad' = [e \in endpoints |-> IF state[e] = "up" THEN older(since_bad[e]) ELSE 0]
    /\ health_cache' = IF health_cache = None THEN None
                       ELSE [ok |-> health_cache.ok, age |-> older(health_cache.age)]
    /\ probing' = [p \in Prober |-> IF probing[p] = None THEN None
                                    ELSE [age |-> probing[p].age + 1, status |-> probing[p].status]]
    /\ told' = None
    /\ UNCHANGED <<endpoints, state>>

\* E is empty if nobody asks for the health.
healthInit(E) ==
    /\ endpoints = E
    /\ state = [e \in E |-> "up"]
    /\ since_ok = [e \in E |-> 0] /\ since_bad = [e \in E |-> MaxAge]
    /\ health_cache = None /\ probing = [p \in Prober |-> None] /\ told = None

healthNext ==
    \/ AnswerFromCache \/ Tick
    \/ \E p \in Prober : StartProbe(p) \/ FinishProbe(p) \/ ProbeDropped(p)
    \/ \E p \in Prober, e \in endpoints : Probe(p, e)
    \/ \E e \in endpoints : Change(e)

-----------------------------------------------------------------------------
(* Properties *)

HealthTypeOK ==
    /\ state \in [endpoints -> {"up", "down", "slow"}]
    /\ since_ok \in [endpoints -> 0..MaxAge] /\ since_bad \in [endpoints -> 0..MaxAge]
    /\ health_cache = None
       \/ (health_cache.ok \in BOOLEAN /\ health_cache.age \in 0..MaxAge)
    /\ \A p \in Prober : probing[p] # None =>
           /\ probing[p].age \in 0..CheckTimeout
           /\ DOMAIN probing[p].status = endpoints
    /\ told \in {None, "ok", "degraded"}

\* The answer is about the recent past, also if an older and slower probe has
\* replaced the result of a newer one: "ok" says that every endpoint was up, and
\* "degraded" that one was not, no longer ago than the result may be kept and a
\* probe may take.
HealthIsRecent ==
    LET Recent == CacheTtl - 1 + CheckTimeout
    IN /\ told = "ok" => \A e \in endpoints : since_ok[e] <= Recent
       /\ told = "degraded" => \E e \in endpoints : since_bad[e] <= Recent

=============================================================================
