------------------------------- MODULE Server -------------------------------
(***************************************************************************)
(* The HTTP server: the calls for a completion (Proxy) and for the health   *)
(* of the providers (Health), under one configuration.  They share nothing  *)
(* that changes, so the clients of a behaviour make calls of one kind.      *)
(***************************************************************************)
EXTENDS Proxy, Health

CONSTANT HealthFiles   \* the configuration files of the calls for the health

VARIABLE client   \* "messages" or "health"

vars == <<proxyVars, healthVars, client>>

\* The variables of the kind that is not called keep their first value.
Init ==
    \/ /\ client = "messages" /\ healthInit({})
       /\ \E c \in Calls : proxyInit(c)
    \/ /\ client = "health" /\ proxyInit(CHOOSE c \in Calls : TRUE)
       /\ \E f \in HealthFiles :
              is_valid(f) /\ healthInit(upstream_endpoints(from_file_config(f)))

Next ==
    \/ client = "messages" /\ proxyNext /\ UNCHANGED <<healthVars, client>>
    \/ client = "health" /\ healthNext /\ UNCHANGED <<proxyVars, client>>

Spec == Init /\ [][Next]_vars

TypeOK == ProxyTypeOK /\ HealthTypeOK

=============================================================================
