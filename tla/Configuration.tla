--------------------------- MODULE Configuration ---------------------------
(***************************************************************************)
(* What the configuration file says and how it is read (src/config.rs): the *)
(* provider sections, which section owns a model, what may be sent to it.   *)
(*                                                                         *)
(* A raw configuration is a record with the fields of the file.  An         *)
(* endpoint as written is [url, padded]: blanks around it and slashes after *)
(* it do not count.  A name or a text that is only blanks is "".  A size or  *)
(* a duration is a number and a suffix, [n, unit]; n is None if it is no     *)
(* number.                                                                   *)
(***************************************************************************)
EXTENDS Integers, Sequences, FiniteSets, SequencesExt, FiniteSetsExt

CONSTANTS
    None,         \* what is not set
    Env,          \* the environment variables: name -> text
    SecretFiles,  \* the files in secrets/: name -> text
    Addresses,    \* the texts that are an IP address
    NoHeader,     \* the texts with bytes that no header may have
    MaxSize       \* usize::MAX, u64::MAX

ASSUME ConfigurationAssumption == MaxSize \in Nat

Caps == {"max_tokens", "max_output_tokens", "max_completion_tokens"}
Protocols == {"openai", "anthropic", "interactions"}

Lookup(f, x) == IF x \in DOMAIN f THEN f[x] ELSE None
or(a, b) == IF a # None THEN a ELSE b

-----------------------------------------------------------------------------
(* The values of the file *)

byte_unit == [k |-> 1024, m |-> 1024 * 1024, g |-> 1024 * 1024 * 1024]
time_unit == [s |-> 1, m |-> 60]

\* None if it is no number, has another suffix, or overflows.
parsed(v, unit) ==
    IF v.unit \in DOMAIN unit /\ v.n # None /\ v.n <= MaxSize \div unit[v.unit]
    THEN v.n * unit[v.unit] ELSE None

parse_byte_size(v) == parsed(v, byte_unit)
parse_duration(v) == parsed(v, time_unit)

listen_host(raw) ==
    or(or(raw.listen_host, Lookup(Env, "INF_SPLITTER_LISTEN_HOST")), "127.0.0.1")

diagnostics_refused(d) ==
    \/ d.flush_period # None /\ parse_duration(d.flush_period) = None
    \/ \E size \in {d.max_file_size, d.max_rotated_size} :
           size # None /\ parse_byte_size(size) = None

trimmed_endpoint(e) == IF e = None THEN None ELSE IF e.url = "" THEN None ELSE e.url

\* The environment is asked first; a variable or a file that is blank is none.
resolve_var(name) ==
    LET set(text) == text \notin {None, ""}
        env == Lookup(Env, name)
        file == Lookup(SecretFiles, name)
    IN IF set(env) THEN env ELSE IF set(file) THEN file ELSE None

\* api_key = "${NAME}" is [var |-> NAME], any other text is [value |-> text].
resolve_secret(key) ==
    IF "var" \in DOMAIN key THEN resolve_var(key.var) ELSE key.value

\* models is a name or a list of names.
is_default(models) == ~models.list /\ models.names = <<"default">>
models_valid(models) ==
    /\ models.names # <<>>
    /\ "" \notin ToSet(models.names)
    /\ models.list => "default" \notin ToSet(models.names)
model_names(models) == IF is_default(models) THEN {} ELSE ToSet(models.names)

-----------------------------------------------------------------------------
(* drop_fields: [all |-> fields, by_model |-> (model -> fields)]; a flat list *)
(* has no models.                                                            *)

for_model(drop, model) ==
    drop.all \union IF model \in DOMAIN drop.by_model THEN drop.by_model[model] ELSE {}

-----------------------------------------------------------------------------
(* Reading the file *)

ProviderSection(s) ==
    [endpoint |-> [p \in Protocols |-> trimmed_endpoint(s.endpoint[p])],
     api_key |-> IF s.api_key = None THEN None ELSE resolve_secret(s.api_key),
     cap |-> s.cap, drop_fields |-> s.drop_fields, model_names |-> model_names(s.models)]

section_refused(s) ==
    \/ \A p \in Protocols : trimmed_endpoint(s.endpoint[p]) = None
    \/ s.proxy_limit # None /\ parse_byte_size(s.proxy_limit) = None
    \/ s.api_key # None /\ resolve_secret(s.api_key) \in {None, ""} \union NoHeader
    \/ ~models_valid(s.models)
    \/ ~is_default(s.models)
       /\ ~(DOMAIN s.drop_fields.by_model \subseteq model_names(s.models))

\* from_file_config; which of several errors is reported depends on the order
\* of a hash map and is left out.
is_valid(raw) ==
    LET S == raw.sections
        names == DOMAIN S
    IN /\ names # {}
       /\ listen_host(raw) \in Addresses
       /\ ~diagnostics_refused(raw.diagnostics)
       /\ parse_duration(raw.upstream_timeout) # None
       /\ parse_byte_size(raw.max_request_body) # None
       /\ \A s \in names : ~section_refused(S[s])
       /\ \A s, t \in names : s # t =>
              /\ ~(is_default(S[s].models) /\ is_default(S[t].models))
              /\ model_names(S[s].models) \intersect model_names(S[t].models) = {}

from_file_config(raw) ==
    LET S == raw.sections
        routed == UNION {model_names(S[s].models) : s \in DOMAIN S}
        default == {s \in DOMAIN S : is_default(S[s].models)}
    IN [sections |-> [s \in DOMAIN S |-> ProviderSection(S[s])],
        model_routes |-> [m \in routed |->
            CHOOSE s \in DOMAIN S : m \in model_names(S[s].models)],
        default_section |-> IF default = {} THEN None ELSE CHOOSE s \in default : TRUE,
        default_cap |-> raw.default_cap,
        error_translation |-> raw.error_translation,
        max_request_body |-> parse_byte_size(raw.max_request_body),
        diagnostics |-> raw.diagnostics]

-----------------------------------------------------------------------------
(* Questions about a configuration *)

section_of(config, model) ==
    or(Lookup(config.model_routes, model), config.default_section)

\* resolve_route: the section of the model, with the global limits where it
\* has none.
resolve_route(config, model) ==
    LET name == section_of(config, model)
        s == config.sections[name]
    IN IF name = None THEN None
       ELSE [section |-> name, endpoint |-> s.endpoint, api_key |-> s.api_key,
             cap |-> [c \in Caps |-> or(s.cap[c], config.default_cap[c])],
             drop_fields |-> s.drop_fields]

\* What GET /health probes: every endpoint once, under one of its sections.
upstream_endpoints(config) ==
    {config.sections[s].endpoint[p] : s \in DOMAIN config.sections, p \in Protocols}
        \ {None}

=============================================================================
