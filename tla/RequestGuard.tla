---------------------------- MODULE RequestGuard ----------------------------
(***************************************************************************)
(* The guard of a request in the diagnostics (RequestDiagnostics in         *)
(* src/diagnostics.rs): it keeps what is to be dumped and hands it, with    *)
(* one line of statistics, to the outputs when the request is finished, or  *)
(* when the guard is dropped.  What the outputs do is DiagnosticsWriter.    *)
(*                                                                         *)
(* The operators take the records of the guard and of the diagnostics,      *)
(* [stats_mode, dump_mode, counter, lines], and return both.                *)
(***************************************************************************)
EXTENDS Configuration

Modes == {"off", "error", "all"}

\* DiagnosticMode: what is recorded of a line that is about an error or not.
records(mode, is_error) == mode = "all" \/ (mode = "error" /\ is_error)
dump_enabled(d) == d.dump_mode # "off"

record_stats(d, line) ==
    IF records(d.stats_mode, line.error)
    THEN [d EXCEPT !.lines = Append(@, line)] ELSE d

record_dumps(d, lines, is_error) ==
    IF records(d.dump_mode, is_error) THEN [d EXCEPT !.lines = @ \o lines] ELSE d

stats_line(id, status, error) ==
    [kind |-> "stats", id |-> id, status |-> status, error |-> error]

dump_line(id, stage, direction, status, body) ==
    [kind |-> "dump", id |-> id, stage |-> stage, direction |-> direction,
     status |-> status, body |-> body]

\* new_request_id
with_new_id(d) == [d EXCEPT !.counter = @ + 1]

\* A request that no handler gets: a line and the dump of its body, under an
\* identity of its own.
reject(d, status, body) ==
    LET dump == dump_line(d.counter, "ingress", "request", None, body)
    IN record_stats(record_dumps(with_new_id(d), <<dump>>, TRUE),
                    stats_line(d.counter, status, TRUE))

\* A body that its handler cannot read: no dump.
reject_undumped(d, status) ==
    record_stats(with_new_id(d), stats_line(d.counter, status, TRUE))

-----------------------------------------------------------------------------
(* The guard: what is to be dumped are sequences, empty if there is nothing.*)
(* The dump of the answer to the client, which only the Interactions handler *)
(* keeps, is left out.                                                      *)

NoGuard ==
    [id |-> None, finished |-> TRUE, ingress |-> <<>>, egress |-> <<>>, response |-> <<>>]

new_guard(d) ==
    [id |-> d.counter, finished |-> FALSE, ingress |-> <<>>, egress |-> <<>>, response |-> <<>>]

ingress_dump(g, body) == [g EXCEPT !.ingress = <<body>>]
egress_dump(g, body) == [g EXCEPT !.egress = Append(@, body)]

\* response_dump, response_dump_streaming
response_dump(g, status, body) ==
    [g EXCEPT !.response = <<[status |-> status, body |-> body]>>]

\* flush_deferred_dumps: what the guard keeps, in this order.
deferred_dumps(g, status) ==
    [k \in DOMAIN g.ingress |-> dump_line(g.id, "ingress", "request", status, g.ingress[k])]
    \o [k \in DOMAIN g.egress |-> dump_line(g.id, "egress", "request", status, g.egress[k])]
    \o [k \in DOMAIN g.response |-> dump_line(g.id, "egress", "response",
                                              g.response[k].status, g.response[k].body)]

\* The guard once it is finished: it keeps nothing any more.
finished_guard(g) == [NoGuard EXCEPT !.id = g.id]

\* Mutant: every call counts.
report_again(d, g, status, is_error) ==
    record_stats(record_dumps(d, deferred_dumps(g, status), is_error),
                 stats_line(g.id, IF status = None THEN 0 ELSE status, is_error))

\* Only the first of them reports.
report(d, g, status, is_error) ==
    IF g.finished THEN d
    ELSE record_stats(record_dumps(d, deferred_dumps(g, status), is_error),
                      stats_line(g.id, IF status = None THEN 0 ELSE status, is_error))

finish(d, g, status) == report(d, g, status, FALSE)

\* Also finish_with_upstream_error and abort_with.
finish_with_error(d, g, status) == report(d, g, status, TRUE)

\* Drop
drop_guard(d, g) == report(d, g, None, TRUE)

=============================================================================
