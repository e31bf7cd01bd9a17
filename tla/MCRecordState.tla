---------------------------- MODULE MCRecordState ---------------------------
(* The chains and messages RecordState is checked on.                      *)
EXTENDS RecordState, TLC

CONSTANTS s1, s2, k1, k2, tpA, tpP, ts

timing == [kind |-> "timing", start |-> "start_ns", ms |-> "duration_ms"]
latency == [kind |-> "timing", start |-> "latency_start", ms |-> "latency_ms"]
log == [kind |-> "logging"]
trace == [kind |-> "tracing", name |-> "trace"]
Dedup(s, path, required) ==
  [kind |-> "idempotency", store |-> s, path |-> path, required |-> required]

NoHeaders == [traceparent |-> None, tracestate |-> None]

Message(ch, id, event, attributes, headers) ==
  [chain |-> ch, attributes |-> attributes,
   payload |-> [id |-> id, event |-> event] @@ headers]

Plain(ch, id, event) == Message(ch, id, event, NoHeaders, NoHeaders)

\* Timers in every order, with shared and with distinct keys.
Timed ==
  {Plain(ch, None, None) : ch \in {<<timing, log, timing>>, <<log, timing, timing>>,
                                   <<latency, log, timing>>, <<timing, log, latency>>}}

\* The two sources of a trace, either of them absent or malformed.
Traced ==
  {Message(<<trace>>, None, None,
     [traceparent |-> source[1], tracestate |-> None],
     [traceparent |-> source[2], tracestate |-> ts]) :
     source \in {<<tpA, tpP>>, <<Malformed, tpP>>, <<None, tpP>>, <<None, Malformed>>}}

\* One layer, two on one store, two on two stores; present and missing keys.
Deduped ==
  {Plain(ch, id, id) :
     id \in {k1, None},
     ch \in {<<Dedup(s1, "id", TRUE)>>,
             <<Dedup(s1, "id", FALSE), log, Dedup(s2, "event", FALSE)>>,
             <<log, Dedup(s2, "event", TRUE), Dedup(s1, "id", TRUE)>>,
             <<Dedup(s1, "id", TRUE), timing, Dedup(s1, "event", TRUE)>>}}

\* Two layers that resolve different keys.
Crossed ==
  {Plain(<<Dedup(s1, "id", TRUE), Dedup(s1, "event", TRUE)>>, keys[1], keys[2]) :
     keys \in {<<k1, k2>>, <<k2, k1>>}}

Symmetry == Permutations(Records)

Sample == Timed \cup Traced \cup Deduped \cup Crossed
=============================================================================
