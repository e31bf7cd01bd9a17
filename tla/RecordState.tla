----------------------------- MODULE RecordState ----------------------------
(***************************************************************************)
(* The middlewares that ship with the library, over the one ctx.state of a *)
(* record: fastsqs/middleware/timing.py, logging.py, tracing.py and        *)
(* idempotency.py, fastsqs/types.py.  A layer that entered is unwound in   *)
(* reverse (MiddlewareStack); here the layers have bodies, several of them *)
(* may be of one kind (one on the application, one on a route), and they   *)
(* communicate by the string keys of ctx.state.                            *)
(*                                                                         *)
(* Several records are in flight, and one that fails is delivered again,   *)
(* with a new Context.  Leases do not expire and workers do not die here:  *)
(* module Idempotency has that.                                            *)
(***************************************************************************)
EXTENDS Naturals, Sequences

CONSTANTS
  Records,         \* the records in flight
  Messages,        \* what a record may be: its layers and its data
  Stores,          \* the idempotency stores
  Keys,            \* the values of idempotency keys
  None,            \* a value that is missing
  Malformed,       \* a traceparent that does not parse
  MaxClock,        \* bound: time.perf_counter_ns()
  MaxDeliveries    \* bound: deliveries of one record

\* A layer of the chain around the handler: a middleware and its arguments.
Timing == [kind : {"timing"}, start : STRING, ms : STRING]
Logging == [kind : {"logging"}]
Tracing == [kind : {"tracing"}, name : STRING]
Idempotency == [kind : {"idempotency"}, store : Stores, path : STRING, required : BOOLEAN]
Layers == Timing \cup Logging \cup Tracing \cup Idempotency

\* The names IdempotencyMiddleware writes; the others are arguments.
Reserved == {"idempotency_key", "_idempotency_acquired"}

\* The names a layer is told to write.
Names(layer) ==
  CASE layer.kind = "timing"  -> {layer.start, layer.ms}
    [] layer.kind = "tracing" -> {layer.name}
    [] OTHER                  -> {}

ASSUME RecordStateAssumption ==
  /\ MaxClock \in Nat /\ MaxDeliveries \in Nat
  /\ None \notin Records \cup Keys \cup BOOLEAN
  /\ \A m \in Messages :
       /\ m.chain \in Seq(Layers)
       /\ \A i \in DOMAIN m.chain :
            /\ Names(m.chain[i]) \cap Reserved = {}
            /\ m.chain[i].kind = "idempotency" =>
                 m.payload[m.chain[i].path] \in Keys \cup {None}

VARIABLES
  message,    \* per record: its chain, payload and messageAttributes
  delivery,   \* per record: how often it was received
  phase,      \* per record: where _handle_record is
  entered,    \* per record: the layers that entered, then those left to unwind
  err,        \* per record: the error its after hooks are called with
  state,      \* per record: ctx.state
  store,      \* the idempotency stores
  clock,      \* time.perf_counter_ns()
  holder,     \* history: the record whose try_acquire made an entry
  began,      \* history: per record and layer, when its before ran
  took,       \* history: per record and layer, the duration it stored and its own
  logged      \* history: per record and layer, the duration_ms it logged

vars == <<message, delivery, phase, entered, err, state, store, clock,
          holder, began, took, logged>>

\* The delivery of a record, without its context.
here == <<message, delivery>>
stores == <<store, holder>>
observed == <<began, took, logged>>

chain(r) == message[r].chain

Init ==
  /\ message \in [Records -> Messages]
  /\ delivery = [r \in Records |-> 1]
  /\ phase = [r \in Records |-> "before"]
  /\ entered = [r \in Records |-> 0]
  /\ err = [r \in Records |-> "none"]
  /\ state = [r \in Records |-> <<>>]
  /\ store = [s \in Stores |-> [k \in Keys |-> "free"]]
  /\ clock = 0
  /\ holder = [s \in Stores |-> [k \in Keys |-> None]]
  /\ began = [r \in Records |-> <<>>]
  /\ took = [r \in Records |-> <<>>]
  /\ logged = [r \in Records |-> <<>>]

-----------------------------------------------------------------------------
(* State: State.__setitem__ and State.get over its dict (Put also serves   *)
(* the history variables).                                                 *)

Put(st, name, value) ==
  [n \in DOMAIN st \cup {name} |-> IF n = name THEN value ELSE st[n]]
Get(st, name) == IF name \in DOMAIN st THEN st[name] ELSE None

-----------------------------------------------------------------------------
(* The before hooks.  Layer(r, kind) is the next one, of its kind.         *)

AtBefore(r, kind) ==
  /\ phase[r] = "before"
  /\ entered[r] < Len(chain(r))
  /\ chain(r)[entered[r] + 1].kind = kind

Layer(r) == chain(r)[entered[r] + 1]

\* The hook completes and leaves st in ctx.state.
Enter(r, st) ==
  /\ state' = [state EXCEPT ![r] = st]
  /\ entered' = [entered EXCEPT ![r] = @ + 1]
  /\ UNCHANGED <<phase, err>>

\* The hook raises: the layers that entered are unwound with the error.
Abort(r, st, error) ==
  /\ state' = [state EXCEPT ![r] = st]
  /\ phase' = [phase EXCEPT ![r] = "after"]
  /\ err' = [err EXCEPT ![r] = error]
  /\ UNCHANGED entered

\* Mutant: a start time that is already there is kept.
TimingBeforeOnce(r) ==
  /\ AtBefore(r, "timing")
  /\ LET old == Get(state[r], Layer(r).start)
     IN  Enter(r, Put(state[r], Layer(r).start, IF old = None THEN clock ELSE old))
  /\ began' = [began EXCEPT ![r] = Put(@, entered[r] + 1, clock)]
  /\ UNCHANGED <<here, stores, clock, took, logged>>

TimingBefore(r) ==
  /\ AtBefore(r, "timing")
  /\ Enter(r, Put(state[r], Layer(r).start, clock))
  /\ began' = [began EXCEPT ![r] = Put(@, entered[r] + 1, clock)]
  /\ UNCHANGED <<here, stores, clock, took, logged>>

\* The entry before the handler: a custom logger may raise, and the record fails.
LoggingBefore(r) ==
  /\ AtBefore(r, "logging")
  /\ Enter(r, state[r]) \/ Abort(r, state[r], "error")
  /\ UNCHANGED <<here, stores, clock, observed>>

\* "a or b" over optional strings: the attribute, else the payload's value.
Either(a, b) == IF a # None THEN a ELSE b

\* The record's value of a tracing header.
Preferred(m, name) == Either(m.attributes[name], m.payload[name])

\* parse_traceparent: None unless it is a well-formed string.
Parse(parent, tracestate) ==
  IF parent \in {None, Malformed} THEN None
  ELSE [traceparent |-> parent, tracestate |-> tracestate]

\* A trace that is absent or malformed leaves ctx.state alone.
TracingBefore(r) ==
  /\ AtBefore(r, "tracing")
  /\ LET trace == Parse(Preferred(message[r], "traceparent"), Preferred(message[r], "tracestate"))
     IN  Enter(r, IF trace = None THEN state[r] ELSE Put(state[r], Layer(r).name, trace))
  /\ UNCHANGED <<here, stores, clock, observed>>

\* resolve_payload_path(payload, key_path) of a layer.
KeyAt(r, layer) == message[r].payload[layer.path]

\* Mutant: a claim in flight does not stop the record.
IdempotencyBeforeShared(r) ==
  /\ AtBefore(r, "idempotency")
  /\ LET s == Layer(r).store
         k == KeyAt(r, Layer(r))
         st == Put(state[r], "idempotency_key", k)
     IN  /\ k # None
         /\ \/ /\ store[s][k] # "completed"
               /\ Enter(r, Put(st, "_idempotency_acquired", TRUE))
               /\ store' = [store EXCEPT ![s][k] = "in_progress"]
               /\ holder' = IF store[s][k] = "free" THEN [holder EXCEPT ![s][k] = r] ELSE holder
            \/ /\ store[s][k] = "completed"
               /\ Abort(r, st, "skip")
               /\ UNCHANGED stores
  /\ UNCHANGED <<here, clock, observed>>

\* A key that is missing: an error when it is required, else no dedup.
IdempotencyKeyless(r) ==
  /\ AtBefore(r, "idempotency")
  /\ KeyAt(r, Layer(r)) = None
  /\ IF Layer(r).required THEN Abort(r, state[r], "error") ELSE Enter(r, state[r])
  /\ UNCHANGED <<here, stores, clock, observed>>

\* The key is put in ctx.state, then try_acquire decides.
IdempotencyBefore(r) ==
  /\ AtBefore(r, "idempotency")
  /\ LET s == Layer(r).store
         k == KeyAt(r, Layer(r))
         st == Put(state[r], "idempotency_key", k)
     IN  /\ k # None
         /\ \/ /\ store[s][k] = "free"
               /\ Enter(r, Put(st, "_idempotency_acquired", TRUE))
               /\ store' = [store EXCEPT ![s][k] = "in_progress"]
               /\ holder' = [holder EXCEPT ![s][k] = r]
            \/ /\ store[s][k] = "completed"
               /\ Abort(r, st, "skip")
               /\ UNCHANGED stores
            \/ /\ store[s][k] = "in_progress"
               /\ Abort(r, st, "error")
               /\ UNCHANGED stores
  /\ UNCHANGED <<here, clock, observed>>

-----------------------------------------------------------------------------
\* The handler, with every layer entered, returns, fails or raises SkipMessage.
Handler(r) ==
  /\ phase[r] = "before" /\ entered[r] = Len(chain(r))
  /\ \E outcome \in {"none", "error", "skip"} : Abort(r, state[r], outcome)
  /\ UNCHANGED <<here, stores, clock, observed>>

-----------------------------------------------------------------------------
(* The after hooks, in reverse.  One that raises is logged and dropped.    *)

AtAfter(r, kind) ==
  /\ phase[r] = "after"
  /\ entered[r] > 0
  /\ chain(r)[entered[r]].kind = kind

Leave(r, st) ==
  /\ state' = [state EXCEPT ![r] = st]
  /\ entered' = [entered EXCEPT ![r] = @ - 1]
  /\ UNCHANGED <<here, phase, err, clock>>

\* The start time is read from ctx.state, whoever wrote it last.
TimingAfter(r) ==
  /\ AtAfter(r, "timing")
  /\ LET i == entered[r]
         spent == clock - Get(state[r], chain(r)[i].start)
     IN  /\ Leave(r, Put(state[r], chain(r)[i].ms, spent))
         /\ took' = [took EXCEPT ![r] =
                       Put(@, i, [stored |-> spent, own |-> clock - began[r][i]])]
  /\ UNCHANGED <<stores, began, logged>>

LoggingAfter(r) ==
  /\ AtAfter(r, "logging")
  /\ Leave(r, state[r])
  /\ logged' = [logged EXCEPT ![r] = Put(@, entered[r], Get(state[r], "duration_ms"))]
  /\ UNCHANGED <<stores, began, took>>

\* TracingMiddleware has no after hook of its own.
TracingAfter(r) ==
  /\ AtAfter(r, "tracing")
  /\ Leave(r, state[r])
  /\ UNCHANGED <<stores, observed>>

Succeeded(r) == err[r] \in {"none", "skip"}

\* Mutant: only the completion is written, a failure keeps the claim.
IdempotencyAfterKeeps(r) ==
  /\ AtAfter(r, "idempotency")
  /\ Leave(r, state[r])
  /\ LET s == chain(r)[entered[r]].store
         k == Get(state[r], "idempotency_key")
     IN  IF Get(state[r], "_idempotency_acquired") = TRUE /\ Succeeded(r)
         THEN store' = [store EXCEPT ![s][k] = "completed"]
         ELSE UNCHANGED store
  /\ UNCHANGED <<holder, observed>>

\* mark_complete or forget, of the key ctx.state holds now, in the layer's store.
IdempotencyAfter(r) ==
  /\ AtAfter(r, "idempotency")
  /\ Leave(r, state[r])
  /\ LET s == chain(r)[entered[r]].store
         k == Get(state[r], "idempotency_key")
     IN  IF Get(state[r], "_idempotency_acquired") = TRUE
         THEN store' = [store EXCEPT ![s][k] = IF Succeeded(r) THEN "completed" ELSE "free"]
         ELSE UNCHANGED store
  /\ UNCHANGED <<holder, observed>>

\* A record that is not a success is reported, or the skip is an ack.
RecordEnds(r) ==
  /\ phase[r] = "after" /\ entered[r] = 0
  /\ phase' = [phase EXCEPT ![r] = IF Succeeded(r) THEN "done" ELSE "failed"]
  /\ UNCHANGED <<here, entered, err, state, stores, clock, observed>>

\* Mutant: the Context of the earlier delivery is used again.
RedeliverSameContext(r) ==
  /\ phase[r] = "failed" /\ delivery[r] < MaxDeliveries
  /\ delivery' = [delivery EXCEPT ![r] = @ + 1]
  /\ phase' = [phase EXCEPT ![r] = "before"]
  /\ err' = [err EXCEPT ![r] = "none"]
  /\ began' = [began EXCEPT ![r] = <<>>]
  /\ took' = [took EXCEPT ![r] = <<>>]
  /\ logged' = [logged EXCEPT ![r] = <<>>]
  /\ UNCHANGED <<message, entered, state, stores, clock>>

\* SQS delivers the record again: _handle_record makes a new Context.
Redeliver(r) ==
  /\ phase[r] = "failed" /\ delivery[r] < MaxDeliveries
  /\ delivery' = [delivery EXCEPT ![r] = @ + 1]
  /\ phase' = [phase EXCEPT ![r] = "before"]
  /\ err' = [err EXCEPT ![r] = "none"]
  /\ state' = [state EXCEPT ![r] = <<>>]
  /\ began' = [began EXCEPT ![r] = <<>>]
  /\ took' = [took EXCEPT ![r] = <<>>]
  /\ logged' = [logged EXCEPT ![r] = <<>>]
  /\ UNCHANGED <<message, entered, stores, clock>>

\* Time passes while something measures it.
Tick ==
  /\ clock < MaxClock
  /\ \E r \in Records : phase[r] \in {"before", "after"} /\ DOMAIN began[r] # {}
  /\ clock' = clock + 1
  /\ UNCHANGED <<here, phase, entered, err, state, stores, observed>>

InFlight(r) == phase[r] \in {"before", "after"}

\* Every record was acknowledged, or has failed for the last time.
Done ==
  /\ \A r \in Records : ~InFlight(r) /\ (phase[r] = "failed" => delivery[r] = MaxDeliveries)
  /\ UNCHANGED vars

BeforeHook(r) ==
  TimingBefore(r) \/ LoggingBefore(r) \/ TracingBefore(r)
    \/ IdempotencyKeyless(r) \/ IdempotencyBefore(r)

AfterHook(r) ==
  TimingAfter(r) \/ LoggingAfter(r) \/ TracingAfter(r) \/ IdempotencyAfter(r)

Next ==
  \/ \E r \in Records :
       BeforeHook(r) \/ Handler(r) \/ AfterHook(r) \/ RecordEnds(r) \/ Redeliver(r)
  \/ Tick
  \/ Done

Spec == Init /\ [][Next]_vars

-----------------------------------------------------------------------------
(* Properties.                                                             *)

\* A duration is the layer's own when no layer inside it shares its start
\* key, and never more than its own when one does (the two TimingMiddlewares
\* of an application and a route use the same default key): timing.py:33-42.
DurationOwn ==
  \A r \in Records : \A i \in DOMAIN took[r] :
    LET t == took[r][i]
        shared == \E j \in DOMAIN chain(r) :
                    /\ j > i /\ chain(r)[j].kind = "timing"
                    /\ chain(r)[j].start = chain(r)[i].start
    IN  t.stored <= t.own /\ (~shared => t.stored = t.own)

\* LoggingMiddleware logs the duration of the nearest timing layer inside it
\* that entered in this delivery, and none when there is none: never one of
\* an earlier delivery, nor of a layer around it (logging.py:117,
\* docs/guide/builtin-middleware.md:105).
LoggedDuration ==
  \A r \in Records : \A i \in DOMAIN logged[r] :
    LET inside == {j \in DOMAIN began[r] : j > i /\ chain(r)[j].ms = "duration_ms"}
    IN  IF inside = {} THEN logged[r][i] = None
        ELSE LET nearest == CHOOSE j \in inside : \A k \in inside : j <= k
             IN  logged[r][i] = took[r][nearest].stored

-----------------------------------------------------------------------------

\* The idempotency layers of a record.
Dedups(r) == {i \in DOMAIN chain(r) : chain(r)[i].kind = "idempotency"}

\* They resolve one key, or none of them any.
Agrees(r) == \A i, j \in Dedups(r) : KeyAt(r, chain(r)[i]) = KeyAt(r, chain(r)[j])

AllAgree == \A r \in Records : Agrees(r)

\* A claim is released or completed by the delivery that took it: an entry
\* in progress belongs to a record that is still in flight, whatever failed,
\* was skipped or was stopped by another layer (idempotency.py:110-114).
ClaimsReleased ==
  \A s \in Stores, k \in Keys :
    store[s][k] = "in_progress" => InFlight(holder[s][k])

\* As ClaimsReleased, when the layers of every record resolve one key: two
\* layers that resolve different ones share the two names in ctx.state.
ClaimsSettled == AllAgree => ClaimsReleased

\* Under the same condition, only the delivery that took a claim ends it: a
\* record stopped by a claim of another one leaves it alone.
OnlyOwnClaimsEnd ==
  [][AllAgree => \A s \in Stores, k \in Keys :
       (store[s][k] = "in_progress" /\ store'[s][k] # "in_progress") =>
         entered'[holder[s][k]] = entered[holder[s][k]] - 1]_vars
=============================================================================
