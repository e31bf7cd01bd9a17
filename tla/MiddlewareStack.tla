--------------------------- MODULE MiddlewareStack --------------------------
(***************************************************************************)
(* One record inside _handle_record: the nested calls of                   *)
(* _run_middleware_stack (fastsqs/middleware/base.py).  Stack 1 holds the  *)
(* application's middlewares and its call_inner is the routing; stack 2    *)
(* holds the parents', the router's and the route's middlewares and its    *)
(* call_inner is the handler.                                              *)
(*                                                                         *)
(* Every hook and the handler is an await that may complete, raise an      *)
(* Exception ("error"), raise SkipMessage ("skip"), or be cancelled:       *)
(* asyncio.CancelledError is a BaseException, which "except Exception"     *)
(* does not see.                                                           *)
(***************************************************************************)
EXTENDS Naturals

CONSTANTS
  MaxSize,      \* bound: middlewares of one stack
  HookRaises,   \* what a before hook or the handler may raise
  AfterRaises   \* what an after hook may raise

Exceptions == {"error", "skip"}
Raisable == Exceptions \cup {"cancelled"}

ASSUME StackAssumption ==
  /\ MaxSize \in Nat
  /\ HookRaises \subseteq Raisable
  /\ AfterRaises \subseteq Raisable

VARIABLES
  size,       \* per stack: len(mws)
  level,      \* the innermost stack that is running
  phase,      \* per stack: where its _run_middleware_stack is
  entered,    \* per stack: len(entered), then the after hooks still to call
  exc,        \* per stack: the exception in flight
  err,        \* per stack: the local err handed to the after hooks
  outcome,    \* how _handle_record ended
  hook,       \* history: per middleware, which of its hooks have run
  seen,       \* history: per middleware, the error its after was called with
  first,      \* history: the first exception a before hook, the routing or
              \* the handler raised
  ran         \* history: the handler, its validation first, was called

vars == <<size, level, phase, entered, exc, err, outcome, hook, seen, first, ran>>
history == <<hook, seen, first, ran>>

Level == {1, 2}
Mw == Level \X (1..MaxSize)
Registered == {m \in Mw : m[2] <= size[m[1]]}

\* An exception is its kind and the step that raised it.
None == [kind |-> "none", by |-> <<"nobody", 0, 0>>]
Raise(kind, step, l, i) == [kind |-> kind, by |-> <<step, l, i>>]

Init ==
  /\ size \in [Level -> 0..MaxSize]
  /\ level = 1
  /\ phase = [l \in Level |-> IF l = 1 THEN "before" ELSE "idle"]
  /\ entered = [l \in Level |-> 0]
  /\ exc = [l \in Level |-> None]
  /\ err = [l \in Level |-> None]
  /\ outcome = "pending"
  /\ hook = [m \in Mw |-> "idle"]
  /\ seen = [m \in Mw |-> None]
  /\ first = None
  /\ ran = FALSE

-----------------------------------------------------------------------------
(* The try block of stack l.                                               *)

\* Mutant: err is only set for framework failures, a skip is not recorded.
CaughtError(e) == IF e.kind = "error" THEN e ELSE None

\* "except Exception as e: err = e".
Caught(e) == IF e.kind \in Exceptions THEN e ELSE None

\* Stack l leaves its try block with e in flight (None: it returns).
Finally(l, e) ==
  /\ level' = l
  /\ phase' = [phase EXCEPT ![l] = "after"]
  /\ exc' = [exc EXCEPT ![l] = e]
  /\ err' = [err EXCEPT ![l] = Caught(e)]

\* The try block of stack l is left by an exception.
Fails(l, kinds, step, i) ==
  \E kind \in kinds :
    LET e == Raise(kind, step, l, i) IN
      /\ Finally(l, e)
      /\ first' = e

\* The next before hook of stack l is awaited.
AtBefore(l) == level = l /\ phase[l] = "before" /\ entered[l] < size[l]

AllEntered(l) == level = l /\ phase[l] = "before" /\ entered[l] = size[l]

\* A before hook completes and its middleware is appended to entered.
BeforeOk(l) ==
  /\ AtBefore(l)
  /\ entered' = [entered EXCEPT ![l] = @ + 1]
  /\ hook' = [hook EXCEPT ![<<l, entered[l] + 1>>] = "entered"]
  /\ UNCHANGED <<size, level, phase, exc, err, outcome, seen, first, ran>>

\* Mutant: a before hook that raises skips the cleanup.
BeforeRaisesNoCleanup(l) ==
  /\ AtBefore(l)
  /\ Fails(l, HookRaises, "before", entered[l] + 1)
  /\ entered' = [entered EXCEPT ![l] = 0]
  /\ UNCHANGED <<size, outcome, hook, seen, ran>>

\* A before hook raises: its own middleware has not entered.
BeforeRaises(l) ==
  /\ AtBefore(l)
  /\ Fails(l, HookRaises, "before", entered[l] + 1)
  /\ UNCHANGED <<size, entered, outcome, hook, seen, ran>>

\* _route finds a handler: _execute_handler enters stack 2.
Dispatch ==
  /\ AllEntered(1)
  /\ level' = 2
  /\ phase' = [phase EXCEPT ![1] = "inner", ![2] = "before"]
  /\ UNCHANGED <<size, entered, exc, err, outcome, history>>

\* No handler matches: RouteNotFoundError out of _route.
RouteNotFound ==
  /\ AllEntered(1)
  /\ Fails(1, {"error"}, "route", 0)
  /\ UNCHANGED <<size, entered, outcome, hook, seen, ran>>

\* Mutant: the handler is invoked without waiting for the before hooks.
HandlerOkEarly ==
  /\ level = 2 /\ phase[2] = "before"
  /\ Finally(2, None)
  /\ ran' = TRUE
  /\ UNCHANGED <<size, entered, outcome, hook, seen, first>>

HandlerOk ==
  /\ AllEntered(2)
  /\ Finally(2, None)
  /\ ran' = TRUE
  /\ UNCHANGED <<size, entered, outcome, hook, seen, first>>

\* The model's validation or the handler raises.
HandlerRaises ==
  /\ AllEntered(2)
  /\ Fails(2, HookRaises, "handler", 0)
  /\ ran' = TRUE
  /\ UNCHANGED <<size, entered, outcome, hook, seen>>

-----------------------------------------------------------------------------
(* The finally block of stack l: reversed(entered).                        *)

Unwinding(l) == level = l /\ phase[l] = "after" /\ entered[l] > 0

\* after(err) of the i-th middleware of stack l is called.
CallAfter(l, i) ==
  /\ hook' = [hook EXCEPT ![<<l, i>>] = "unwound"]
  /\ seen' = [seen EXCEPT ![<<l, i>>] = err[l]]

\* Mutant: entered is walked from its front.
UnwindForward(l) ==
  /\ Unwinding(l)
  /\ \E i \in 1..entered[l] :
       /\ hook[<<l, i>>] = "entered"
       /\ \A j \in 1..(i - 1) : hook[<<l, j>>] = "unwound"
       /\ CallAfter(l, i)
       /\ entered' = IF i = entered[l] THEN [entered EXCEPT ![l] = 0] ELSE entered

Unwind(l) ==
  /\ Unwinding(l)
  /\ entered' = [entered EXCEPT ![l] = @ - 1]
  /\ CallAfter(l, entered[l])

\* Mutant: an after hook's exception replaces the one in flight.
AfterEndsMasking(l) ==
  /\ Unwind(l)
  /\ \E kind \in AfterRaises : exc' = [exc EXCEPT ![l] = Raise(kind, "after", l, entered[l])]
  /\ UNCHANGED <<size, level, phase, err, outcome, first, ran>>

\* An after hook completes, or raises an Exception that is logged and dropped.
AfterEnds(l) ==
  /\ Unwind(l)
  /\ UNCHANGED <<size, level, phase, exc, err, outcome, first, ran>>

\* A CancelledError from an after hook leaves the finally block: it replaces
\* the exception in flight and the remaining after hooks are not called.
AfterCancelled(l) ==
  /\ "cancelled" \in AfterRaises
  /\ Unwind(l)
  /\ phase' = [phase EXCEPT ![l] = "aborted"]
  /\ exc' = [exc EXCEPT ![l] = Raise("cancelled", "after", l, entered[l])]
  /\ UNCHANGED <<size, level, err, outcome, first, ran>>

Finished(l) ==
  /\ level = l
  /\ phase[l] = "aborted" \/ (phase[l] = "after" /\ entered[l] = 0)

\* Stack 2 returns into, or raises out of, the call_inner of stack 1.
ReturnToOuter ==
  /\ Finished(2)
  /\ phase[1] = "inner"
  /\ Finally(1, exc[2])
  /\ UNCHANGED <<size, entered, outcome, history>>

\* "except SkipMessage": a skipped record is a success.
RecordOutcome(e) ==
  CASE e.kind \in {"none", "skip"} -> "returned"
    [] e.kind = "error"            -> "raised"
    [] e.kind = "cancelled"        -> "cancelled"

\* _handle_record ends with what its outer stack ends with.
RecordEnds ==
  /\ Finished(1)
  /\ outcome = "pending"
  /\ outcome' = RecordOutcome(exc[1])
  /\ UNCHANGED <<size, level, phase, entered, exc, err, history>>

\* The record is done.
Done == outcome # "pending" /\ UNCHANGED vars

-----------------------------------------------------------------------------
StackNext(l) == BeforeOk(l) \/ BeforeRaises(l) \/ AfterEnds(l) \/ AfterCancelled(l)

Next ==
  \/ \E l \in Level : StackNext(l)
  \/ Dispatch \/ RouteNotFound \/ HandlerOk \/ HandlerRaises
  \/ ReturnToOuter \/ RecordEnds
  \/ Done

Spec == Init /\ [][Next]_vars

-----------------------------------------------------------------------------
(* Properties.                                                             *)

Outcome == {"returned", "raised", "cancelled"}
Exc == [kind : Raisable \cup {"none"},
        by : {"nobody", "before", "route", "handler", "after"} \X (0..2) \X (0..MaxSize)]

\* The state has its shape.
TypeOK ==
  /\ size \in [Level -> 0..MaxSize]
  /\ level \in Level
  /\ phase \in [Level -> {"idle", "before", "inner", "after", "aborted"}]
  /\ entered \in [Level -> 0..MaxSize]
  /\ exc \in [Level -> Exc]
  /\ err \in [Level -> Exc]
  /\ outcome \in Outcome \cup {"pending"}
  /\ hook \in [Mw -> {"idle", "entered", "unwound"}]
  /\ seen \in [Mw -> Exc]
  /\ first \in Exc
  /\ ran \in BOOLEAN

\* What a before hook acquired is released: when the record is done no
\* middleware is left entered and not unwound (base.py:92-95), except in a
\* stack whose unwinding was itself cancelled.
Balanced ==
  outcome # "pending" =>
    \A m \in Mw : phase[m[1]] # "aborted" => hook[m] # "entered"

\* m encloses n: its before runs earlier.
Encloses(m, n) == m[1] < n[1] \/ (m[1] = n[1] /\ m[2] < n[2])

\* Middlewares are entered outermost first and unwound innermost first, across
\* both stacks: one that is inside another uses what the other holds.  Only a
\* stack whose unwinding was cancelled leaves a middleware behind its parent.
Nested ==
  \A m, n \in Registered :
    Encloses(m, n) =>
      /\ hook[n] = "entered" /\ phase[n[1]] # "aborted" => hook[m] = "entered"
      /\ hook[m] = "idle" => hook[n] = "idle"

\* The handler runs at most once, inside every registered middleware.
HandlerInside ==
  [][ran' # ran => ~ran /\ \A m \in Registered : hook[m] = "entered"]_vars

\* The record ends with the first failure of a before hook, the routing or the
\* handler, whatever Exception the after hooks raise: it is neither masked, nor
\* dropped (a lost message), nor invented (a needless redelivery).  Only a
\* cancelled after hook takes its place, and then the record is cancelled.
FailureNotMasked ==
  outcome # "pending" =>
    outcome = IF \E l \in Level : phase[l] = "aborted" THEN "cancelled"
              ELSE RecordOutcome(first)

\* An after hook is told the failure of the record, and only that: Idempotency
\* decides between completing and releasing a key by it (base.py:51).  Of a
\* cancellation it is told nothing, nor of a failure that a cancelled after hook
\* of the inner stack replaced.
AfterSeesFailure ==
  \A m \in Mw :
    hook[m] = "unwound" =>
      seen[m] = IF first.kind = "cancelled" \/ (m[1] = 1 /\ phase[2] = "aborted")
                THEN None ELSE first
=============================================================================
