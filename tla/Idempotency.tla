---------------------------- MODULE Idempotency -----------------------------
(***************************************************************************)
(* IdempotencyMiddleware over a shared IdempotencyStore                    *)
(* (fastsqs/middleware/idempotency.py): copies of messages delivered by    *)
(* SQS to several Lambda sandboxes, each copy carrying an application key. *)
(* A copy is received, claims its key, runs the handler, completes or      *)
(* releases the claim and is deleted or redelivered.                       *)
(*                                                                         *)
(* Time is discrete.  The store keeps for each key the time its entry has  *)
(* left; a delivery has at most RuntimeBound ticks to run before Lambda    *)
(* kills it.  The deadline starts with the claim, which is the tightest    *)
(* case for the lease.                                                     *)
(***************************************************************************)
EXTENDS Integers

CONSTANTS
  Copies,           \* deliveries in play: messages and their duplicates
  Keys,             \* values found at key_path
  NoKey,            \* nothing at key_path
  InProgressTtl,    \* IdempotencyMiddleware(in_progress_ttl_seconds=...)
  CompletedTtl,     \* IdempotencyMiddleware(completed_ttl_seconds=...)
  RequireKey,       \* IdempotencyMiddleware(require_key=...)
  RuntimeBound,     \* ticks an invocation may run (the Lambda timeout)
  HandlerOutcomes,  \* how the rest of the stack may end
  AckCancelled,     \* the loop acknowledges a cancelled record (standard,
                    \* isolate_groups) or fails the batch (halt_batch)
  StoreFaults,      \* store calls that may raise
  MaxFaults         \* bound: failed handlers, kills and store faults

ASSUME IdempotencyAssumption ==
  /\ NoKey \notin Keys
  /\ InProgressTtl \in Nat /\ CompletedTtl \in Nat
  /\ RequireKey \in BOOLEAN /\ AckCancelled \in BOOLEAN
  /\ RuntimeBound \in Nat \ {0}
  /\ HandlerOutcomes \subseteq {"returned", "raised", "skip", "cancelled"}
  /\ StoreFaults \subseteq {"try_acquire", "mark_complete", "forget"}
  /\ MaxFaults \in Nat

\* idempotency.py:131-132: the lease "must exceed the worst-case handler runtime".
ASSUME LeaseAssumption == InProgressTtl > RuntimeBound

VARIABLES
  key,      \* per copy: what key_path resolves to
  entry,    \* the store: per key its state and the time its entry has left
  pc,       \* per copy: where its delivery is
  left,     \* per copy: ticks before its invocation is killed
  faults,   \* failures so far
  done,     \* history: the copies whose handler returned or skipped
  voided,   \* history: the copies whose handler was cancelled
  fresh     \* history: per key, what is left of the dedup window that its last
            \* mark_complete opened

vars == <<key, entry, pc, left, faults, done, voided, fresh>>

Entry == [state : {"in_progress", "completed"}, left : 0..(InProgressTtl + CompletedTtl)]

InFlight == {c \in Copies : pc[c] \notin {"queued", "deleted"}}

Init ==
  /\ key \in [Copies -> Keys \cup {NoKey}]
  /\ entry = [k \in Keys |-> [state |-> "completed", left |-> 0]]
  /\ pc = [c \in Copies |-> "queued"]
  /\ left = [c \in Copies |-> 0]
  /\ faults = 0
  /\ done = {}
  /\ voided = {}
  /\ fresh = [k \in Keys |-> 0]

\* Mutant: an entry is live whatever its age.
LiveForever(k) == entry[k].left > 0 \/ entry[k].state = "in_progress"

\* expires_at > now.  An entry that is absent, popped or expired is not live.
Live(k) == entry[k].left > 0

\* Mutant: the entry expires one tick early.
PutShort(k, state, ttl) ==
  entry' = [entry EXCEPT ![k] = [state |-> state, left |-> IF ttl = 0 THEN 0 ELSE ttl - 1]]

Put(k, state, ttl) == entry' = [entry EXCEPT ![k] = [state |-> state, left |-> ttl]]

Goto(c, place) == pc' = [pc EXCEPT ![c] = place]

Fault == faults < MaxFaults /\ faults' = faults + 1

-----------------------------------------------------------------------------
(* before(): the delivery of a copy up to the handler.                     *)

\* ACQUIRED: the lease is written and the handler runs.
Acquire(c) ==
  /\ pc[c] = "queued"
  /\ key[c] # NoKey /\ ~Live(key[c])
  /\ Put(key[c], "in_progress", InProgressTtl)
  /\ Goto(c, "handler")
  /\ left' = [left EXCEPT ![c] = RuntimeBound]
  /\ UNCHANGED <<key, faults, done, voided, fresh>>

\* Mutant: a concurrent duplicate is skipped too.
SkipAnyDuplicate(c) ==
  /\ pc[c] = "queued"
  /\ key[c] # NoKey /\ Live(key[c])
  /\ Goto(c, "acking")
  /\ left' = [left EXCEPT ![c] = RuntimeBound]
  /\ UNCHANGED <<key, entry, faults, done, voided, fresh>>

\* Mutant: the dedup window slides, each duplicate opens it again.
SkipSliding(c) ==
  /\ pc[c] = "queued"
  /\ key[c] # NoKey /\ Live(key[c])
  /\ entry[key[c]].state = "completed"
  /\ Put(key[c], "completed", CompletedTtl)
  /\ Goto(c, "acking")
  /\ left' = [left EXCEPT ![c] = RuntimeBound]
  /\ UNCHANGED <<key, faults, done, voided, fresh>>

\* COMPLETED: SkipMessage, the record will be acknowledged.  IN_PROGRESS: the
\* record fails, SQS redelivers it and the copy stays queued.
SkipDuplicate(c) ==
  /\ pc[c] = "queued"
  /\ key[c] # NoKey /\ Live(key[c])
  /\ entry[key[c]].state = "completed"
  /\ Goto(c, "acking")
  /\ left' = [left EXCEPT ![c] = RuntimeBound]
  /\ UNCHANGED <<key, entry, faults, done, voided, fresh>>

\* Without a key the record fails for ever, or runs without dedup.
RunWithoutKey(c) ==
  /\ pc[c] = "queued"
  /\ key[c] = NoKey /\ ~RequireKey
  /\ Goto(c, "handler")
  /\ left' = [left EXCEPT ![c] = RuntimeBound]
  /\ UNCHANGED <<key, entry, faults, done, voided, fresh>>

\* try_acquire raises after the store applied it: the record fails, and the
\* claim stays behind because nothing noted that it was acquired.
AcquireLost(c) ==
  /\ "try_acquire" \in StoreFaults /\ Fault
  /\ pc[c] = "queued"
  /\ key[c] # NoKey /\ ~Live(key[c])
  /\ Put(key[c], "in_progress", InProgressTtl)
  /\ UNCHANGED <<key, pc, left, done, voided, fresh>>

-----------------------------------------------------------------------------
(* The handler, and after() with the error it is told.                     *)

HandlerFails(c) ==
  /\ "raised" \in HandlerOutcomes /\ Fault
  /\ pc[c] = "handler"
  /\ Goto(c, "releasing")
  /\ UNCHANGED <<key, entry, left, done, voided, fresh>>

\* The handler returns, or raises SkipMessage: both acknowledge.
HandlerOk(c) ==
  /\ HandlerOutcomes \cap {"returned", "skip"} # {}
  /\ pc[c] = "handler"
  /\ Goto(c, "completing")
  /\ done' = done \cup {c}
  /\ UNCHANGED <<key, entry, left, faults, voided, fresh>>

\* A cancelled handler: _run_middleware_stack calls after() with error=None.
HandlerCancelled(c) ==
  /\ "cancelled" \in HandlerOutcomes /\ Fault
  /\ pc[c] = "handler"
  /\ Goto(c, "voiding")
  /\ voided' = voided \cup {c}
  /\ UNCHANGED <<key, entry, left, done, fresh>>

AfterComplete(c) == IF pc[c] = "completing" \/ AckCancelled THEN "acking" ELSE "queued"

\* Mutant: the completion is recorded under the lease's ttl by mistake.
MarkCompleteLease(c) ==
  /\ pc[c] \in {"completing", "voiding"}
  /\ IF key[c] = NoKey
     THEN UNCHANGED <<entry, fresh>>
     ELSE /\ Put(key[c], "completed", RuntimeBound)
          /\ fresh' = [fresh EXCEPT ![key[c]] = CompletedTtl]
  /\ Goto(c, AfterComplete(c))
  /\ UNCHANGED <<key, left, faults, done, voided>>

\* mark_complete, when this delivery noted that it acquired the key.
MarkComplete(c) ==
  /\ pc[c] \in {"completing", "voiding"}
  /\ IF key[c] = NoKey
     THEN UNCHANGED <<entry, fresh>>
     ELSE /\ Put(key[c], "completed", CompletedTtl)
          /\ fresh' = [fresh EXCEPT ![key[c]] = CompletedTtl]
  /\ Goto(c, AfterComplete(c))
  /\ UNCHANGED <<key, left, faults, done, voided>>

\* forget, and SQS redelivers the copy.
Forget(c) ==
  /\ pc[c] = "releasing"
  /\ IF key[c] = NoKey THEN UNCHANGED entry ELSE Put(key[c], "completed", 0)
  /\ Goto(c, "queued")
  /\ UNCHANGED <<key, left, faults, done, voided, fresh>>

\* after() raises: the stack logs it and the record ends as it would have.
AfterLost(c) ==
  /\ key[c] # NoKey /\ Fault
  /\ \/ /\ "mark_complete" \in StoreFaults
        /\ pc[c] \in {"completing", "voiding"}
        /\ Goto(c, AfterComplete(c))
     \/ /\ "forget" \in StoreFaults
        /\ pc[c] = "releasing"
        /\ Goto(c, "queued")
  /\ UNCHANGED <<key, entry, left, done, voided, fresh>>

-----------------------------------------------------------------------------
(* SQS, Lambda and time.                                                   *)

\* The batch's reply reaches SQS and the copy is deleted.
Delete(c) ==
  /\ pc[c] = "acking"
  /\ Goto(c, "deleted")
  /\ UNCHANGED <<key, entry, left, faults, done, voided, fresh>>

\* The invocation is killed or its batch fails as a whole: no hook runs and
\* SQS redelivers the copy after its visibility timeout.
Kill(c) ==
  /\ c \in InFlight /\ Fault
  /\ Goto(c, "queued")
  /\ UNCHANGED <<key, entry, left, done, voided, fresh>>

Less(n) == IF n = 0 THEN 0 ELSE n - 1

\* Time passes, unless an invocation has to end first.
Tick ==
  /\ \A c \in InFlight : left[c] > 0
  /\ left' = [c \in Copies |-> Less(left[c])]
  /\ entry' = [k \in Keys |-> [entry[k] EXCEPT !.left = Less(@)]]
  /\ fresh' = [k \in Keys |-> Less(fresh[k])]
  /\ UNCHANGED <<key, pc, faults, done, voided>>

Deliver(c) == Acquire(c) \/ SkipDuplicate(c) \/ RunWithoutKey(c)

Process(c) ==
  \/ HandlerFails(c) \/ HandlerOk(c) \/ HandlerCancelled(c)
  \/ MarkComplete(c) \/ Forget(c) \/ Delete(c)

Next ==
  \/ \E c \in Copies : Deliver(c) \/ AcquireLost(c) \/ Process(c) \/ AfterLost(c) \/ Kill(c)
  \/ Tick

Spec == Init /\ [][Next]_vars

\* SQS redelivers, hooks and handlers end, clocks advance.
Fairness ==
  /\ \A c \in Copies : WF_vars(Deliver(c)) /\ WF_vars(Process(c))
  /\ WF_vars(Tick)

FairSpec == Spec /\ Fairness

-----------------------------------------------------------------------------
(* Properties.                                                             *)

Place == {"queued", "handler", "completing", "voiding", "releasing", "acking", "deleted"}

\* The state has its shape.
TypeOK ==
  /\ key \in [Copies -> Keys \cup {NoKey}]
  /\ entry \in [Keys -> Entry]
  /\ pc \in [Copies -> Place]
  /\ left \in [Copies -> 0..RuntimeBound]
  /\ faults \in 0..MaxFaults
  /\ done \subseteq Copies
  /\ voided \subseteq Copies
  /\ fresh \in [Keys -> 0..CompletedTtl]

Holds(c) == key[c] # NoKey /\ pc[c] \in {"handler", "completing", "voiding", "releasing"}

\* Two deliveries never work on one key at a time, although claims expire and
\* are dropped without a check of who holds them (idempotency.py:97-101).
ClaimExclusive ==
  \A c, d \in Copies : Holds(c) /\ Holds(d) /\ key[c] = key[d] => c = d

SameEvent(c, d) == c = d \/ (key[c] = key[d] /\ key[c] # NoKey)

Ended == done \cup voided

\* A copy is deleted only if it, or a duplicate of it, was processed: skipping
\* never loses a message (idempotency.py:13-14).  The one exception is a handler
\* that was cancelled: its key is completed and its duplicates are skipped.
NoLostMessage ==
  \A c \in Copies : pc[c] = "deleted" => \E d \in Ended : SameEvent(c, d)

\* No handler starts on a key inside the dedup window its completion opened.
OncePerWindow ==
  [][\A c \in Copies :
       pc[c] = "queued" /\ pc'[c] = "handler" /\ key[c] # NoKey => fresh[key[c]] = 0]_vars

\* A message is skipped only inside the dedup window its key's completion opened:
\* "duplicates arriving after it will process again" (docs/guide/idempotency.md:58).
\* Neither a claim nor a completion that outlived its window, by a duplicate
\* that met it, a lost call or a late write, ever drops a message.
SkipsOnlyInWindow ==
  [][\A c \in Copies :
       pc[c] = "queued" /\ pc'[c] = "acking" => key[c] # NoKey /\ fresh[key[c]] > 0]_vars

\* Once failures stop, every copy is processed or skipped and deleted: a claim
\* left behind by a dead worker never locks its key forever (idempotency.py:16-17).
EventuallyDeleted ==
  \A c \in Copies : (RequireKey => key[c] # NoKey) => <>(pc[c] = "deleted")
=============================================================================
