-------------------------- MODULE BatchProcessing --------------------------
(***************************************************************************)
(* One invocation of FastSQS: the batch engine of fastsqs/processing.py    *)
(* (RecordProcessingMixin) and the queue-type resolution of app.py.        *)
(*                                                                         *)
(* asyncio runs one coroutine at a time and switches only at an await, so  *)
(* an action is the code between two awaits.  A record is "running" while  *)
(* _handle_record is suspended in a middleware or in the handler; what     *)
(* happens there is the outcome it ends with (modules MiddlewareStack and  *)
(* Idempotency open it).  The three loops are                              *)
(*   standard  one task per record behind a semaphore, then gather;        *)
(*   isolate   one task per message group, sequential inside, then gather; *)
(*   halt      one sequential loop over the batch.                         *)
(***************************************************************************)
EXTENDS Naturals, FiniteSets

CONSTANTS
  MaxBatch,             \* bound: records in one batch (SQS delivers up to 10)
  Groups,               \* message group ids
  DefaultGroup,         \* the group of a record without MessageGroupId
  Kinds,                \* shapes of the records in a batch
  QueueTypes,           \* values tried for FastSQS(queue_type=...)
  FifoFailureModes,     \* values tried for FastSQS(fifo_failure_mode=...)
  PartialBatchFailures, \* values tried for FastSQS(partial_batch_failure=...)
  MaxConcurrent,        \* FastSQS(max_concurrent_messages=...)
  HandlerOutcomes,      \* how _handle_record of a well-formed record may end
  LogFaults             \* TRUE: debug is on and the LoggingMiddleware's
                        \* logger callable may raise

AllKinds == {"dict", "badbody", "nullattrs", "nondict"}
AllOutcomes == {"returned", "raised", "cancelled"}

ASSUME ConfigAssumption ==
  /\ MaxBatch \in Nat
  /\ DefaultGroup \in Groups
  /\ Kinds \subseteq AllKinds
  /\ QueueTypes \subseteq {"auto", "standard", "fifo"}
  /\ FifoFailureModes \subseteq {"isolate_groups", "halt_batch"}
  /\ PartialBatchFailures \subseteq BOOLEAN
  /\ MaxConcurrent \in Nat
  /\ HandlerOutcomes \subseteq AllOutcomes
  /\ LogFaults \in BOOLEAN

VARIABLES
  app,        \* the arguments FastSQS was built with
  batch,      \* the records of the event, in arrival order
  arnFifo,    \* their eventSourceARN ends with ".fifo"
  mode,       \* the loop _handle_event chose
  task,       \* per record: where its _handle_record is
  sem,        \* free slots of the asyncio.Semaphore
  group,      \* per message group: its process_group task
  cursor,     \* per message group: the record its for loop is at
  pos,        \* halt_batch: the record the loop is at
  failures,   \* FIFO: records appended to batchItemFailures so far
  response    \* what the caller of handler() has got so far

vars == <<app, batch, arnFifo, mode, task, sem, group, cursor, pos, failures, response>>

Apps == [queue_type : QueueTypes, fifo_failure_mode : FifoFailureModes,
         partial_batch_failure : PartialBatchFailures]

-----------------------------------------------------------------------------
(* Records.  A record of a real queue is a JSON object ("dict").  A bare   *)
(* list from an EventBridge Pipes enrichment may also hold something that  *)
(* is not an object, or an object whose "attributes" is null.              *)

Shape ==
  {s \in [kind : Kinds, group : Groups, hasId : BOOLEAN] :
     /\ s.kind \in {"nondict", "nullattrs"} => s.group = DefaultGroup
     /\ s.kind = "nondict" => ~s.hasId}

Batches == UNION {[1..n -> Shape] : n \in 0..MaxBatch}

Records == DOMAIN batch

UNKNOWN == 0

\* messageId is present and unique, or coalesced to the UNKNOWN sentinel.
MessageId(r) == IF batch[r].hasId THEN r ELSE UNKNOWN

QueueType ==
  IF app.queue_type # "auto" THEN app.queue_type
  ELSE IF arnFifo THEN "fifo" ELSE "standard"

\* AUTO reads records[0].get(...), which only an object has.
ResolveCrashes == app.queue_type = "auto" /\ batch[1].kind = "nondict"

\* The loop _handle_event and _handle_fifo_event enter.
ChosenMode ==
  IF QueueType = "standard" THEN "standard"
  ELSE IF app.fifo_failure_mode = "halt_batch" THEN "halt" ELSE "isolate"

\* group_records_by_message_group reads record.get("attributes").get(...).
GroupingCrashes ==
  /\ ChosenMode = "isolate"
  /\ \E r \in Records : batch[r].kind \in {"nondict", "nullattrs"}

Crashes == ResolveCrashes \/ GroupingCrashes

\* _handle_record raises before the middleware stack is entered.
Rejected(r) ==
  \/ batch[r].kind \in {"nondict", "badbody"}
  \/ batch[r].kind = "nullattrs" /\ QueueType = "fifo"

Outcomes(r) == IF Rejected(r) THEN {"raised"} ELSE HandlerOutcomes

\* Mutant: the wrong case of "MessageGroupId" is read.
MembersOneGroup(g) == IF g = DefaultGroup THEN Records ELSE {}

Members(g) == {r \in Records : batch[r].group = g}

Before(S, r) == {s \in S : s < r}
After(S, r) == {s \in S : s > r}

IsFirst(S, r) == r \in S /\ Before(S, r) = {}

-----------------------------------------------------------------------------
(* Replies.  ids are the itemIdentifiers of batchItemFailures.             *)

Pending == [kind |-> "none", ids |-> {}]
Raised == [kind |-> "raised", ids |-> {}]
Result(F) == [kind |-> "result", ids |-> {MessageId(r) : r \in F}]

\* Mutant: with partial failures off nothing is reported.
ReplyEmpty(F) == IF app.partial_batch_failure THEN Result(F) ELSE Result({})

\* The end of _handle_event: BatchFailedError when partial failures are off.
Reply(F) == IF ~app.partial_batch_failure /\ F # {} THEN Raised ELSE Result(F)

Init ==
  /\ app \in Apps
  /\ batch \in Batches
  /\ arnFifo \in BOOLEAN
  /\ mode = "unresolved"
  /\ task = [r \in Records |-> "idle"]
  /\ sem = MaxConcurrent
  /\ group = [g \in Groups |-> "absent"]
  /\ cursor = [g \in Groups |-> 0]
  /\ pos = 1
  /\ failures = {}
  /\ response = Pending

-----------------------------------------------------------------------------
(* _handle_event up to the first await.                                    *)

\* No records: nothing to do, nothing to report.
HandleEmptyEvent ==
  /\ mode = "unresolved" /\ response = Pending
  /\ Records = {}
  /\ response' = Result({})
  /\ UNCHANGED <<app, batch, arnFifo, mode, task, sem, group, cursor, pos, failures>>

\* An exception that escapes before any task exists.
HandleEventCrash ==
  /\ mode = "unresolved" /\ response = Pending
  /\ Records # {}
  /\ Crashes \/ LogFaults
  /\ response' = Raised
  /\ UNCHANGED <<app, batch, arnFifo, mode, task, sem, group, cursor, pos, failures>>

\* The loop is entered; isolate_groups creates one task per group.
HandleEvent ==
  /\ mode = "unresolved" /\ response = Pending
  /\ Records # {}
  /\ ~Crashes
  /\ mode' = ChosenMode
  /\ IF ChosenMode = "isolate"
     THEN /\ group' = [g \in Groups |-> IF Members(g) = {} THEN "absent" ELSE "running"]
          /\ cursor' \in [Groups -> Records \cup {0}]
          /\ \A g \in Groups :
               IF Members(g) = {} THEN cursor'[g] = 0 ELSE IsFirst(Members(g), cursor'[g])
     ELSE UNCHANGED <<group, cursor>>
  /\ UNCHANGED <<app, batch, arnFifo, task, sem, pos, failures, response>>

-----------------------------------------------------------------------------
(* Standard queue: process_with_semaphore, gather, the results loop.       *)

\* Mutant: the semaphore is created but never entered.
StandardStartUnlimited(r) ==
  /\ mode = "standard" /\ response = Pending
  /\ task[r] = "idle"
  /\ task' = [task EXCEPT ![r] = "running"]
  /\ UNCHANGED <<app, batch, arnFifo, mode, sem, group, cursor, pos, failures, response>>

StandardStart(r) ==
  /\ mode = "standard" /\ response = Pending
  /\ task[r] = "idle"
  /\ sem > 0
  /\ sem' = sem - 1
  /\ task' = [task EXCEPT ![r] = "running"]
  /\ UNCHANGED <<app, batch, arnFifo, mode, group, cursor, pos, failures, response>>

\* Mutant: acquire and release without try/finally: a failure keeps its slot.
StandardFinishLeak(r) ==
  /\ mode = "standard" /\ response = Pending
  /\ task[r] = "running"
  /\ \E o \in Outcomes(r) :
       /\ task' = [task EXCEPT ![r] = o]
       /\ sem' = IF o = "returned" THEN sem + 1 ELSE sem
  /\ UNCHANGED <<app, batch, arnFifo, mode, group, cursor, pos, failures, response>>

\* Mutant: a failure releases its slot twice.
StandardFinishTwice(r) ==
  /\ mode = "standard" /\ response = Pending
  /\ task[r] = "running"
  /\ \E o \in Outcomes(r) :
       /\ task' = [task EXCEPT ![r] = o]
       /\ sem' = IF o = "returned" THEN sem + 1 ELSE sem + 2
  /\ UNCHANGED <<app, batch, arnFifo, mode, group, cursor, pos, failures, response>>

StandardFinish(r) ==
  /\ mode = "standard" /\ response = Pending
  /\ task[r] = "running"
  /\ \E o \in Outcomes(r) : task' = [task EXCEPT ![r] = o]
  /\ sem' = sem + 1
  /\ UNCHANGED <<app, batch, arnFifo, mode, group, cursor, pos, failures, response>>

\* Mutant: a record that never reached a handler is not counted.
CountsAsFailureHandled(r) == task[r] = "raised" /\ ~Rejected(r)

\* Mutant: one failure reports the whole batch.
CountsAsFailureAll(r) == \E s \in Records : task[s] = "raised"

\* isinstance(result, Exception): a CancelledError is a BaseException, so a
\* cancelled task counts as a success.
CountsAsFailure(r) == task[r] = "raised"

StandardReply ==
  /\ mode = "standard" /\ response = Pending
  /\ \A r \in Records : task[r] \notin {"idle", "running"}
  /\ \/ response' = Reply({r \in Records : CountsAsFailure(r)})
     \/ LogFaults /\ response' = Raised
  /\ UNCHANGED <<app, batch, arnFifo, mode, task, sem, group, cursor, pos, failures>>

-----------------------------------------------------------------------------
(* FIFO, isolate_groups: one process_group task per group, gather.         *)

\* Mutant: the groups take turns on one lock.
GroupStartSerial(g) ==
  /\ mode = "isolate" /\ response = Pending
  /\ group[g] = "running"
  /\ task[cursor[g]] = "idle"
  /\ \A r \in Records : task[r] # "running"
  /\ task' = [task EXCEPT ![cursor[g]] = "running"]
  /\ UNCHANGED <<app, batch, arnFifo, mode, sem, group, cursor, pos, failures, response>>

GroupStart(g) ==
  /\ mode = "isolate" /\ response = Pending
  /\ group[g] = "running"
  /\ task[cursor[g]] = "idle"
  /\ task' = [task EXCEPT ![cursor[g]] = "running"]
  /\ UNCHANGED <<app, batch, arnFifo, mode, sem, group, cursor, pos, failures, response>>

\* The debug line that opens process_group is outside its try block.
GroupStartFault(g) ==
  /\ LogFaults
  /\ mode = "isolate" /\ response = Pending
  /\ group[g] = "running"
  /\ task[cursor[g]] = "idle" /\ IsFirst(Members(g), cursor[g])
  /\ group' = [group EXCEPT ![g] = "exception"]
  /\ UNCHANGED <<app, batch, arnFifo, mode, task, sem, cursor, pos, failures, response>>

\* Mutant: only the failed record is reported.
BlockedTailNone(S, r) == {r}

\* group_records[idx:], the failed record and every later one of its group.
BlockedTail(S, r) == {r} \cup After(S, r)

\* The loop of process_group resumes when the record at the cursor ends.
GroupRecordOk(g) ==
  /\ mode = "isolate" /\ response = Pending
  /\ group[g] = "running"
  /\ task[cursor[g]] = "running"
  /\ "returned" \in Outcomes(cursor[g])
  /\ task' = [task EXCEPT ![cursor[g]] = "returned"]
  /\ IF After(Members(g), cursor[g]) = {}
     THEN /\ group' = [group EXCEPT ![g] = "list"]
          /\ UNCHANGED cursor
     ELSE /\ \E r \in Records :
               /\ IsFirst(After(Members(g), cursor[g]), r)
               /\ cursor' = [cursor EXCEPT ![g] = r]
          /\ UNCHANGED group
  /\ UNCHANGED <<app, batch, arnFifo, mode, sem, pos, failures, response>>

\* Mutant: no break, the group goes on after a failure.
GroupRecordFailsNoBreak(g) ==
  /\ mode = "isolate" /\ response = Pending
  /\ group[g] = "running"
  /\ task[cursor[g]] = "running"
  /\ "raised" \in Outcomes(cursor[g])
  /\ task' = [task EXCEPT ![cursor[g]] = "raised"]
  /\ failures' = failures \cup {cursor[g]}
  /\ IF After(Members(g), cursor[g]) = {}
     THEN /\ group' = [group EXCEPT ![g] = "list"]
          /\ UNCHANGED cursor
     ELSE /\ \E r \in Records :
               /\ IsFirst(After(Members(g), cursor[g]), r)
               /\ cursor' = [cursor EXCEPT ![g] = r]
          /\ UNCHANGED group
  /\ UNCHANGED <<app, batch, arnFifo, mode, sem, pos, response>>

\* except Exception: report the tail and break.  With LogFaults the debug line
\* of the except block may itself raise, and the task's list is lost.
GroupRecordFails(g) ==
  /\ mode = "isolate" /\ response = Pending
  /\ group[g] = "running"
  /\ task[cursor[g]] = "running"
  /\ "raised" \in Outcomes(cursor[g])
  /\ task' = [task EXCEPT ![cursor[g]] = "raised"]
  /\ \/ /\ failures' = failures \cup BlockedTail(Members(g), cursor[g])
        /\ group' = [group EXCEPT ![g] = "list"]
     \/ /\ LogFaults
        /\ group' = [group EXCEPT ![g] = "exception"]
        /\ UNCHANGED failures
  /\ UNCHANGED <<app, batch, arnFifo, mode, sem, cursor, pos, response>>

\* A CancelledError is not an Exception: it ends the group's task.
GroupRecordCancelled(g) ==
  /\ mode = "isolate" /\ response = Pending
  /\ group[g] = "running"
  /\ task[cursor[g]] = "running"
  /\ "cancelled" \in Outcomes(cursor[g])
  /\ task' = [task EXCEPT ![cursor[g]] = "cancelled"]
  /\ group' = [group EXCEPT ![g] = "cancelled"]
  /\ UNCHANGED <<app, batch, arnFifo, mode, sem, cursor, pos, failures, response>>

\* Mutant: gather without return_exceptions answers at the first exception.
IsolateReplyEarly ==
  /\ mode = "isolate" /\ response = Pending
  /\ \/ \A g \in Groups : group[g] # "running"
     \/ \E g \in Groups : group[g] \in {"exception", "cancelled"}
  /\ response' = Raised
  /\ UNCHANGED <<app, batch, arnFifo, mode, task, sem, group, cursor, pos, failures>>

\* Only the groups whose task returned a list contribute to the reply; an
\* exception is logged (and that log line may raise), a cancellation dropped.
IsolateReply ==
  /\ mode = "isolate" /\ response = Pending
  /\ \A g \in Groups : group[g] # "running"
  /\ \/ response' = Reply(failures)
     \/ /\ LogFaults /\ \E g \in Groups : group[g] = "exception"
        /\ response' = Raised
  /\ UNCHANGED <<app, batch, arnFifo, mode, task, sem, group, cursor, pos, failures>>

-----------------------------------------------------------------------------
(* FIFO, halt_batch: one loop in arrival order.                            *)

Halted == \E r \in Records : task[r] \in {"raised", "cancelled"}

HaltStart ==
  /\ mode = "halt" /\ response = Pending
  /\ ~Halted
  /\ pos \in Records /\ task[pos] = "idle"
  /\ task' = [task EXCEPT ![pos] = "running"]
  /\ UNCHANGED <<app, batch, arnFifo, mode, sem, group, cursor, pos, failures, response>>

HaltRecordOk ==
  /\ mode = "halt" /\ response = Pending
  /\ pos \in Records /\ task[pos] = "running"
  /\ "returned" \in Outcomes(pos)
  /\ task' = [task EXCEPT ![pos] = "returned"]
  /\ pos' = pos + 1
  /\ UNCHANGED <<app, batch, arnFifo, mode, sem, group, cursor, failures, response>>

\* halted = True, and the rest of the loop appends every later record.
HaltRecordFails ==
  /\ mode = "halt" /\ response = Pending
  /\ pos \in Records /\ task[pos] = "running"
  /\ "raised" \in Outcomes(pos)
  /\ task' = [task EXCEPT ![pos] = "raised"]
  /\ failures' = BlockedTail(Records, pos)
  /\ UNCHANGED <<app, batch, arnFifo, mode, sem, group, cursor, pos, response>>

HaltRecordCancelled ==
  /\ mode = "halt" /\ response = Pending
  /\ pos \in Records /\ task[pos] = "running"
  /\ "cancelled" \in Outcomes(pos)
  /\ task' = [task EXCEPT ![pos] = "cancelled"]
  /\ UNCHANGED <<app, batch, arnFifo, mode, sem, group, cursor, pos, failures, response>>

\* There is no gather here: a cancellation, like a raising debug line of the
\* except block, leaves handler() and fails the whole batch.
HaltReply ==
  /\ mode = "halt" /\ response = Pending
  /\ pos \notin Records \/ Halted
  /\ \/ /\ \A r \in Records : task[r] # "cancelled"
        /\ response' = Reply(failures)
     \/ /\ \/ \E r \in Records : task[r] = "cancelled"
           \/ LogFaults /\ failures # {}
        /\ response' = Raised
  /\ UNCHANGED <<app, batch, arnFifo, mode, task, sem, group, cursor, pos, failures>>

\* The caller has its answer; the invocation is over.
Done == response # Pending /\ UNCHANGED vars

-----------------------------------------------------------------------------
StandardNext == (\E r \in Records : StandardStart(r) \/ StandardFinish(r)) \/ StandardReply

GroupNext(g) ==
  \/ GroupStart(g) \/ GroupStartFault(g)
  \/ GroupRecordOk(g) \/ GroupRecordFails(g) \/ GroupRecordCancelled(g)

IsolateNext == (\E g \in Groups : GroupNext(g)) \/ IsolateReply

HaltNext ==
  HaltStart \/ HaltRecordOk \/ HaltRecordFails \/ HaltRecordCancelled \/ HaltReply

Next ==
  \/ HandleEmptyEvent \/ HandleEventCrash \/ HandleEvent
  \/ StandardNext \/ IsolateNext \/ HaltNext
  \/ Done

Spec == Init /\ [][Next]_vars

\* The event loop runs every ready coroutine and every handler ends.
Fairness ==
  /\ WF_vars(HandleEmptyEvent \/ HandleEventCrash \/ HandleEvent)
  /\ WF_vars(StandardNext)
  /\ \A g \in Groups : WF_vars(GroupNext(g))
  /\ WF_vars(IsolateReply)
  /\ WF_vars(HaltNext)

FairSpec == Spec /\ Fairness
-----------------------------------------------------------------------------
(* Properties.                                                             *)

TaskStatus == {"idle", "running"} \cup AllOutcomes
GroupStatus == {"absent", "running", "list", "exception", "cancelled"}

\* The state has its shape; in particular the semaphore is never released
\* more often than it was acquired.
TypeOK ==
  /\ app \in Apps
  /\ batch \in Batches
  /\ arnFifo \in BOOLEAN
  /\ mode \in {"unresolved", "standard", "isolate", "halt"}
  /\ task \in [Records -> TaskStatus]
  /\ sem \in 0..MaxConcurrent
  /\ group \in [Groups -> GroupStatus]
  /\ cursor \in [Groups -> Records \cup {0}]
  /\ pos \in Nat
  /\ failures \subseteq Records
  /\ response \in [kind : {"none", "result", "raised"}, ids : SUBSET (Records \cup {UNKNOWN})]

\* A returned batchItemFailures names every record that was not processed: SQS
\* deletes a message it does not find there (processing.py:206-209).
NoSilentAck ==
  response.kind = "result" =>
    \A r \in Records : task[r] # "returned" => MessageId(r) \in response.ids

\* An unprocessed record is missing from a reply only if it was itself
\* cancelled, or the task of its group ended without a list: what is lost is
\* confined to the group it happened in, and never happens under halt_batch.
LossConfined ==
  response.kind = "result" =>
    \A r \in Records :
      task[r] # "returned" /\ MessageId(r) \notin response.ids =>
        \/ mode = "standard" /\ task[r] = "cancelled"
        \/ mode = "isolate" /\ group[batch[r].group] \in {"exception", "cancelled"}

\* A processed record is reported, and so delivered again, only if it shares
\* its identifier (the UNKNOWN sentinel) with a record that was not processed.
NothingRedone ==
  response.kind = "result" =>
    \A r \in Records :
      task[r] = "returned" /\ MessageId(r) \in response.ids =>
        \E s \in Records : task[s] # "returned" /\ MessageId(s) = MessageId(r)

\* The records that must be processed before r is attempted.
MustPrecede(r) ==
  CASE ChosenMode = "standard" -> {}
    [] ChosenMode = "isolate"  -> Before(Members(batch[r].group), r)
    [] ChosenMode = "halt"     -> Before(Records, r)

\* FIFO order: no record is attempted unless every earlier record of its group
\* (halt_batch: of the batch) was processed by this invocation.
ArrivalOrder ==
  \A r \in Records :
    task[r] # "idle" => \A s \in MustPrecede(r) : task[s] = "returned"

\* isolate_groups: a record is left unattempted only behind a failure of its
\* own group.
GroupsIndependent ==
  mode = "isolate" /\ response # Pending =>
    \A r \in Records :
      task[r] = "idle" => \E s \in MustPrecede(r) : task[s] = "raised"

Running == {r \in Records : task[r] = "running"}

\* At most max_concurrent_messages records of a standard batch are in flight,
\* at most one per group of a FIFO batch, at most one under halt_batch.
ConcurrencyBound ==
  /\ mode = "standard" => Cardinality(Running) <= MaxConcurrent
  /\ mode = "isolate" =>
       \A r, s \in Running : batch[r].group = batch[s].group => r = s
  /\ mode = "halt" => \A r, s \in Running : r = s

\* No record is still in flight when the caller gets its answer, so nothing
\* runs on into the next invocation on the same event loop.
NothingLeftRunning == response # Pending => Running = {}

\* A record fails only itself (and what it holds back): with partial batch
\* failures on, handler() itself does not raise.
FailsOnlyItself == app.partial_batch_failure => response.kind # "raised"

\* The invocation answers.
Responds == <>(response # Pending)

\* A handler that hangs in one group does not keep another group from ending:
\* a group whose own task is scheduled settles, whatever the others do.
GroupsDoNotWait ==
  \A g \in Groups :
    WF_vars(GroupNext(g)) => (group[g] = "running" ~> group[g] # "running")

\* The handler is entered; any group may hang.
HangSpec == Spec /\ WF_vars(HandleEvent)

\* The contract, with the verdict of a record read off its task.
VerdictOf(status) ==
  CASE status = "returned" -> "processed"
    [] status \in {"raised", "cancelled"} -> "failed"
    [] status \in {"idle", "running"} -> "open"

verdict == [r \in Records |-> VerdictOf(task[r])]

Contract == INSTANCE BatchContract WITH
  ident    <- [r \in Records |-> MessageId(r)],
  before   <- [r \in Records |-> MustPrecede(r)],
  settled  <- verdict,
  response <- response

\* The engine keeps the contract of BatchContract.
ImplementsContract == Contract!Spec

=============================================================================
