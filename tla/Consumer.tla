------------------------------ MODULE Consumer ------------------------------
(***************************************************************************)
(* A queue drained by FastSQS: the messages of one SQS queue, the Lambda   *)
(* invocations that receive them in batches, and what the replies of       *)
(* fastsqs/processing.py do to the messages over several deliveries.       *)
(*                                                                         *)
(* An invocation is abstracted to what BatchContract says of it (and       *)
(* BatchProcessing implements): records settle in the order of the failure *)
(* mode, and the reply names exactly the unprocessed ones.  SQS and the    *)
(* event source mapping are external: receive counts, locked message       *)
(* groups, deletion, redelivery and the dead-letter queue.                 *)
(***************************************************************************)
EXTENDS Naturals

CONSTANTS
  N,           \* bound: messages sent, numbered in sending order
  Groups,      \* message group ids
  Workers,     \* concurrent invocations
  MaxReceive,  \* maxReceiveCount of the redrive policy
  Modes,       \* loops tried: standard queue, or a fifo_failure_mode
  Partials     \* values tried for FastSQS(partial_batch_failure=...)

Ends == {"queued", "deleted", "dead"}

ASSUME ConsumerAssumption ==
  /\ N \in Nat
  /\ MaxReceive \in Nat \ {0}
  /\ Workers \cap Ends = {}
  /\ Modes \subseteq {"standard", "isolate", "halt"}
  /\ Partials \subseteq BOOLEAN

Messages == 1..N

VARIABLES
  app,        \* how the FastSQS app and its queue are configured
  group,      \* per message: its message group (a standard queue has one)
  place,      \* per message: queued, deleted, dead, or the worker that has it
  receives,   \* per message: ApproximateReceiveCount
  verdict,    \* per message: what its current invocation made of it
  processed,  \* history: messages some handler ran to its end
  failed,     \* history: messages some invocation saw fail
  killed      \* history: messages of invocations that never answered

vars == <<app, group, place, receives, verdict, processed, failed, killed>>

Batch(w) == {m \in Messages : place[m] = w}
Remaining(m) == place[m] \notin {"deleted", "dead"}
Earlier(m) == {n \in Messages : n < m /\ group[n] = group[m]}

Init ==
  /\ app \in [mode : Modes, partial : Partials]
  /\ group \in [Messages -> Groups]
  /\ app.mode = "standard" => \A m, n \in Messages : group[m] = group[n]
  /\ place = [m \in Messages |-> "queued"]
  /\ receives = [m \in Messages |-> 0]
  /\ verdict = [m \in Messages |-> "open"]
  /\ processed = {}
  /\ failed = {}
  /\ killed = {}

-----------------------------------------------------------------------------
(* SQS hands out messages.                                                 *)

\* A FIFO queue gives out the front of a message group, and nothing of a
\* group that is in flight.
InOrder(B) ==
  \A m \in B, n \in Messages :
    group[n] = group[m] =>
      /\ place[n] \notin Workers
      /\ n < m /\ Remaining(n) => n \in B

Receive(w, B) ==
  /\ Batch(w) = {} /\ B # {}
  /\ \A m \in B : place[m] = "queued" /\ receives[m] < MaxReceive
  /\ app.mode # "standard" => InOrder(B)
  /\ place' = [m \in Messages |-> IF m \in B THEN w ELSE place[m]]
  /\ receives' = [m \in Messages |-> IF m \in B THEN receives[m] + 1 ELSE receives[m]]
  /\ UNCHANGED <<app, group, verdict, processed, failed, killed>>

\* A message that was received MaxReceive times is not delivered again.
DeadLetter(m) ==
  /\ place[m] = "queued" /\ receives[m] = MaxReceive
  /\ app.mode # "standard" => InOrder({m})
  /\ place' = [place EXCEPT ![m] = "dead"]
  /\ UNCHANGED <<app, group, receives, verdict, processed, failed, killed>>

-----------------------------------------------------------------------------
(* One invocation: the contract of the engine.                             *)

\* Mutant: a failure does not hold the later records of its group back.
MustPrecedeNone(m) == {}

\* The messages of its batch that must be processed before m is attempted.
MustPrecede(m) ==
  CASE app.mode = "standard" -> {}
    [] app.mode = "isolate"  -> {n \in Earlier(m) : place[n] = place[m]}
    [] app.mode = "halt"     -> {n \in Messages : n < m /\ place[n] = place[m]}

\* The handler of m is run and ends.
Settle(m, v) ==
  /\ place[m] \in Workers /\ verdict[m] = "open"
  /\ \A n \in MustPrecede(m) : verdict[n] = "processed"
  /\ verdict' = [verdict EXCEPT ![m] = v]
  /\ processed' = IF v = "processed" THEN processed \cup {m} ELSE processed
  /\ failed' = IF v = "failed" THEN failed \cup {m} ELSE failed
  /\ UNCHANGED <<app, group, place, receives, killed>>

\* Mutant: the loop does not break, it waits for records that never start.
CanReplyAllSettled(w) == \A m \in Batch(w) : verdict[m] # "open"

\* Every record has settled or is held back by one that failed.
CanReply(w) ==
  /\ Batch(w) # {}
  /\ \A m \in Batch(w) :
       verdict[m] = "open" => \E n \in MustPrecede(m) : verdict[n] = "failed"

\* Mutant: only the failed records are reported, their blocked tail is not.
UnprocessedFailedOnly(w) == {m \in Batch(w) : verdict[m] = "failed"}

\* Mutant: the first failure reports the whole batch (troubleshooting.md:86).
UnprocessedAll(w) == IF \A m \in Batch(w) : verdict[m] = "processed" THEN {} ELSE Batch(w)

\* Mutant: a failed group takes the later messages of every group with it.
UnprocessedTail(w) ==
  {m \in Batch(w) : \E n \in Batch(w) : n <= m /\ verdict[n] # "processed"}

Unprocessed(w) == {m \in Batch(w) : verdict[m] # "processed"}

\* The invocation is over and its records are nobody's.
Clear(w) == verdict' = [m \in Messages |-> IF place[m] = w THEN "open" ELSE verdict[m]]

\* The reply: SQS deletes what batchItemFailures does not name and makes the
\* rest visible again.  With partial failures off any failure raises, and the
\* whole batch is visible again.
Reply(w) ==
  /\ CanReply(w)
  /\ LET back == IF app.partial \/ Unprocessed(w) = {} THEN Unprocessed(w) ELSE Batch(w)
     IN place' = [m \in Messages |->
                    IF place[m] # w THEN place[m]
                    ELSE IF m \in back THEN "queued" ELSE "deleted"]
  /\ Clear(w)
  /\ UNCHANGED <<app, group, receives, processed, failed, killed>>

\* The invocation is killed, raises out of handler(), or its reply is lost:
\* the visibility timeout returns the whole batch.
Kill(w) ==
  /\ Batch(w) # {}
  /\ place' = [m \in Messages |-> IF place[m] = w THEN "queued" ELSE place[m]]
  /\ killed' = killed \cup Batch(w)
  /\ Clear(w)
  /\ UNCHANGED <<app, group, receives, processed, failed>>

\* Every message has left the queue.
Empty == (\A m \in Messages : ~Remaining(m)) /\ UNCHANGED vars

-----------------------------------------------------------------------------
SqsNext ==
  \/ \E w \in Workers, B \in SUBSET Messages : Receive(w, B)
  \/ \E m \in Messages : DeadLetter(m)

Invocation(w) ==
  \/ \E m \in Batch(w), v \in {"processed", "failed"} : Settle(m, v)
  \/ Reply(w)

Next ==
  \/ SqsNext
  \/ \E w \in Workers : Invocation(w) \/ Kill(w)
  \/ Empty

Spec == Init /\ [][Next]_vars

\* SQS goes on delivering and invocations answer; nothing need ever be killed.
Progress == SqsNext \/ \E w \in Workers : Invocation(w)

FairSpec == Spec /\ WF_vars(Progress)

-----------------------------------------------------------------------------
(* Properties.                                                             *)

\* The state has its shape; no message is received too often.
TypeOK ==
  /\ app \in [mode : Modes, partial : Partials]
  /\ group \in [Messages -> Groups]
  /\ place \in [Messages -> Ends \cup Workers]
  /\ receives \in [Messages -> 0..MaxReceive]
  /\ verdict \in [Messages -> {"open", "processed", "failed"}]
  /\ processed \subseteq Messages
  /\ failed \subseteq Messages
  /\ killed \subseteq Messages

\* FIFO across deliveries: no message is attempted while an earlier message of
\* its group is unprocessed and still has a chance to be (processing.py:303-305).
GroupOrder ==
  app.mode # "standard" =>
    \A m \in processed \cup failed :
      \A n \in Earlier(m) : n \in processed \/ place[n] = "dead"

\* A message is deleted only after some handler processed it.
NothingLost == \A m \in Messages : place[m] = "deleted" => m \in processed

\* The messages whose failure can hold m back.
Culprits(m) ==
  {m} \cup (CASE app.mode = "standard" -> {}
              [] app.mode = "isolate"  -> Earlier(m)
              [] app.mode = "halt"     -> {n \in Messages : n < m})

\* With partial replies a message ends on the dead-letter queue only because it
\* failed, a message it has to follow failed, or its invocation never answered:
\* a poison message does not drag other groups with it.
DeadLetterCause ==
  app.partial =>
    \A m \in Messages :
      place[m] = "dead" /\ m \notin killed => Culprits(m) \cap failed # {}

\* With partial replies a processed message comes back only if its invocation
\* never answered.
ProcessedStays ==
  app.partial =>
    \A m \in processed \ killed : place[m] \notin {"queued", "dead"}

\* Every message is processed and deleted, or dead-lettered: a poison message
\* holds its group back for MaxReceive deliveries at most
\* (docs/troubleshooting.md:64).
Drained == <>(\A m \in Messages : ~Remaining(m))
=============================================================================
