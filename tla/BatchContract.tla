--------------------------- MODULE BatchContract ---------------------------
(***************************************************************************)
(* What one FastSQS invocation promises to SQS, whatever the queue type    *)
(* and the FIFO failure mode: every record settles at most once, a record  *)
(* is attempted only after every record it must wait for was processed,    *)
(* and the reply names exactly the records that were not processed.        *)
(*                                                                         *)
(*   - before[r] is the set of records that must be processed before r is  *)
(*     attempted: none (standard queue), the earlier records of its group  *)
(*     (isolate_groups), every earlier record (halt_batch);                *)
(*   - ident[r] is the itemIdentifier SQS knows r by.                      *)
(*                                                                         *)
(* BatchProcessing implements this specification.                          *)
(***************************************************************************)
EXTENDS Naturals

CONSTANT MaxBatch   \* bound on the records of one invocation

VARIABLES
  ident,      \* [1..n -> identifier], fixed for the invocation
  before,     \* [1..n -> SUBSET 1..n], fixed for the invocation
  settled,    \* [1..n -> Verdict]
  response    \* what the caller of handler() has got so far

cvars == <<ident, before, settled, response>>

Verdict == {"open", "processed", "failed"}

Records == DOMAIN settled

Unprocessed == {r \in Records : settled[r] # "processed"}

Pending == [kind |-> "none", ids |-> {}]
Refused == [kind |-> "raised", ids |-> {}]

Init ==
  \E n \in 0..MaxBatch :
    /\ ident \in [1..n -> 0..MaxBatch]
    /\ before \in [1..n -> SUBSET (1..n)]
    /\ settled = [r \in 1..n |-> "open"]
    /\ response = Pending

\* A record gets its verdict, its predecessors all processed.
Settle(r, verdict) ==
  /\ response = Pending
  /\ settled[r] = "open"
  /\ \A s \in before[r] : settled[s] = "processed"
  /\ settled' = [settled EXCEPT ![r] = verdict]
  /\ UNCHANGED <<ident, before, response>>

\* Every record is settled or held back by one that was not processed.
CanReply ==
  /\ response = Pending
  /\ \A r \in Records :
       settled[r] = "open" => \E s \in before[r] : settled[s] # "processed"

\* The reply reports exactly the unprocessed records.
Reply ==
  /\ CanReply
  /\ response' = [kind |-> "result", ids |-> {ident[r] : r \in Unprocessed}]
  /\ UNCHANGED <<ident, before, settled>>

\* The invocation fails as a whole: SQS redelivers every record.
Refuse ==
  /\ response = Pending
  /\ response' = Refused
  /\ UNCHANGED <<ident, before, settled>>

Next ==
  \/ \E r \in Records, verdict \in {"processed", "failed"} : Settle(r, verdict)
  \/ Reply
  \/ Refuse

Spec == Init /\ [][Next]_cvars
=============================================================================
