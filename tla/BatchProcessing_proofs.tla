----------------------- MODULE BatchProcessing_proofs -----------------------
(***************************************************************************)
(* Machine-checked theorems about BatchProcessing, for every batch size,   *)
(* every set of groups and every configuration.                            *)
(***************************************************************************)
EXTENDS BatchProcessing, FiniteSetTheorems, WellFoundedInduction, TLAPS

-----------------------------------------------------------------------------
(* The inductive invariant, in named parts.                                *)

\* The shape of the state, the semaphore's upper bound left to SemInv.
ShapeInv ==
  /\ app \in Apps
  /\ batch \in Batches
  /\ arnFifo \in BOOLEAN
  /\ mode \in {"unresolved", "standard", "isolate", "halt"}
  /\ task \in [Records -> TaskStatus]
  /\ sem \in Nat
  /\ group \in [Groups -> GroupStatus]
  /\ cursor \in [Groups -> Records \cup {0}]
  /\ \A g \in Groups : group[g] = "running" => cursor[g] \in Members(g)
  /\ pos \in Nat
  /\ failures \subseteq Records
  /\ response \in [kind : {"none", "result", "raised"}, ids : SUBSET (Records \cup {UNKNOWN})]

\* Before the loop is chosen nothing has happened; afterwards it stays chosen.
ModeInv ==
  /\ mode = "unresolved" =>
       /\ \A r \in Records : task[r] = "idle"
       /\ failures = {} /\ pos = 1
       /\ response.kind = "result" => Records = {}
  /\ mode # "unresolved" => mode = ChosenMode

\* Every slot is free or held by one running record.
SemInv ==
  /\ mode = "standard" => sem + Cardinality(Running) = MaxConcurrent
  /\ mode # "standard" => sem = MaxConcurrent

\* The members of a group before its cursor were processed, those after it are
\* untouched, and its task ended the way the record at the cursor ended.
CursorInv(g) ==
  /\ group[g] # "absent"
  /\ cursor[g] \in Members(g)
  /\ \A r \in Before(Members(g), cursor[g]) : task[r] = "returned"
  /\ \A r \in After(Members(g), cursor[g]) : task[r] = "idle"
  /\ group[g] = "running" => task[cursor[g]] \in {"idle", "running"}
  /\ group[g] = "list" =>
       \/ task[cursor[g]] = "returned" /\ After(Members(g), cursor[g]) = {}
       \/ task[cursor[g]] = "raised" /\ BlockedTail(Members(g), cursor[g]) \subseteq failures
  /\ group[g] \in {"exception", "cancelled"} =>
       task[cursor[g]] \in {"idle", "raised", "cancelled"}
  /\ group[g] # "running" => task[cursor[g]] # "running"
  /\ \A r \in failures :
       batch[r].group = g =>
         group[g] = "list" /\ task[cursor[g]] = "raised" /\ r >= cursor[g]

IsolateInv ==
  mode = "isolate" => \A g \in Groups : Members(g) # {} => CursorInv(g)

\* halt_batch: the records before pos were processed, those after it are
\* untouched, and the failures are the tail from a raised record.
HaltInv ==
  mode = "halt" =>
    /\ \A r \in Records : r < pos => task[r] = "returned"
    /\ \A r \in Records : r > pos => task[r] = "idle"
    /\ \A r \in Records : r = pos => task[r] # "returned"
    /\ (\E r \in Records : task[r] = "raised") => failures = BlockedTail(Records, pos)
    /\ (\A r \in Records : task[r] # "raised") => failures = {}
    /\ pos = 1 \/ pos - 1 \in Records

\* A record in failures is not one that was processed.
FailuresInv ==
  /\ \A r \in failures : task[r] # "returned"
  /\ mode = "standard" => failures = {}

\* Nothing runs once the reply is out.
ReplyInv == response # Pending => \A r \in Records : task[r] # "running"

IInv ==
  /\ ShapeInv /\ ModeInv /\ SemInv /\ IsolateInv /\ HaltInv
  /\ FailuresInv /\ ReplyInv

-----------------------------------------------------------------------------
(* Facts about a batch.                                                    *)

\* Records are positions 1..n of the batch; each has a shape.
LEMMA BatchFacts ==
  ASSUME batch \in Batches
  PROVE  /\ \E n \in Nat : Records = 1..n
         /\ Records \subseteq Nat \ {0}
         /\ IsFiniteSet(Records)
         /\ \A r \in Records : batch[r] \in Shape /\ batch[r].group \in Groups
<1>1. PICK n \in 0..MaxBatch : batch \in [1..n -> Shape]
  BY DEF Batches
<1>2. Records = 1..n
  BY <1>1 DEF Records
<1>3. n \in Nat
  BY <1>1, ConfigAssumption
<1>4. IsFiniteSet(1..n)
  BY <1>3, FS_Interval
<1> QED
  BY <1>1, <1>2, <1>3, <1>4 DEF Shape

\* A record that is first in a set has no earlier member there.
LEMMA FirstFacts ==
  ASSUME NEW S, NEW r, IsFirst(S, r), S \subseteq Nat
  PROVE  r \in S /\ \A s \in S : s >= r
BY DEF IsFirst, Before

-----------------------------------------------------------------------------
(* The batch and its configuration never change.                           *)

LEMMA FixedNext == [Next]_vars => app' = app /\ batch' = batch /\ arnFifo' = arnFifo
BY DEF Next, StandardNext, IsolateNext, GroupNext, HaltNext, vars, HandleEmptyEvent,
  HandleEventCrash, HandleEvent, StandardStart, StandardFinish, StandardReply, GroupStart,
  GroupStartFault, GroupRecordOk, GroupRecordFails, GroupRecordCancelled, IsolateReply,
  HaltStart, HaltRecordOk, HaltRecordFails, HaltRecordCancelled, HaltReply, Done

LEMMA FixedDefs ==
  ASSUME app' = app, batch' = batch, arnFifo' = arnFifo
  PROVE  /\ Records' = Records
         /\ ChosenMode' = ChosenMode
         /\ \A g : Members(g)' = Members(g)
<1>1. Records' = Records
  BY DEF Records
<1>2. ChosenMode' = ChosenMode
  BY DEF ChosenMode, QueueType
<1>3. \A g : Members(g)' = Members(g)
  BY <1>1 DEF Members
<1> QED
  BY <1>1, <1>2, <1>3

LEMMA ChosenModeType == ChosenMode \in {"standard", "isolate", "halt"}
BY DEF ChosenMode

\* Every step is one of: no step of a loop, or a step of exactly one loop.
LEMMA StepCases ==
  ASSUME [Next]_vars
  PROVE  \/ HandleEmptyEvent \/ HandleEventCrash \/ HandleEvent
         \/ mode = "standard" /\ StandardNext
         \/ mode = "isolate" /\ IsolateNext
         \/ mode = "halt" /\ HaltNext
         \/ UNCHANGED vars
<1>1. StandardNext => mode = "standard"
  BY DEF StandardNext, StandardStart, StandardFinish, StandardReply
<1>2. IsolateNext => mode = "isolate"
  BY DEF IsolateNext, GroupNext, GroupStart, GroupStartFault, GroupRecordOk,
    GroupRecordFails, GroupRecordCancelled, IsolateReply
<1>3. HaltNext => mode = "halt"
  BY DEF HaltNext, HaltStart, HaltRecordOk, HaltRecordFails, HaltRecordCancelled, HaltReply
<1> QED
  BY <1>1, <1>2, <1>3 DEF Next, Done

\* A loop is never left, and each loop leaves the variables of the others alone.
LEMMA LoopFrame ==
  /\ StandardNext => UNCHANGED <<mode, group, cursor, pos, failures>>
  /\ IsolateNext => UNCHANGED <<mode, sem, pos>>
  /\ HaltNext => UNCHANGED <<mode, sem, group, cursor>>
<1>1. StandardNext => UNCHANGED <<mode, group, cursor, pos, failures>>
  BY DEF StandardNext, StandardStart, StandardFinish, StandardReply
<1>2. IsolateNext => UNCHANGED <<mode, sem, pos>>
  BY DEF IsolateNext, GroupNext, GroupStart, GroupStartFault, GroupRecordOk,
    GroupRecordFails, GroupRecordCancelled, IsolateReply
<1>3. HaltNext => UNCHANGED <<mode, sem, group, cursor>>
  BY DEF HaltNext, HaltStart, HaltRecordOk, HaltRecordFails, HaltRecordCancelled, HaltReply
<1> QED
  BY <1>1, <1>2, <1>3

-----------------------------------------------------------------------------
(* The shape of the state.                                                 *)

LEMMA ShapeInit == Init => ShapeInv
<1> SUFFICES ASSUME Init PROVE ShapeInv
  OBVIOUS
<1>1. task \in [Records -> TaskStatus]
  BY DEF Init, TaskStatus
<1>2. group \in [Groups -> GroupStatus] /\ cursor \in [Groups -> Records \cup {0}]
  BY DEF Init, GroupStatus
<1>3. response \in [kind : {"none", "result", "raised"}, ids : SUBSET (Records \cup {UNKNOWN})]
  BY DEF Init, Pending
<1> QED
  BY <1>1, <1>2, <1>3, ConfigAssumption DEF Init, ShapeInv

\* Replies carry identifiers of the batch.
LEMMA ReplyType ==
  ASSUME NEW F, F \subseteq Records
  PROVE  /\ Reply(F) \in [kind : {"none", "result", "raised"}, ids : SUBSET (Records \cup {UNKNOWN})]
         /\ Raised \in [kind : {"none", "result", "raised"}, ids : SUBSET (Records \cup {UNKNOWN})]
         /\ Result(F) \in [kind : {"none", "result", "raised"}, ids : SUBSET (Records \cup {UNKNOWN})]
<1>1. \A r \in Records : MessageId(r) \in Records \cup {UNKNOWN}
  BY DEF MessageId
<1> QED
  BY <1>1 DEF Reply, Raised, Result

LEMMA OutcomeType == \A r : Outcomes(r) \subseteq AllOutcomes
BY ConfigAssumption DEF Outcomes, AllOutcomes

LEMMA ShapeNext == ShapeInv /\ [Next]_vars => ShapeInv'
<1> SUFFICES ASSUME ShapeInv, [Next]_vars PROVE ShapeInv'
  OBVIOUS
<1> USE DEF ShapeInv
<1>b. /\ app' = app /\ app' \in Apps /\ batch' = batch /\ batch' \in Batches /\ arnFifo' \in BOOLEAN
      /\ Records' = Records /\ \A g : Members(g)' = Members(g)
  BY FixedNext, FixedDefs
<1>m. \A g : Members(g) \subseteq Records
  BY DEF Members
<1>0. Records \subseteq Nat \ {0}
  BY BatchFacts
<1>1. CASE HandleEmptyEvent
  BY <1>1, <1>b, ReplyType DEF HandleEmptyEvent
<1>2. CASE HandleEventCrash
  BY <1>2, <1>b, ReplyType DEF HandleEventCrash
<1>3. CASE HandleEvent
  <2>1. mode' \in {"unresolved", "standard", "isolate", "halt"}
    BY <1>3 DEF HandleEvent, ChosenMode
  <2>2. group' \in [Groups -> GroupStatus]
    BY <1>3 DEF HandleEvent, GroupStatus
  <2>3. cursor' \in [Groups -> Records \cup {0}]
    BY <1>3 DEF HandleEvent
  <2>4. ASSUME NEW g \in Groups, group'[g] = "running" PROVE cursor'[g] \in Members(g)
    BY <1>3, <2>4 DEF HandleEvent, IsFirst
  <2> QED
    BY <2>1, <2>2, <2>3, <2>4, <1>3, <1>b DEF HandleEvent
<1>4. ASSUME NEW r \in Records, StandardStart(r) PROVE ShapeInv'
  <2>1. task' \in [Records -> TaskStatus]
    BY <1>4 DEF StandardStart, TaskStatus
  <2>2. sem' \in Nat
    BY <1>4 DEF StandardStart
  <2> QED
    BY <1>4, <2>1, <2>2, <1>b DEF StandardStart
<1>5. ASSUME NEW r \in Records, StandardFinish(r) PROVE ShapeInv'
  <2>1. PICK o \in Outcomes(r) : task' = [task EXCEPT ![r] = o]
    BY <1>5 DEF StandardFinish
  <2>2. o \in TaskStatus
    BY OutcomeType DEF TaskStatus
  <2>3. task' \in [Records -> TaskStatus]
    BY <2>1, <2>2
  <2>4. sem' \in Nat
    BY <1>5 DEF StandardFinish
  <2> QED
    BY <1>5, <1>b, <2>3, <2>4 DEF StandardFinish
<1>6. CASE StandardReply
  <2> DEFINE F == {r \in Records : CountsAsFailure(r)}
  <2>1. response' \in {Reply(F), Raised}
    BY <1>6 DEF StandardReply
  <2>2. response' \in [kind : {"none", "result", "raised"}, ids : SUBSET (Records \cup {UNKNOWN})]
    <3> F \subseteq Records
      OBVIOUS
    <3> HIDE DEF F
    <3> QED
      BY <2>1, ReplyType
  <2> QED
    BY <1>6, <1>b, <2>2 DEF StandardReply
<1>7. ASSUME NEW g \in Groups, GroupStart(g) PROVE ShapeInv'
  BY <1>7, <1>b, <1>m DEF GroupStart, TaskStatus
<1>8. ASSUME NEW g \in Groups, GroupStartFault(g) PROVE ShapeInv'
  BY <1>8, <1>b, <1>m DEF GroupStartFault, GroupStatus
<1>9. ASSUME NEW g \in Groups, GroupRecordOk(g) PROVE ShapeInv'
  <2>1. task' \in [Records -> TaskStatus]
    BY <1>9, <1>m DEF GroupRecordOk, TaskStatus, AllOutcomes
  <2>2. group' \in [Groups -> GroupStatus]
    BY <1>9 DEF GroupRecordOk, GroupStatus
  <2>3. cursor' \in [Groups -> Records \cup {0}]
    BY <1>9 DEF GroupRecordOk
  <2>4. ASSUME NEW h \in Groups, group'[h] = "running" PROVE cursor'[h] \in Members(h)
    BY <1>9, <2>4 DEF GroupRecordOk, IsFirst, After
  <2> QED
    BY <1>9, <2>1, <2>2, <2>3, <2>4, <1>b DEF GroupRecordOk
<1>10. ASSUME NEW g \in Groups, GroupRecordFails(g) PROVE ShapeInv'
  <2>1. task' \in [Records -> TaskStatus] /\ group' \in [Groups -> GroupStatus]
    BY <1>10, <1>m DEF GroupRecordFails, TaskStatus, AllOutcomes, GroupStatus
  <2>4. BlockedTail(Members(g), cursor[g]) \subseteq Records
    <3>1. cursor[g] \in Records
      BY <1>10, <1>m DEF GroupRecordFails
    <3> QED
      BY <3>1 DEF BlockedTail, After, Members
  <2>2. failures' \subseteq Records
    BY <1>10, <2>4 DEF GroupRecordFails
  <2>3. UNCHANGED <<app, batch, arnFifo, mode, sem, cursor, pos, response>>
    BY <1>10 DEF GroupRecordFails
  <2>5. ASSUME NEW h \in Groups, group'[h] = "running" PROVE cursor'[h] \in Members(h)
    BY <1>10, <2>5 DEF GroupRecordFails
  <2> QED
    BY <2>1, <2>2, <2>3, <2>5, <1>b
<1>11. ASSUME NEW g \in Groups, GroupRecordCancelled(g) PROVE ShapeInv'
  BY <1>11, <1>b, <1>m DEF GroupRecordCancelled, TaskStatus, AllOutcomes, GroupStatus
<1>12. CASE IsolateReply
  BY <1>12, <1>b, ReplyType DEF IsolateReply
<1>13. CASE HaltStart
  BY <1>13, <1>b DEF HaltStart, TaskStatus
<1>14. CASE HaltRecordOk
  <2>1. task' \in [Records -> TaskStatus] /\ pos' \in Nat
    BY <1>14 DEF HaltRecordOk, TaskStatus, AllOutcomes
  <2> QED
    BY <1>14, <2>1, <1>b DEF HaltRecordOk
<1>15. CASE HaltRecordFails
  BY <1>15, <1>b DEF HaltRecordFails, TaskStatus, AllOutcomes, BlockedTail, After
<1>16. CASE HaltRecordCancelled
  BY <1>16, <1>b DEF HaltRecordCancelled, TaskStatus, AllOutcomes
<1>17. CASE HaltReply
  BY <1>17, <1>b, ReplyType DEF HaltReply
<1>18. CASE Done \/ UNCHANGED vars
  BY <1>18, <1>b DEF Done, vars
<1> QED
  BY <1>1, <1>2, <1>3, <1>4, <1>5, <1>6, <1>7, <1>8, <1>9, <1>10, <1>11, <1>12, <1>13,
     <1>14, <1>15, <1>16, <1>17, <1>18
  DEF Next, StandardNext, IsolateNext, GroupNext, HaltNext

-----------------------------------------------------------------------------
(* The chosen loop.                                                        *)

LEMMA ModeNext == ShapeInv /\ ModeInv /\ [Next]_vars => ModeInv'
<1> SUFFICES ASSUME ShapeInv, ModeInv, [Next]_vars PROVE ModeInv'
  OBVIOUS
<1>1. Records' = Records /\ ChosenMode' = ChosenMode
  BY FixedNext, FixedDefs
<1>2. CASE HandleEmptyEvent
  BY <1>1, <1>2 DEF HandleEmptyEvent, ModeInv
<1>3. CASE HandleEventCrash
  BY <1>1, <1>3 DEF HandleEventCrash, ModeInv, Raised
<1>4. CASE HandleEvent
  BY <1>1, <1>4, ChosenModeType DEF HandleEvent, ModeInv
<1>5. CASE mode # "unresolved" /\ mode' = mode
  BY <1>1, <1>5 DEF ModeInv
<1>6. CASE UNCHANGED vars
  BY <1>1, <1>6 DEF vars, ModeInv
<1> QED
  BY <1>2, <1>3, <1>4, <1>5, <1>6, StepCases, LoopFrame

-----------------------------------------------------------------------------
(* The semaphore.                                                          *)

LEMMA SemNext == ShapeInv /\ ModeInv /\ SemInv /\ [Next]_vars => SemInv'
<1> SUFFICES ASSUME ShapeInv, ModeInv, SemInv, [Next]_vars PROVE SemInv'
  OBVIOUS
<1>1. Records' = Records /\ IsFiniteSet(Records)
  BY FixedNext, FixedDefs, BatchFacts DEF ShapeInv
<1>2. IsFiniteSet(Running) /\ Cardinality(Running) \in Nat
  BY <1>1, FS_Subset, FS_CardinalityType DEF Running
<1>3. CASE HandleEvent
  <2>1. Running' = {}
    BY <1>1, <1>3 DEF HandleEvent, ModeInv, Running
  <2>2. Cardinality(Running') = 0
    BY <2>1, FS_EmptySet
  <2> QED
    BY <2>2, <1>3, ConfigAssumption DEF HandleEvent, SemInv
<1>4. CASE mode = "standard" /\ StandardNext
  <2>1. ASSUME NEW r \in Records, StandardStart(r) PROVE SemInv'
    <3>1. Running' = Running \cup {r} /\ r \notin Running
      BY <1>1, <2>1 DEF StandardStart, Running, ShapeInv
    <3>2. Cardinality(Running') = Cardinality(Running) + 1
      BY <3>1, <1>2, FS_AddElement
    <3>3. sem' = sem - 1 /\ mode' = mode /\ sem \in Nat
      BY <2>1 DEF StandardStart, ShapeInv
    <3> QED
      BY <3>2, <3>3, <1>2, <1>4 DEF SemInv
  <2>2. ASSUME NEW r \in Records, StandardFinish(r) PROVE SemInv'
    <3>1. PICK o \in Outcomes(r) : task' = [task EXCEPT ![r] = o]
      BY <2>2 DEF StandardFinish
    <3>2. o # "running"
      BY OutcomeType DEF AllOutcomes
    <3>3. Running' = Running \ {r} /\ r \in Running
      BY <1>1, <2>2, <3>1, <3>2 DEF StandardFinish, Running, ShapeInv
    <3>4. Cardinality(Running') = Cardinality(Running) - 1
      BY <3>3, <1>2, FS_RemoveElement
    <3>5. sem' = sem + 1 /\ mode' = mode /\ sem \in Nat
      BY <2>2 DEF StandardFinish, ShapeInv
    <3> QED
      BY <3>4, <3>5, <1>2, <1>4 DEF SemInv
  <2>3. CASE StandardReply
    BY <1>1, <2>3 DEF StandardReply, SemInv, Running
  <2> QED
    BY <1>4, <2>1, <2>2, <2>3 DEF StandardNext
<1>5. CASE mode # "standard" /\ UNCHANGED <<mode, sem>>
  BY <1>5 DEF SemInv
<1>6. CASE UNCHANGED vars
  BY <1>1, <1>6 DEF vars, SemInv, Running
<1>7. CASE HandleEmptyEvent \/ HandleEventCrash
  BY <1>7 DEF HandleEmptyEvent, HandleEventCrash, SemInv
<1> QED
  BY <1>3, <1>4, <1>5, <1>6, <1>7, StepCases, LoopFrame

-----------------------------------------------------------------------------
(* isolate_groups.                                                         *)

\* Another group's record is not in this group.
LEMMA OtherGroup ==
  ASSUME NEW g, NEW h, g # h
  PROVE  Members(g) \cap Members(h) = {}
BY DEF Members

LEMMA IsolateInvNext == ShapeInv /\ ModeInv /\ IsolateInv /\ [Next]_vars => IsolateInv'
<1> SUFFICES ASSUME ShapeInv, ModeInv, IsolateInv, [Next]_vars PROVE IsolateInv'
  OBVIOUS
<1>1. batch' = batch /\ Records' = Records /\ \A g : Members(g)' = Members(g)
  BY FixedNext, FixedDefs
<1>2. Records \subseteq Nat \ {0} /\ \A g : Members(g) \subseteq Records
  BY BatchFacts DEF ShapeInv, Members
<1>3. CASE HandleEvent
  <2>1. SUFFICES ASSUME mode' = "isolate", NEW g \in Groups, Members(g) # {}
                 PROVE  CursorInv(g)'
    BY <1>1 DEF IsolateInv
  <2>2. ChosenMode = "isolate" /\ task' = task /\ failures' = failures
    BY <1>3, <2>1 DEF HandleEvent
  <2>3. group'[g] = "running" /\ IsFirst(Members(g), cursor'[g])
    BY <1>3, <2>1, <2>2 DEF HandleEvent
  <2>4. Before(Members(g), cursor'[g]) = {} /\ cursor'[g] \in Members(g)
    BY <2>3 DEF IsFirst
  <2>5. \A r \in Records : task[r] = "idle"
    BY <1>3 DEF HandleEvent, ModeInv
  <2>6. failures = {}
    BY <1>3 DEF HandleEvent, ModeInv
  <2> QED
    BY <1>1, <1>2, <2>2, <2>3, <2>4, <2>5, <2>6 DEF CursorInv, Before, After
<1>4. CASE mode = "isolate" /\ IsolateNext
  <2>0. mode' = "isolate"
    BY <1>4, LoopFrame
  <2>1. ASSUME NEW g \in Groups, GroupNext(g), NEW h \in Groups, Members(h) # {}
        PROVE  CursorInv(h)'
    <3>0. CursorInv(h)
      BY <1>4, <2>1 DEF IsolateInv
    <3>a. group[g] = "running" /\ cursor[g] \in Members(g)
      BY <2>1 DEF GroupNext, GroupStart, GroupStartFault, GroupRecordOk, GroupRecordFails,
        GroupRecordCancelled, ShapeInv
    <3>1. CASE h # g
      <4>1. group'[h] = group[h] /\ cursor'[h] = cursor[h]
        BY <2>1, <3>1 DEF GroupNext, GroupStart, GroupStartFault, GroupRecordOk,
          GroupRecordFails, GroupRecordCancelled, ShapeInv
      <4>2. cursor[g] \notin Members(h)
        BY <3>1, <3>a, OtherGroup
      <4>3. \A r \in Members(h) : task'[r] = task[r]
        BY <2>1, <3>1, <4>2, <1>2 DEF GroupNext, GroupStart, GroupStartFault, GroupRecordOk,
          GroupRecordFails, GroupRecordCancelled, ShapeInv
      <4>4. \A r \in Members(h) : r \in failures' => r \in failures
        <5>1. BlockedTail(Members(g), cursor[g]) \subseteq Members(g)
          BY <3>a DEF BlockedTail, After
        <5>2. failures' \subseteq failures \cup Members(g)
          BY <2>1, <5>1 DEF GroupNext, GroupStart, GroupStartFault, GroupRecordOk,
            GroupRecordFails, GroupRecordCancelled
        <5> QED
          BY <5>2, <3>1, OtherGroup
      <4>5. failures \subseteq failures'
        BY <2>1 DEF GroupNext, GroupStart, GroupStartFault, GroupRecordOk,
          GroupRecordFails, GroupRecordCancelled
      <4>6. failures' \subseteq Records
        <5>1. ShapeInv'
          BY ShapeNext
        <5> QED
          BY <5>1, <1>1 DEF ShapeInv
      <4>7. cursor[h] \in Members(h) /\ cursor[h] \in Nat
        BY <3>0, <1>2 DEF CursorInv
      <4>8. \A r \in failures' : batch[r].group = h => r \in failures
        BY <4>4, <4>6, <1>1 DEF Members
      <4> QED
        BY <1>1, <3>0, <4>1, <4>3, <4>5, <4>7, <4>8
        DEF CursorInv, Before, After, BlockedTail
    <3>2. CASE h = g
      <4>1. /\ cursor[g] \in Members(g) /\ cursor[g] \in Records
            /\ Members(g) \subseteq Nat
        BY <3>a, <1>2
      <4>2. \A r \in Members(g) : r < cursor[g] => task[r] = "returned"
        BY <3>0, <3>2 DEF CursorInv, Before
      <4>3. \A r \in Members(g) : r > cursor[g] => task[r] = "idle"
        BY <3>0, <3>2 DEF CursorInv, After
      <4>4. \A r \in failures : batch[r].group # g
        BY <3>0, <3>2, <3>a DEF CursorInv
      <4>5. CASE GroupStart(g)
        BY <1>1, <3>2, <3>a, <4>1, <4>2, <4>3, <4>4, <4>5
        DEF GroupStart, ShapeInv, CursorInv, Before, After
      <4>6. CASE GroupStartFault(g)
        BY <1>1, <3>2, <3>a, <4>1, <4>2, <4>3, <4>4, <4>6
        DEF GroupStartFault, ShapeInv, CursorInv, Before, After
      <4>7. CASE GroupRecordOk(g)
        <5>1. CASE After(Members(g), cursor[g]) = {}
          BY <1>1, <3>2, <3>a, <4>1, <4>2, <4>3, <4>4, <4>7, <5>1
          DEF GroupRecordOk, ShapeInv, CursorInv, Before, After
        <5>2. CASE After(Members(g), cursor[g]) # {}
          <6>1. PICK r \in Records :
                  /\ IsFirst(After(Members(g), cursor[g]), r)
                  /\ cursor' = [cursor EXCEPT ![g] = r]
            BY <4>7, <5>2 DEF GroupRecordOk
          <6>2. r \in Members(g) /\ r > cursor[g]
            BY <6>1 DEF IsFirst, After
          <6>3. \A s \in Members(g) : s > cursor[g] => s >= r
            BY <6>1, <4>1, <6>2 DEF IsFirst, After, Before
          <6>4. /\ group' = group /\ failures' = failures /\ cursor'[g] = r
                /\ task' = [task EXCEPT ![cursor[g]] = "returned"]
            BY <4>7, <5>2, <6>1 DEF GroupRecordOk, ShapeInv
          <6>5. \A s \in Members(g) : s < r => task'[s] = "returned"
            BY <6>3, <6>4, <4>1, <4>2, <1>2 DEF ShapeInv
          <6>6. \A s \in Members(g) : s >= r => task'[s] = "idle"
            BY <6>2, <6>4, <4>1, <4>3, <1>2 DEF ShapeInv
          <6> QED
            BY <1>1, <3>2, <3>a, <4>1, <4>4, <6>2, <6>4, <6>5, <6>6
            DEF CursorInv, Before, After
        <5> QED
          BY <5>1, <5>2
      <4>8. CASE GroupRecordFails(g)
        <5>1. task' = [task EXCEPT ![cursor[g]] = "raised"] /\ cursor' = cursor
          BY <4>8 DEF GroupRecordFails
        <5>2. \A r \in Before(Members(g), cursor[g]) : task'[r] = "returned"
          BY <5>1, <4>1, <4>2 DEF Before, ShapeInv
        <5>3. \A r \in After(Members(g), cursor[g]) : task'[r] = "idle"
          BY <5>1, <4>1, <4>3 DEF After, ShapeInv
        <5>4. task'[cursor[g]] = "raised"
          BY <5>1, <4>1 DEF ShapeInv
        <5>5. \/ /\ failures' = failures \cup BlockedTail(Members(g), cursor[g])
                 /\ group'[g] = "list"
              \/ failures' = failures /\ group'[g] = "exception"
          BY <4>8 DEF GroupRecordFails, ShapeInv
        <5>6. \A r \in BlockedTail(Members(g), cursor[g]) : r >= cursor[g]
          BY <4>1 DEF BlockedTail, After
        <5>7. BlockedTail(Members(g), cursor[g])' = BlockedTail(Members(g), cursor[g])
          BY <1>1, <5>1 DEF BlockedTail, After
        <5> QED
          BY <1>1, <3>2, <4>1, <4>4, <5>1, <5>2, <5>3, <5>4, <5>5, <5>6, <5>7 DEF CursorInv
      <4>9. CASE GroupRecordCancelled(g)
        BY <1>1, <3>2, <3>a, <4>1, <4>2, <4>3, <4>4, <4>9
        DEF GroupRecordCancelled, ShapeInv, CursorInv, Before, After
      <4> QED
        BY <2>1, <4>5, <4>6, <4>7, <4>8, <4>9 DEF GroupNext
    <3> QED
      BY <3>1, <3>2
  <2>2. CASE IsolateReply
    BY <2>2, <1>1, <1>4 DEF IsolateReply, IsolateInv, CursorInv, BlockedTail, After, Before
  <2> QED
    BY <1>1, <1>4, <2>0, <2>1, <2>2 DEF IsolateNext, IsolateInv
<1>5. CASE mode # "isolate" /\ mode' = mode
  BY <1>5 DEF IsolateInv
<1>6. CASE UNCHANGED vars
  BY <1>1, <1>6 DEF vars, IsolateInv, CursorInv, BlockedTail, After, Before
<1>7. CASE HandleEmptyEvent \/ HandleEventCrash
  BY <1>7, <1>1 DEF HandleEmptyEvent, HandleEventCrash, IsolateInv
<1> QED
  BY <1>3, <1>4, <1>5, <1>6, <1>7, StepCases, LoopFrame

-----------------------------------------------------------------------------
(* halt_batch.                                                             *)

LEMMA HaltInvNext == ShapeInv /\ ModeInv /\ HaltInv /\ [Next]_vars => HaltInv'
<1> SUFFICES ASSUME ShapeInv, ModeInv, HaltInv, [Next]_vars PROVE HaltInv'
  OBVIOUS
<1>1. Records' = Records
  BY FixedNext, FixedDefs
<1>2. Records \subseteq Nat \ {0} /\ pos \in Nat /\ task \in [Records -> TaskStatus]
  BY BatchFacts DEF ShapeInv
<1>3. CASE HandleEvent
  <2>1. /\ pos = 1 /\ failures = {} /\ \A r \in Records : task[r] = "idle"
        /\ UNCHANGED <<pos, failures, task>>
    BY <1>3 DEF HandleEvent, ModeInv
  <2> QED
    BY <1>1, <1>2, <2>1 DEF HaltInv
<1>4. CASE mode = "halt" /\ HaltNext
  <2>1. CASE HaltStart
    <3>1. task' = [task EXCEPT ![pos] = "running"] /\ task[pos] = "idle" /\ pos \in Records
      BY <2>1 DEF HaltStart
    <3>2. UNCHANGED <<pos, failures, mode>>
      BY <2>1 DEF HaltStart
    <3>3. \A r \in Records : task'[r] = "raised" <=> task[r] = "raised"
      BY <1>2, <3>1
    <3> QED
      BY <1>1, <1>2, <1>4, <3>1, <3>2, <3>3 DEF HaltInv, BlockedTail, After
  <2>2. CASE HaltRecordOk
    <3>1. /\ task' = [task EXCEPT ![pos] = "returned"] /\ task[pos] = "running"
          /\ pos \in Records /\ pos' = pos + 1
      BY <2>2 DEF HaltRecordOk
    <3>2. UNCHANGED <<failures, mode>>
      BY <2>2 DEF HaltRecordOk
    <3>3. \A r \in Records : task[r] # "raised" /\ task'[r] # "raised"
      <4>1. \A r \in Records : r < pos \/ r = pos \/ r > pos
        BY <1>2
      <4> QED
        BY <1>2, <1>4, <3>1, <4>1 DEF HaltInv
    <3>4. failures = {}
      BY <3>3, <1>4 DEF HaltInv
    <3>5. \A r \in Records : r < pos + 1 => task'[r] = "returned"
      BY <1>2, <1>4, <3>1 DEF HaltInv
    <3>6. \A r \in Records : r >= pos + 1 => task'[r] = "idle"
      BY <1>2, <1>4, <3>1 DEF HaltInv
    <3>7. pos' - 1 \in Records
      BY <1>2, <3>1
    <3> QED
      BY <1>1, <1>2, <3>1, <3>2, <3>3, <3>4, <3>5, <3>6, <3>7 DEF HaltInv
  <2>3. CASE HaltRecordFails
    <3>1. /\ task' = [task EXCEPT ![pos] = "raised"] /\ pos \in Records
          /\ failures' = BlockedTail(Records, pos)
      BY <2>3 DEF HaltRecordFails
    <3>2. UNCHANGED <<pos, mode>>
      BY <2>3 DEF HaltRecordFails
    <3>3. task'[pos] = "raised"
      BY <1>2, <3>1
    <3>4. BlockedTail(Records, pos)' = BlockedTail(Records, pos)
      BY <1>1, <3>2 DEF BlockedTail, After
    <3> QED
      BY <1>1, <1>2, <1>4, <3>1, <3>2, <3>3, <3>4 DEF HaltInv
  <2>4. CASE HaltRecordCancelled
    <3>1. task' = [task EXCEPT ![pos] = "cancelled"] /\ pos \in Records /\ task[pos] = "running"
      BY <2>4 DEF HaltRecordCancelled
    <3>2. UNCHANGED <<pos, failures, mode>>
      BY <2>4 DEF HaltRecordCancelled
    <3>3. \A r \in Records : task'[r] = "raised" <=> task[r] = "raised"
      BY <1>2, <3>1
    <3> QED
      BY <1>1, <1>2, <1>4, <3>1, <3>2, <3>3 DEF HaltInv, BlockedTail, After
  <2>5. CASE HaltReply
    BY <1>1, <1>4, <2>5 DEF HaltReply, HaltInv, BlockedTail, After
  <2> QED
    BY <1>4, <2>1, <2>2, <2>3, <2>4, <2>5 DEF HaltNext
<1>5. CASE mode # "halt" /\ mode' = mode
  BY <1>5 DEF HaltInv
<1>6. CASE UNCHANGED vars
  BY <1>1, <1>6 DEF vars, HaltInv, BlockedTail, After
<1>7. CASE HandleEmptyEvent \/ HandleEventCrash
  BY <1>7, <1>1 DEF HandleEmptyEvent, HandleEventCrash, HaltInv, ModeInv
<1> QED
  BY <1>3, <1>4, <1>5, <1>6, <1>7, StepCases, LoopFrame

-----------------------------------------------------------------------------
(* The records reported so far.                                            *)

LEMMA FailuresInvNext ==
  ShapeInv /\ ModeInv /\ IsolateInv /\ HaltInv /\ FailuresInv /\ [Next]_vars => FailuresInv'
<1> SUFFICES ASSUME ShapeInv, ModeInv, IsolateInv, HaltInv, FailuresInv, [Next]_vars
             PROVE  FailuresInv'
  OBVIOUS
<1>1. batch' = batch /\ Records' = Records /\ \A g : Members(g)' = Members(g)
  BY FixedNext, FixedDefs
<1>2. /\ Records \subseteq Nat \ {0} /\ \A r \in Records : batch[r].group \in Groups
      /\ \A g : Members(g) \subseteq Records
  BY BatchFacts DEF ShapeInv, Members
<1>3. CASE HandleEvent
  <2>1. failures' = {}
    BY <1>3 DEF HandleEvent, ModeInv
  <2> QED
    BY <2>1 DEF FailuresInv
<1>4. CASE mode = "standard" /\ StandardNext
  BY <1>4, LoopFrame DEF FailuresInv
<1>5. CASE mode = "isolate" /\ IsolateNext
  <2>0. mode' = "isolate"
    BY <1>5, LoopFrame
  <2>1. ASSUME NEW g \in Groups, GroupNext(g) PROVE FailuresInv'
    <3>1. mode' = "isolate" /\ CursorInv(g)
      BY <2>0, <2>1, <1>5 DEF IsolateInv, GroupNext, GroupStart, GroupStartFault,
        GroupRecordOk, GroupRecordFails, GroupRecordCancelled, ShapeInv
    <3>a. group[g] = "running" /\ cursor[g] \in Members(g) /\ cursor[g] \in Records
      BY <2>1, <1>2 DEF GroupNext, GroupStart, GroupStartFault, GroupRecordOk, GroupRecordFails,
        GroupRecordCancelled, ShapeInv
    <3>2. cursor[g] \notin failures
      BY <3>1, <3>a DEF CursorInv, Members
    <3>3. CASE GroupRecordFails(g)
      <4>1. task' = [task EXCEPT ![cursor[g]] = "raised"]
        BY <3>3 DEF GroupRecordFails
      <4>2. \A r \in BlockedTail(Members(g), cursor[g]) : task'[r] # "returned"
        BY <4>1, <3>1, <3>a, <1>2 DEF CursorInv, BlockedTail, After, ShapeInv
      <4>3. failures' \subseteq failures \cup BlockedTail(Members(g), cursor[g])
        BY <3>3 DEF GroupRecordFails
      <4>4. \A r \in failures : task'[r] # "returned"
        BY <4>1, <3>2, <3>a DEF FailuresInv, ShapeInv
      <4> QED
        BY <2>0, <4>2, <4>3, <4>4 DEF FailuresInv
    <3>4. CASE ~GroupRecordFails(g)
      <4>1. failures' = failures /\ \A r \in failures : task'[r] = task[r]
        BY <2>1, <3>2, <3>4, <3>a DEF GroupNext, GroupStart, GroupStartFault, GroupRecordOk,
          GroupRecordCancelled, ShapeInv
      <4> QED
        BY <2>0, <4>1 DEF FailuresInv
    <3> QED
      BY <3>3, <3>4
  <2>2. CASE IsolateReply
    BY <2>0, <2>2 DEF IsolateReply, FailuresInv
  <2> QED
    BY <1>5, <2>1, <2>2 DEF IsolateNext
<1>6. CASE mode = "halt" /\ HaltNext
  <2>0. mode' = "halt"
    BY <1>6, LoopFrame
  <2>1. CASE HaltRecordFails
    <3>1. /\ task' = [task EXCEPT ![pos] = "raised"] /\ pos \in Records
          /\ failures' = BlockedTail(Records, pos)
      BY <2>1 DEF HaltRecordFails
    <3>2. \A r \in BlockedTail(Records, pos) : task'[r] # "returned"
      BY <3>1, <1>2, <1>6 DEF HaltInv, BlockedTail, After, ShapeInv
    <3> QED
      BY <2>0, <3>1, <3>2 DEF FailuresInv
  <2>2. CASE HaltRecordOk
    <3>1. /\ task' = [task EXCEPT ![pos] = "returned"] /\ task[pos] = "running"
          /\ pos \in Records /\ failures' = failures
      BY <2>2 DEF HaltRecordOk
    <3>2. \A r \in Records : task[r] # "raised"
      <4>1. \A r \in Records : r < pos \/ r = pos \/ r > pos
        BY <1>2, <3>1
      <4> QED
        BY <1>6, <3>1, <4>1 DEF HaltInv
    <3>3. failures = {}
      BY <3>2, <1>6 DEF HaltInv
    <3> QED
      BY <2>0, <3>1, <3>3 DEF FailuresInv
  <2>3. CASE HaltStart \/ HaltRecordCancelled \/ HaltReply
    <3>1. failures' = failures
      BY <2>3 DEF HaltStart, HaltRecordCancelled, HaltReply
    <3>2. \A r \in failures : task'[r] # "returned"
      BY <2>3 DEF HaltStart, HaltRecordCancelled, HaltReply, FailuresInv, ShapeInv
    <3> QED
      BY <2>0, <3>1, <3>2 DEF FailuresInv
  <2> QED
    BY <1>6, <2>1, <2>2, <2>3 DEF HaltNext
<1>7. CASE UNCHANGED vars
  BY <1>7 DEF vars, FailuresInv
<1>8. CASE HandleEmptyEvent \/ HandleEventCrash
  BY <1>8 DEF HandleEmptyEvent, HandleEventCrash, FailuresInv
<1> QED
  BY <1>3, <1>4, <1>5, <1>6, <1>7, <1>8, StepCases

-----------------------------------------------------------------------------
(* The reply.                                                              *)

\* Once the caller has its answer the invocation does nothing more.
LEMMA AfterReply == response # Pending /\ [Next]_vars => UNCHANGED vars
BY DEF Next, StandardNext, IsolateNext, GroupNext, HaltNext, HandleEmptyEvent,
  HandleEventCrash, HandleEvent, StandardStart, StandardFinish, StandardReply, GroupStart,
  GroupStartFault, GroupRecordOk, GroupRecordFails, GroupRecordCancelled, IsolateReply,
  HaltStart, HaltRecordOk, HaltRecordFails, HaltRecordCancelled, HaltReply, Done

\* The steps that answer.
LEMMA ReplySteps ==
  ASSUME [Next]_vars, response = Pending, response' # Pending
  PROVE  /\ HandleEmptyEvent \/ HandleEventCrash \/ StandardReply \/ IsolateReply \/ HaltReply
         /\ UNCHANGED <<app, batch, arnFifo, mode, task, sem, group, cursor, pos, failures>>
<1>1. HandleEmptyEvent \/ HandleEventCrash \/ StandardReply \/ IsolateReply \/ HaltReply
  BY DEF Next, vars, StandardNext, IsolateNext, GroupNext, HaltNext,
    HandleEvent, StandardStart, StandardFinish, GroupStart,
    GroupStartFault, GroupRecordOk, GroupRecordFails, GroupRecordCancelled,
    HaltStart, HaltRecordOk, HaltRecordFails, HaltRecordCancelled, Done
<1> QED
  BY <1>1 DEF HandleEmptyEvent, HandleEventCrash, StandardReply, IsolateReply, HaltReply

\* A group that is no longer running has no running record.
LEMMA GroupSettled ==
  ASSUME ShapeInv, IsolateInv, mode = "isolate",
         \A g \in Groups : group[g] # "running", NEW r \in Records
  PROVE  task[r] # "running"
<1>1. Records \subseteq Nat \ {0} /\ batch[r].group \in Groups
  BY BatchFacts DEF ShapeInv
<1>g. PICK g \in Groups : batch[r].group = g
  BY <1>1
<1>2. r \in Members(g)
  BY <1>g DEF Members
<1>3. CursorInv(g) /\ group[g] # "running"
  BY <1>1, <1>2 DEF IsolateInv
<1>4. cursor[g] \in Records
  BY <1>3 DEF CursorInv, Members
<1>5. r < cursor[g] \/ r = cursor[g] \/ r > cursor[g]
  <2>1. r \in Nat /\ cursor[g] \in Nat
    BY <1>1, <1>4
  <2> QED
    BY <2>1
<1>6. CASE r < cursor[g]
  BY <1>2, <1>3, <1>6 DEF CursorInv, Before
<1>7. CASE r = cursor[g]
  BY <1>3, <1>7 DEF CursorInv
<1>8. CASE r > cursor[g]
  BY <1>2, <1>3, <1>8 DEF CursorInv, After
<1> QED
  BY <1>5, <1>6, <1>7, <1>8

LEMMA ReplyInvNext ==
  ShapeInv /\ ModeInv /\ IsolateInv /\ HaltInv /\ ReplyInv /\ [Next]_vars => ReplyInv'
<1> SUFFICES ASSUME ShapeInv, ModeInv, IsolateInv, HaltInv, ReplyInv, [Next]_vars,
                    response' # Pending, NEW r \in Records'
             PROVE  task'[r] # "running"
  BY DEF ReplyInv, Pending
<1>1. Records' = Records
  BY FixedNext, FixedDefs
<1>2. CASE response # Pending
  BY <1>1, <1>2, AfterReply DEF vars, ReplyInv
<1>3. CASE response = Pending
  <2>1. task' = task
    BY <1>3, ReplySteps
  <2>2. CASE HandleEmptyEvent \/ HandleEventCrash
    BY <1>1, <2>1, <2>2 DEF HandleEmptyEvent, HandleEventCrash, ModeInv
  <2>3. CASE StandardReply
    BY <1>1, <2>1, <2>3 DEF StandardReply
  <2>4. CASE IsolateReply
    BY <1>1, <2>1, <2>4, GroupSettled DEF IsolateReply
  <2>5. CASE HaltReply
    <3>1. Records \subseteq Nat \ {0} /\ pos \in Nat /\ mode = "halt"
      BY <2>5, BatchFacts DEF ShapeInv, HaltReply
    <3>2. \A s \in Records : s < pos \/ s = pos \/ s > pos
      BY <3>1
    <3>3. Halted => pos \in Records /\ task[pos] # "running"
      BY <3>1, <3>2 DEF Halted, HaltInv
    <3>4. r = pos => task[r] # "running"
      BY <1>1, <3>3, <2>5 DEF HaltReply
    <3> QED
      BY <1>1, <2>1, <3>1, <3>2, <3>4 DEF HaltInv
  <2> QED
    BY <1>3, <2>2, <2>3, <2>4, <2>5, ReplySteps
<1> QED
  BY <1>2, <1>3

-----------------------------------------------------------------------------
(* The inductive invariant.                                                *)

LEMMA IInvInit == Init => IInv
<1> SUFFICES ASSUME Init PROVE IInv
  OBVIOUS
<1>1. ShapeInv
  BY ShapeInit
<1>2. ModeInv /\ IsolateInv /\ HaltInv /\ FailuresInv /\ ReplyInv
  BY DEF Init, ModeInv, IsolateInv, HaltInv, FailuresInv, ReplyInv, Pending
<1>3. SemInv
  BY DEF Init, SemInv
<1> QED
  BY <1>1, <1>2, <1>3 DEF IInv

LEMMA IInvNext == IInv /\ [Next]_vars => IInv'
BY ShapeNext, ModeNext, SemNext, IsolateInvNext, HaltInvNext, FailuresInvNext, ReplyInvNext
DEF IInv

\* Whatever the batch, the configuration and the outcomes of the handlers, the
\* engine stays within its inductive invariant.
THEOREM Inductive == Spec => []IInv
BY IInvInit, IInvNext, PTL DEF Spec

-----------------------------------------------------------------------------
(* What follows from the invariant alone, handlers that end in a           *)
(* cancellation and a logger that raises included.                         *)

LEMMA TypeFromIInv == IInv => TypeOK
<1> SUFFICES ASSUME IInv PROVE TypeOK
  OBVIOUS
<1>1. IsFiniteSet(Running)
  BY BatchFacts, FS_Subset DEF IInv, ShapeInv, Running
<1>2. Cardinality(Running) \in Nat
  BY <1>1, FS_CardinalityType
<1>3. sem \in 0..MaxConcurrent
  BY <1>2, ConfigAssumption DEF IInv, ShapeInv, SemInv
<1> QED
  BY <1>3 DEF IInv, ShapeInv, TypeOK

\* Type correctness; in particular no failure path of process_with_semaphore
\* releases the semaphore more often than it was acquired.
THEOREM TypeCorrect == Spec => []TypeOK
BY Inductive, TypeFromIInv, PTL

LEMMA ConcurrencyFromIInv == IInv => ConcurrencyBound
<1> SUFFICES ASSUME IInv PROVE ConcurrencyBound
  OBVIOUS
<1>0. /\ Records \subseteq Nat \ {0} /\ IsFiniteSet(Records)
      /\ \A r \in Records : batch[r].group \in Groups
  BY BatchFacts DEF IInv, ShapeInv
<1>1. ASSUME mode = "standard" PROVE Cardinality(Running) <= MaxConcurrent
  <2>1. IsFiniteSet(Running)
    BY <1>0, FS_Subset DEF Running
  <2>2. Cardinality(Running) \in Nat
    BY <2>1, FS_CardinalityType
  <2> QED
    BY <1>1, <2>2, ConfigAssumption DEF IInv, SemInv, ShapeInv
<1>2. ASSUME mode = "isolate", NEW r \in Running, NEW s \in Running,
             batch[r].group = batch[s].group
      PROVE  r = s
  <2> DEFINE g == batch[r].group
  <2>1. r \in Members(g) /\ s \in Members(g) /\ g \in Groups
    BY <1>0, <1>2 DEF Members, Running
  <2> HIDE DEF g
  <2>2. CursorInv(g)
    BY <1>2, <2>1 DEF IInv, IsolateInv
  <2>3. cursor[g] \in Records
    BY <2>2 DEF CursorInv, Members
  <2>4. \A t \in Members(g) : task[t] = "running" => t = cursor[g]
    <3>1. \A t \in Members(g) : t < cursor[g] \/ t = cursor[g] \/ t > cursor[g]
      BY <1>0, <2>3 DEF Members
    <3> QED
      BY <2>2, <3>1 DEF CursorInv, Before, After
  <2> QED
    BY <2>1, <2>4 DEF Running
<1>3. ASSUME mode = "halt", NEW r \in Running, NEW s \in Running PROVE r = s
  <2>1. \A t \in Records : t < pos \/ t = pos \/ t > pos
    BY <1>0 DEF IInv, ShapeInv
  <2> QED
    BY <1>3, <2>1 DEF IInv, HaltInv, Running
<1> QED
  BY <1>1, <1>2, <1>3 DEF ConcurrencyBound

\* At most max_concurrent_messages records in flight on a standard queue, at
\* most one per group (per batch) on a FIFO queue, for every batch.
THEOREM ConcurrencyIsBounded == Spec => []ConcurrencyBound
BY Inductive, ConcurrencyFromIInv, PTL

\* No record is in flight once handler() has answered, even when a task was
\* cancelled or a logger raised.
THEOREM NoOrphanTask == Spec => []NothingLeftRunning
<1>1. IInv => NothingLeftRunning
  BY DEF IInv, ReplyInv, NothingLeftRunning, Running
<1> QED
  BY <1>1, Inductive, PTL

LEMMA OrderFromIInv == IInv => ArrivalOrder
<1> SUFFICES ASSUME IInv, NEW r \in Records, task[r] # "idle", NEW s \in MustPrecede(r)
             PROVE  task[s] = "returned"
  BY DEF ArrivalOrder
<1>0. /\ Records \subseteq Nat \ {0}
      /\ \A t \in Records : batch[t].group \in Groups
  BY BatchFacts DEF IInv, ShapeInv
<1>1. mode = ChosenMode
  BY DEF IInv, ModeInv
<1>2. CASE mode = "standard"
  BY <1>1, <1>2 DEF MustPrecede
<1>3. CASE mode = "isolate"
  <2>g. PICK g \in Groups : batch[r].group = g
    BY <1>0
  <2>1. r \in Members(g) /\ s \in Members(g) /\ s < r
    BY <1>1, <1>3, <2>g DEF MustPrecede, Before, Members
  <2>2. CursorInv(g)
    BY <1>3, <2>1 DEF IInv, IsolateInv
  <2>3. cursor[g] \in Records /\ s \in Records
    BY <2>1, <2>2 DEF CursorInv, Members
  <2>4. ~ (r > cursor[g])
    BY <2>1, <2>2 DEF CursorInv, After
  <2>5. r \in Nat /\ s \in Nat /\ cursor[g] \in Nat
    BY <1>0, <2>3
  <2>6. s < cursor[g]
    BY <2>1, <2>4, <2>5
  <2> QED
    BY <2>1, <2>2, <2>6 DEF CursorInv, Before
<1>4. CASE mode = "halt"
  <2>1. s \in Records /\ s < r
    BY <1>1, <1>4 DEF MustPrecede, Before
  <2>2. pos \in Nat /\ ~ (r > pos)
    BY <1>4 DEF IInv, ShapeInv, HaltInv
  <2>3. s < pos
    BY <1>0, <2>1, <2>2
  <2> QED
    BY <1>4, <2>1, <2>3 DEF IInv, HaltInv
<1> QED
  BY <1>1, <1>2, <1>3, <1>4, ChosenModeType

\* FIFO order for every batch: nothing is attempted behind a record of its
\* group (under halt_batch: of the batch) that this invocation did not process.
THEOREM FifoOrder == Spec => []ArrivalOrder
BY Inductive, OrderFromIInv, PTL

\* What the last step of _handle_event makes of a set of failed records.
LEMMA ReplyMeans ==
  ASSUME NEW F, F \subseteq Records
  PROVE  /\ Reply(F).kind = "result" => Reply(F).ids = {MessageId(r) : r \in F}
         /\ Reply(F) = Raised \/ Reply(F) = Result(F)
         /\ Raised.kind = "raised" /\ Result(F).kind = "result"
BY DEF Reply, Raised, Result

\* Every reply that is a result reports the identifiers of a set of records.
LEMMA ResultSteps ==
  ASSUME IInv, [Next]_vars, response = Pending, response'.kind = "result"
  PROVE  \E F \in SUBSET Records :
           /\ response' = Result(F)
           /\ \A r \in F : task[r] # "returned"
           /\ \/ Records = {}
              \/ StandardReply /\ F = {r \in Records : CountsAsFailure(r)}
              \/ (IsolateReply \/ HaltReply) /\ F = failures
<1>0. response' # Pending /\ response' # Raised
  BY DEF Pending, Raised
<1>1. CASE HandleEmptyEvent
  BY <1>1 DEF HandleEmptyEvent
<1>2. CASE HandleEventCrash
  BY <1>0, <1>2 DEF HandleEventCrash
<1>3. CASE StandardReply
  <2> DEFINE F == {r \in Records : CountsAsFailure(r)}
  <2>1. F \in SUBSET Records /\ \A r \in F : task[r] # "returned"
    BY DEF CountsAsFailure
  <2>2. response' = Reply(F)
    BY <1>0, <1>3 DEF StandardReply
  <2>3. response' = Result(F)
    <3> HIDE DEF F
    <3> QED
      BY <1>0, <2>1, <2>2, ReplyMeans
  <2> QED
    BY <1>3, <2>1, <2>3
<1>4. CASE IsolateReply \/ HaltReply
  <2>1. failures \in SUBSET Records /\ \A r \in failures : task[r] # "returned"
    BY DEF IInv, ShapeInv, FailuresInv
  <2>2. response' = Reply(failures)
    BY <1>0, <1>4 DEF IsolateReply, HaltReply
  <2>3. response' = Result(failures)
    BY <1>0, <2>1, <2>2, ReplyMeans
  <2> QED
    BY <1>4, <2>1, <2>3
<1> QED
  BY <1>0, <1>1, <1>2, <1>3, <1>4, ReplySteps

\* No processed record is named in the reply on its own account.
THEOREM ProcessedNotRedone == Spec => []NothingRedone
<1>1. Init => NothingRedone
  BY DEF Init, NothingRedone, Pending
<1>2. IInv /\ NothingRedone /\ [Next]_vars => NothingRedone'
  <2> SUFFICES ASSUME IInv, NothingRedone, [Next]_vars, response'.kind = "result",
                      NEW r \in Records', task'[r] = "returned",
                      MessageId(r)' \in response'.ids
               PROVE  \E s \in Records' : task'[s] # "returned" /\ MessageId(s)' = MessageId(r)'
    BY DEF NothingRedone
  <2>1. Records' = Records /\ batch' = batch /\ \A t : MessageId(t)' = MessageId(t)
    BY FixedNext, FixedDefs DEF MessageId
  <2>2. CASE response # Pending
    <3>1. UNCHANGED vars
      BY <2>2, AfterReply
    <3> QED
      BY <2>1, <3>1 DEF vars, NothingRedone
  <2>3. CASE response = Pending
    <3>1. PICK F \in SUBSET Records :
            response' = Result(F) /\ \A s \in F : task[s] # "returned"
      BY <2>3, ResultSteps
    <3>2. PICK s \in F : MessageId(s) = MessageId(r)
      BY <2>1, <3>1 DEF Result
    <3>3. task' = task
      <4>1. response' # Pending
        BY DEF Pending
      <4> QED
        BY <4>1, <2>3, ReplySteps
    <3> QED
      BY <2>1, <3>1, <3>2, <3>3
  <2> QED
    BY <2>2, <2>3
<1> QED
  BY <1>1, <1>2, Inductive, PTL DEF Spec

-----------------------------------------------------------------------------
(* What a fault can lose.                                                  *)

\* A record whose group's task returned a list was processed or is reported.
LEMMA ListedGroup ==
  ASSUME IInv, mode = "isolate", NEW r \in Records,
         group[batch[r].group] = "list"
  PROVE  task[r] = "returned" \/ r \in failures
<1>1. Records \subseteq Nat \ {0} /\ batch[r].group \in Groups
  BY BatchFacts DEF IInv, ShapeInv
<1>2. PICK g \in Groups : batch[r].group = g
  BY <1>1
<1>3. r \in Members(g) /\ group[g] = "list"
  BY <1>2 DEF Members
<1>4. CursorInv(g)
  BY <1>3 DEF IInv, IsolateInv
<1>5. cursor[g] \in Records
  BY <1>4 DEF CursorInv, Members
<1>6. r \in Nat /\ cursor[g] \in Nat
  BY <1>1, <1>5
<1>7. CASE r < cursor[g]
  BY <1>3, <1>4, <1>7 DEF CursorInv, Before
<1>8. CASE r = cursor[g]
  BY <1>3, <1>4, <1>8 DEF CursorInv, BlockedTail
<1>9. CASE r > cursor[g]
  <2>1. r \in After(Members(g), cursor[g])
    BY <1>3, <1>9 DEF After
  <2> QED
    BY <1>3, <1>4, <2>1 DEF CursorInv, BlockedTail
<1> QED
  BY <1>6, <1>7, <1>8, <1>9

\* halt_batch: without a cancelled record, every record was processed or is
\* reported when the loop is left.
LEMMA HaltLists ==
  ASSUME IInv, HaltReply, \A r \in Records : task[r] # "cancelled", NEW r \in Records
  PROVE  task[r] = "returned" \/ r \in failures
<1>1. Records \subseteq Nat \ {0} /\ pos \in Nat /\ mode = "halt"
  BY BatchFacts DEF IInv, ShapeInv, HaltReply
<1>2. CASE pos \notin Records
  <2>1. PICK n \in Nat : Records = 1..n
    BY BatchFacts DEF IInv, ShapeInv
  <2>2. pos = 1 \/ pos - 1 \in Records
    BY <1>1 DEF IInv, HaltInv
  <2>3. r < pos
    BY <1>1, <1>2, <2>1, <2>2
  <2> QED
    BY <1>1, <2>3 DEF IInv, HaltInv
<1>3. CASE pos \in Records
  <2>1. r \in Nat /\ (r < pos \/ r = pos \/ r > pos)
    BY <1>1
  <2>2. failures = BlockedTail(Records, pos)
    BY <1>1, <1>3 DEF HaltReply, Halted, IInv, HaltInv
  <2>3. CASE r < pos
    BY <1>1, <2>3 DEF IInv, HaltInv
  <2>4. CASE r = pos \/ r > pos
    BY <2>2, <2>4 DEF BlockedTail, After
  <2> QED
    BY <2>1, <2>3, <2>4
<1> QED
  BY <1>2, <1>3

\* What a reply may leave out, whatever is cancelled and whatever the logger
\* does: a cancelled record of a standard batch, or records of a FIFO group
\* whose own task ended without its list.
THEOREM LossIsConfined == Spec => []LossConfined
<1>1. Init => LossConfined
  BY DEF Init, LossConfined, Pending
<1>2. IInv /\ LossConfined /\ [Next]_vars => LossConfined'
  <2> SUFFICES ASSUME IInv, LossConfined, [Next]_vars, response'.kind = "result",
                      NEW r \in Records', task'[r] # "returned",
                      MessageId(r)' \notin response'.ids
               PROVE  \/ mode' = "standard" /\ task'[r] = "cancelled"
                      \/ /\ mode' = "isolate"
                         /\ group'[batch'[r].group] \in {"exception", "cancelled"}
    BY DEF LossConfined
  <2>1. Records' = Records /\ batch' = batch /\ \A t : MessageId(t)' = MessageId(t)
    BY FixedNext, FixedDefs DEF MessageId
  <2>2. CASE response # Pending
    <3>1. UNCHANGED vars
      BY <2>2, AfterReply
    <3> QED
      BY <2>1, <3>1 DEF vars, LossConfined
  <2>3. CASE response = Pending
    <3>1. response' # Pending
      BY DEF Pending
    <3>2. UNCHANGED <<batch, mode, task, group, failures>>
      BY <2>3, <3>1, ReplySteps
    <3>3. PICK F \in SUBSET Records :
            /\ response' = Result(F)
            /\ \/ Records = {}
               \/ StandardReply /\ F = {t \in Records : CountsAsFailure(t)}
               \/ (IsolateReply \/ HaltReply) /\ F = failures
      BY <2>3, ResultSteps
    <3>4. r \notin F
      BY <2>1, <3>3 DEF Result
    <3>5. CASE StandardReply /\ F = {t \in Records : CountsAsFailure(t)}
      BY <2>1, <3>2, <3>4, <3>5
      DEF StandardReply, CountsAsFailure, IInv, ShapeInv, TaskStatus, AllOutcomes
    <3>6. CASE IsolateReply /\ F = failures
      <4>1. mode = "isolate" /\ \A g \in Groups : group[g] # "running"
        BY <3>6 DEF IsolateReply
      <4>2. PICK g \in Groups : batch[r].group = g
        BY <2>1, BatchFacts DEF IInv, ShapeInv
      <4>3. r \in Members(g)
        BY <2>1, <4>2 DEF Members
      <4>4. group[g] \in {"list", "exception", "cancelled"}
        BY <4>1, <4>3 DEF IInv, ShapeInv, GroupStatus, IsolateInv, CursorInv
      <4>5. group[g] # "list"
        BY <2>1, <3>2, <3>4, <3>6, <4>1, <4>2, ListedGroup
      <4> QED
        BY <2>1, <3>2, <4>1, <4>2, <4>4, <4>5
    <3>7. CASE HaltReply /\ F = failures
      <4>1. \A t \in Records : task[t] # "cancelled"
        BY <2>3, <3>3, <3>7 DEF HaltReply, Result, Raised
      <4> QED
        BY <2>1, <3>2, <3>4, <3>7, <4>1, HaltLists
    <3> QED
      BY <2>1, <3>3, <3>5, <3>6, <3>7
  <2> QED
    BY <2>2, <2>3
<1> QED
  BY <1>1, <1>2, Inductive, PTL DEF Spec

-----------------------------------------------------------------------------
(* What needs reliable handlers and a reliable logger.  Without them the   *)
(* run batch_cancelled shows a counterexample.                    *)

Reliable == "cancelled" \notin HandlerOutcomes /\ LogFaults = FALSE

\* No task ends other than by returning or by an Exception.
ReliableInv ==
  /\ \A r \in Records : task[r] # "cancelled"
  /\ \A g \in Groups : group[g] \notin {"exception", "cancelled"}

LEMMA ReliableInductive ==
  ASSUME Reliable
  PROVE  Spec => []ReliableInv
<1>0. \A r : "cancelled" \notin Outcomes(r)
  BY DEF Reliable, Outcomes
<1>1. Init => ReliableInv
  BY DEF Init, ReliableInv
<1>2. IInv /\ ReliableInv /\ [Next]_vars => ReliableInv'
  <2> SUFFICES ASSUME IInv, ReliableInv, [Next]_vars PROVE ReliableInv'
    OBVIOUS
  <2>1. Records' = Records /\ \A g : Members(g) \subseteq Records
    BY FixedNext, FixedDefs DEF Members
  <2>2. task \in [Records -> TaskStatus] /\ group \in [Groups -> GroupStatus]
    BY DEF IInv, ShapeInv
  <2>3. ASSUME NEW g \in Groups, GroupNext(g) PROVE ReliableInv'
    <3>1. ~GroupStartFault(g) /\ ~GroupRecordCancelled(g)
      BY <1>0 DEF GroupStartFault, GroupRecordCancelled, Reliable
    <3>2. CASE GroupStart(g)
      BY <2>1, <2>2, <3>2 DEF GroupStart, ReliableInv
    <3>3. CASE GroupRecordOk(g)
      BY <2>1, <2>2, <3>3 DEF GroupRecordOk, ReliableInv
    <3>4. CASE GroupRecordFails(g)
      <4>1. task' = [task EXCEPT ![cursor[g]] = "raised"] /\ group' = [group EXCEPT ![g] = "list"]
        BY <3>4 DEF GroupRecordFails, Reliable
      <4> QED
        BY <2>1, <2>2, <4>1 DEF ReliableInv
    <3> QED
      BY <2>3, <3>1, <3>2, <3>3, <3>4 DEF GroupNext
  <2>4. ASSUME NEW r \in Records, StandardStart(r) \/ StandardFinish(r) PROVE ReliableInv'
    BY <1>0, <2>1, <2>2, <2>4 DEF StandardStart, StandardFinish, ReliableInv
  <2>5. CASE HaltStart \/ HaltRecordOk \/ HaltRecordFails \/ HaltRecordCancelled
    BY <1>0, <2>1, <2>2, <2>5
    DEF HaltStart, HaltRecordOk, HaltRecordFails, HaltRecordCancelled, ReliableInv
  <2>6. CASE HandleEvent
    BY <2>1, <2>6 DEF HandleEvent, ReliableInv
  <2>7. CASE UNCHANGED <<task, group>>
    BY <2>1, <2>7 DEF ReliableInv
  <2> QED
    BY <2>3, <2>4, <2>5, <2>6, <2>7
    DEF Next, vars, StandardNext, IsolateNext, HaltNext, HandleEmptyEvent, HandleEventCrash,
      StandardReply, IsolateReply, HaltReply, Done
<1> QED
  BY <1>1, <1>2, Inductive, PTL DEF Spec

\* When all groups have settled reliably, a record is processed, or reported
\* and at or behind a failed record of its group.
LEMMA GroupVerdict ==
  ASSUME IInv, ReliableInv, mode = "isolate",
         \A g \in Groups : group[g] # "running", NEW r \in Records
  PROVE  \/ task[r] = "returned"
         \/ r \in failures /\ task[r] = "raised"
         \/ r \in failures /\ \E s \in MustPrecede(r) : task[s] = "raised"
<1>1. Records \subseteq Nat \ {0} /\ batch[r].group \in Groups
  BY BatchFacts DEF IInv, ShapeInv
<1>2. PICK g \in Groups : batch[r].group = g
  BY <1>1
<1>3. r \in Members(g)
  BY <1>2 DEF Members
<1>4. CursorInv(g) /\ group[g] = "list"
  BY <1>3 DEF IInv, ShapeInv, IsolateInv, ReliableInv, CursorInv, GroupStatus
<1>5. cursor[g] \in Records /\ cursor[g] \in Members(g)
  BY <1>4 DEF CursorInv, Members
<1>6. CASE r < cursor[g]
  BY <1>3, <1>4, <1>6 DEF CursorInv, Before
<1>7. CASE r = cursor[g]
  BY <1>4, <1>7 DEF CursorInv, BlockedTail
<1>8. CASE r > cursor[g]
  <2>1. r \in After(Members(g), cursor[g])
    BY <1>3, <1>8 DEF After
  <2>2. task[cursor[g]] = "raised" /\ r \in failures
    BY <1>4, <2>1 DEF CursorInv, BlockedTail
  <2>3. cursor[g] \in MustPrecede(r)
    <3>1. ChosenMode = "isolate"
      BY DEF IInv, ModeInv
    <3>2. cursor[g] < r
      BY <1>1, <1>5, <1>8
    <3> QED
      BY <3>1, <3>2, <1>2, <1>5 DEF MustPrecede, Before
  <2> QED
    BY <2>2, <2>3
<1>9. r \in Nat /\ cursor[g] \in Nat
  BY <1>1, <1>5
<1> QED
  BY <1>6, <1>7, <1>8, <1>9

\* The same for the loop of halt_batch.
LEMMA HaltVerdict ==
  ASSUME IInv, ReliableInv, HaltReply, NEW r \in Records
  PROVE  \/ task[r] = "returned"
         \/ r \in failures /\ task[r] = "raised"
         \/ r \in failures /\ \E s \in MustPrecede(r) : task[s] = "raised"
<1>1. Records \subseteq Nat \ {0} /\ pos \in Nat /\ mode = "halt"
  BY BatchFacts DEF IInv, ShapeInv, HaltReply
<1>2. CASE pos \notin Records
  <2>1. PICK n \in Nat : Records = 1..n
    BY BatchFacts DEF IInv, ShapeInv
  <2>2. r < pos
    <3>1. pos = 1 \/ pos - 1 \in Records
      BY <1>1 DEF IInv, HaltInv
    <3> QED
      BY <1>1, <1>2, <2>1, <3>1
  <2> QED
    BY <1>1, <2>2 DEF IInv, HaltInv
<1>3. CASE pos \in Records
  <2>1. \A t \in Records : t < pos \/ t = pos \/ t > pos
    BY <1>1
  <2>2. PICK t \in Records : task[t] = "raised"
    BY <1>3 DEF HaltReply, Halted, ReliableInv
  <2>3. t = pos /\ failures = BlockedTail(Records, pos)
    BY <1>1, <2>1, <2>2 DEF IInv, HaltInv
  <2>4. ChosenMode = "halt"
    BY <1>1 DEF IInv, ModeInv
  <2>5. CASE r < pos
    BY <1>1, <2>5 DEF IInv, HaltInv
  <2>6. CASE r = pos
    BY <2>2, <2>3, <2>6 DEF BlockedTail
  <2>7. CASE r > pos
    <3>1. pos < r
      BY <1>1, <2>7
    <3>2. pos \in MustPrecede(r) /\ r \in failures
      BY <1>3, <2>3, <2>4, <2>7, <3>1 DEF MustPrecede, Before, BlockedTail, After
    <3> QED
      BY <2>2, <2>3, <3>2
  <2> QED
    BY <2>1, <2>5, <2>6, <2>7
<1> QED
  BY <1>2, <1>3

\* Every result names exactly the records that were not processed.
LEMMA ExactResult ==
  ASSUME IInv, ReliableInv, [Next]_vars, response = Pending, response'.kind = "result"
  PROVE  /\ response' = Result({r \in Records : task[r] # "returned"})
         /\ \A r \in Records :
              \/ task[r] \in {"returned", "raised"}
              \/ \E s \in MustPrecede(r) : task[s] = "raised"
<1>1. PICK F \in SUBSET Records :
        /\ response' = Result(F)
        /\ \A r \in F : task[r] # "returned"
        /\ \/ Records = {}
           \/ StandardReply /\ F = {r \in Records : CountsAsFailure(r)}
           \/ (IsolateReply \/ HaltReply) /\ F = failures
  BY ResultSteps
<1>2. ASSUME NEW r \in Records
      PROVE  \/ task[r] = "returned"
             \/ r \in F /\ task[r] = "raised"
             \/ r \in F /\ \E s \in MustPrecede(r) : task[s] = "raised"
  <2>1. CASE StandardReply /\ F = {t \in Records : CountsAsFailure(t)}
    BY <2>1 DEF StandardReply, CountsAsFailure, IInv, ShapeInv, TaskStatus, AllOutcomes, ReliableInv
  <2>2. CASE IsolateReply /\ F = failures
    BY <2>2, GroupVerdict DEF IsolateReply
  <2>3. CASE HaltReply /\ F = failures
    BY <2>3, HaltVerdict
  <2> QED
    BY <1>1, <2>1, <2>2, <2>3
<1>3. F = {r \in Records : task[r] # "returned"}
  BY <1>1, <1>2
<1> QED
  BY <1>1, <1>2, <1>3

\* Every message SQS will delete was processed, for every batch, queue type and
\* failure mode, given handlers that end by returning or raising an Exception.
THEOREM NothingSilentlyAcked ==
  ASSUME Reliable
  PROVE  Spec => []NoSilentAck
<1>1. Init => NoSilentAck
  BY DEF Init, NoSilentAck, Pending
<1>2. IInv /\ ReliableInv /\ NoSilentAck /\ [Next]_vars => NoSilentAck'
  <2> SUFFICES ASSUME IInv, ReliableInv, NoSilentAck, [Next]_vars, response'.kind = "result",
                      NEW r \in Records', task'[r] # "returned"
               PROVE  MessageId(r)' \in response'.ids
    BY DEF NoSilentAck
  <2>1. Records' = Records /\ \A t : MessageId(t)' = MessageId(t)
    BY FixedNext, FixedDefs DEF MessageId
  <2>2. CASE response # Pending
    <3>1. UNCHANGED vars
      BY <2>2, AfterReply
    <3> QED
      BY <2>1, <3>1 DEF vars, NoSilentAck
  <2>3. CASE response = Pending
    <3>1. response' # Pending
      BY DEF Pending
    <3>2. task' = task
      BY <2>3, <3>1, ReplySteps
    <3>3. response' = Result({t \in Records : task[t] # "returned"})
      BY <2>3, ExactResult
    <3> QED
      BY <2>1, <3>2, <3>3 DEF Result
  <2> QED
    BY <2>2, <2>3
<1>3. Spec => []ReliableInv
  BY ReliableInductive
<1> QED
  BY <1>1, <1>2, <1>3, Inductive, PTL DEF Spec

\* A failed group holds back nothing but its own tail: under isolate_groups a
\* record that was never attempted is behind one of its group that raised.
THEOREM IndependentGroups ==
  ASSUME Reliable
  PROVE  Spec => []GroupsIndependent
<1>1. Init => GroupsIndependent
  BY DEF Init, GroupsIndependent
<1>2. IInv /\ ReliableInv /\ GroupsIndependent /\ [Next]_vars => GroupsIndependent'
  <2> SUFFICES ASSUME IInv, ReliableInv, GroupsIndependent, [Next]_vars,
                      mode' = "isolate", response' # Pending,
                      NEW r \in Records', task'[r] = "idle"
               PROVE  (\E s \in MustPrecede(r) : task[s] = "raised")'
    BY DEF GroupsIndependent, Pending
  <2>0. /\ app' = app /\ batch' = batch /\ arnFifo' = arnFifo
        /\ Records' = Records /\ ChosenMode' = ChosenMode
        /\ \A g : Members(g)' = Members(g)
    BY FixedNext, FixedDefs
  <2>1. Records' = Records /\ MustPrecede(r)' = MustPrecede(r)
    BY <2>0 DEF MustPrecede, Before
  <2>2. CASE response # Pending
    <3>1. UNCHANGED vars
      BY <2>2, AfterReply
    <3> QED
      BY <2>1, <2>2, <3>1 DEF vars, GroupsIndependent
  <2>3. CASE response = Pending
    <3>1. task' = task
      BY <2>3, ReplySteps
    <3>2. mode = "isolate"
      BY <2>3, ReplySteps
    <3>3. \A g \in Groups : group[g] # "running"
      BY <2>1, <2>3, <3>2, ReplySteps
      DEF HandleEmptyEvent, HandleEventCrash, StandardReply, HaltReply, IsolateReply
    <3>4. \E s \in MustPrecede(r) : task[s] = "raised"
      BY <2>1, <3>1, <3>2, <3>3, GroupVerdict
    <3> QED
      BY <2>1, <3>1, <3>4
  <2> QED
    BY <2>2, <2>3
<1>3. Spec => []ReliableInv
  BY ReliableInductive
<1> QED
  BY <1>1, <1>2, <1>3, Inductive, PTL DEF Spec

-----------------------------------------------------------------------------
(* Refinement of BatchContract.                                            *)

LEMMA VerdictFacts ==
  /\ DOMAIN verdict = Records
  /\ \A r \in Records :
       /\ task[r] = "returned" => verdict[r] = "processed"
       /\ task[r] \in {"raised", "cancelled"} => verdict[r] = "failed"
       /\ task[r] \in {"idle", "running"} => verdict[r] = "open"
BY DEF verdict, VerdictOf

\* Two states with the same statuses have the same verdicts, and one more
\* status changes one verdict.
LEMMA VerdictStep ==
  ASSUME batch' = batch, NEW r \in Records, task \in [Records -> TaskStatus], NEW o \in TaskStatus,
         task' = [task EXCEPT ![r] = o]
  PROVE  verdict' = [verdict EXCEPT ![r] = VerdictOf(o)]
<1>1. Records' = Records
  BY DEF Records
<1>2. \A t \in Records : task'[t] = IF t = r THEN o ELSE task[t]
  OBVIOUS
<1> QED
  BY <1>1, <1>2 DEF verdict

LEMMA ContractInit == Init => Contract!Init
<1> SUFFICES ASSUME Init PROVE Contract!Init
  OBVIOUS
<1>1. PICK n \in 0..MaxBatch : batch \in [1..n -> Shape]
  BY DEF Init, Batches
<1>2. Records = 1..n /\ n \in Nat /\ n <= MaxBatch
  BY <1>1, ConfigAssumption DEF Records
<1>3. [r \in Records |-> MessageId(r)] \in [1..n -> 0..MaxBatch]
  <2>1. \A r \in Records : MessageId(r) \in 0..MaxBatch
    BY <1>2, ConfigAssumption DEF MessageId, UNKNOWN
  <2> QED
    BY <1>2, <2>1
<1>4. [r \in Records |-> MustPrecede(r)] \in [1..n -> SUBSET (1..n)]
  <2>1. \A r \in Records : MustPrecede(r) \subseteq Records
    BY ChosenModeType DEF MustPrecede, Before, Members
  <2> QED
    BY <1>2, <2>1
<1>5. verdict = [r \in 1..n |-> "open"]
  BY <1>2 DEF Init, verdict, VerdictOf
<1> QED
  BY <1>1, <1>3, <1>4, <1>5 DEF Init, Contract!Init, Contract!Pending, Pending

\* A record that ends settles; its predecessors have been processed.
LEMMA SettleStep ==
  ASSUME IInv, IInv', [Next]_vars, response = Pending, response' = response,
         NEW r \in Records, task[r] = "running",
         NEW o \in AllOutcomes, task' = [task EXCEPT ![r] = o]
  PROVE  Contract!Next
<1>0. /\ batch' = batch /\ Records' = Records
      /\ \A t : MessageId(t)' = MessageId(t) /\ MustPrecede(t)' = MustPrecede(t)
  BY FixedNext, FixedDefs DEF MessageId, MustPrecede, Before
<1>1. task \in [Records -> TaskStatus]
  BY DEF IInv, ShapeInv
<1>2. verdict[r] = "open"
  BY VerdictFacts
<1> DEFINE v == VerdictOf(o)
<1>3. verdict' = [verdict EXCEPT ![r] = v]
  BY <1>0, <1>1, VerdictStep DEF TaskStatus
<1>4. \A s \in MustPrecede(r) : verdict[s] = "processed"
  <2>1. MustPrecede(r) \subseteq Records
    BY ChosenModeType DEF MustPrecede, Before, Members
  <2> QED
    BY <2>1, VerdictFacts, OrderFromIInv DEF ArrivalOrder
<1>5. Contract!Settle(r, v)
  BY <1>0, <1>2, <1>3, <1>4 DEF Contract!Settle, Contract!Pending, Pending
<1>6. v \in {"processed", "failed"} /\ r \in Contract!Records
  BY VerdictFacts DEF Contract!Records, VerdictOf, AllOutcomes
<1> QED
  BY <1>5, <1>6 DEF Contract!Next

\* A reply of the engine is a reply, or a refusal, of the contract.
LEMMA ReplyStep ==
  ASSUME IInv, ReliableInv, [Next]_vars, response = Pending, response' # Pending
  PROVE  Contract!Next
<1>0. /\ batch' = batch /\ Records' = Records
      /\ \A t : MessageId(t)' = MessageId(t) /\ MustPrecede(t)' = MustPrecede(t)
  BY FixedNext, FixedDefs DEF MessageId, MustPrecede, Before
<1>1. task' = task /\ verdict' = verdict
  <2>1. task' = task
    BY ReplySteps
  <2> QED
    BY <1>0, <2>1 DEF verdict
<1>2. response' = Raised \/ response'.kind = "result"
  <2>1. CASE StandardReply
    BY <2>1 DEF StandardReply, Reply, Result, CountsAsFailure
  <2>2. CASE HandleEmptyEvent \/ HandleEventCrash \/ IsolateReply \/ HaltReply
    BY <2>2 DEF HandleEmptyEvent, HandleEventCrash, IsolateReply, HaltReply, Reply, Result
  <2> QED
    BY <2>1, <2>2, ReplySteps
<1>3. CASE response' = Raised
  BY <1>0, <1>1, <1>3 DEF Contract!Next, Contract!Refuse, Contract!Pending, Contract!Refused,
    Pending, Raised
<1>4. CASE response'.kind = "result"
  <2>1. /\ response' = Result({r \in Records : task[r] # "returned"})
        /\ \A r \in Records :
             \/ task[r] \in {"returned", "raised"}
             \/ \E s \in MustPrecede(r) : task[s] = "raised"
    BY <1>4, ExactResult
  <2>2. Contract!Records = Records
    BY VerdictFacts DEF Contract!Records
  <2>3. \A r \in Records : verdict[r] # "processed" <=> task[r] # "returned"
    BY VerdictFacts DEF IInv, ShapeInv, TaskStatus, AllOutcomes
  <2>4. Contract!Unprocessed = {r \in Records : task[r] # "returned"}
    BY <2>2, <2>3 DEF Contract!Unprocessed
  <2>5. \A r \in Records :
          verdict[r] = "open" => \E s \in MustPrecede(r) : verdict[s] # "processed"
    <3>1. \A r \in Records : MustPrecede(r) \subseteq Records
      BY ChosenModeType DEF MustPrecede, Before, Members
    <3> QED
      BY <2>1, <2>3, <3>1, VerdictFacts
  <2>6. response'.ids = {[q \in Records |-> MessageId(q)][r] : r \in Contract!Unprocessed}
    BY <2>1, <2>4 DEF Result
  <2>7. response' = [kind |-> "result",
                     ids |-> {[q \in Records |-> MessageId(q)][r] : r \in Contract!Unprocessed}]
    BY <2>1, <2>6 DEF Result
  <2> QED
    BY <1>0, <1>1, <2>2, <2>5, <2>7 DEF Contract!Next, Contract!Reply, Contract!CanReply, Contract!Pending,
       Pending
<1> QED
  BY <1>2, <1>3, <1>4

LEMMA ContractNext ==
  ASSUME IInv, IInv', ReliableInv, [Next]_vars
  PROVE  [Contract!Next]_(Contract!cvars)
<1>0. /\ batch' = batch /\ Records' = Records
      /\ \A t : MessageId(t)' = MessageId(t) /\ MustPrecede(t)' = MustPrecede(t)
  BY FixedNext, FixedDefs DEF MessageId, MustPrecede, Before
<1>1. CASE response # Pending
  <2>1. UNCHANGED vars
    BY <1>1, AfterReply
  <2> QED
    BY <1>0, <2>1 DEF vars, Contract!cvars, verdict
<1>2. CASE response = Pending /\ response' # Pending
  BY <1>2, ReplyStep
<1>3. CASE response = Pending /\ response' = Pending
  <2>0. task \in [Records -> TaskStatus] /\ \A g : Members(g) \subseteq Records
    BY DEF IInv, ShapeInv, Members
  <2>1. ASSUME verdict' = verdict PROVE UNCHANGED Contract!cvars
    BY <1>0, <1>3, <2>1 DEF Contract!cvars
  <2>2. ASSUME NEW r \in Records, task[r] = "idle", task' = [task EXCEPT ![r] = "running"]
        PROVE  UNCHANGED Contract!cvars
    <3>1. verdict' = [verdict EXCEPT ![r] = VerdictOf("running")]
      BY <1>0, <2>0, <2>2, VerdictStep DEF TaskStatus
    <3>2. verdict[r] = "open" /\ VerdictOf("running") = "open"
      BY <2>2, VerdictFacts DEF VerdictOf
    <3>3. verdict' = verdict
      BY <3>1, <3>2 DEF verdict
    <3> QED
      BY <2>1, <3>3
  <2>3. CASE UNCHANGED task
    BY <1>0, <2>1, <2>3 DEF verdict
  <2>4. ASSUME NEW r \in Records, StandardStart(r) PROVE UNCHANGED Contract!cvars
    BY <2>2, <2>4 DEF StandardStart
  <2>5. ASSUME NEW r \in Records, StandardFinish(r) PROVE Contract!Next
    <3>1. PICK o \in AllOutcomes : task' = [task EXCEPT ![r] = o]
      BY <2>5, OutcomeType DEF StandardFinish
    <3> QED
      BY <1>3, <2>5, <3>1, SettleStep DEF StandardFinish
  <2>6. ASSUME NEW g \in Groups, GroupNext(g) PROVE [Contract!Next]_(Contract!cvars)
    <3>1. cursor[g] \in Records
      BY <2>0, <2>6 DEF IInv, ShapeInv, GroupNext, GroupStart, GroupStartFault, GroupRecordOk,
        GroupRecordFails, GroupRecordCancelled
    <3>2. CASE GroupStart(g)
      BY <2>2, <3>1, <3>2 DEF GroupStart
    <3>3. CASE GroupStartFault(g)
      BY <2>3, <3>3 DEF GroupStartFault
    <3>4. CASE GroupRecordOk(g) \/ GroupRecordFails(g) \/ GroupRecordCancelled(g)
      <4>1. PICK o \in AllOutcomes : task' = [task EXCEPT ![cursor[g]] = o]
        BY <3>4 DEF GroupRecordOk, GroupRecordFails, GroupRecordCancelled, AllOutcomes
      <4>2. task[cursor[g]] = "running"
        BY <3>4 DEF GroupRecordOk, GroupRecordFails, GroupRecordCancelled
      <4> QED
        BY <1>3, <3>1, <4>1, <4>2, SettleStep
    <3> QED
      BY <2>6, <3>2, <3>3, <3>4 DEF GroupNext
  <2>7. CASE HaltStart
    BY <2>2, <2>7 DEF HaltStart
  <2>8. CASE HaltRecordOk \/ HaltRecordFails \/ HaltRecordCancelled
    <3>1. PICK o \in AllOutcomes : task' = [task EXCEPT ![pos] = o]
      BY <2>8 DEF HaltRecordOk, HaltRecordFails, HaltRecordCancelled, AllOutcomes
    <3>2. pos \in Records /\ task[pos] = "running"
      BY <2>8 DEF HaltRecordOk, HaltRecordFails, HaltRecordCancelled
    <3> QED
      BY <1>3, <3>1, <3>2, SettleStep
  <2> QED
    BY <2>3, <2>4, <2>5, <2>6, <2>7, <2>8
    DEF Next, vars, StandardNext, IsolateNext, HaltNext, HandleEmptyEvent, HandleEventCrash,
      HandleEvent, StandardReply, IsolateReply, HaltReply, Done
<1> QED
  BY <1>1, <1>2, <1>3

\* The batch engine implements the contract of one invocation: settled records
\* in order, and an answer that names exactly the unprocessed ones.
THEOREM EngineKeepsContract ==
  ASSUME Reliable
  PROVE  Spec => ImplementsContract
<1>1. Spec => []ReliableInv
  BY ReliableInductive
<1>2. IInv /\ IInv' /\ ReliableInv /\ [Next]_vars => [Contract!Next]_(Contract!cvars)
  BY ContractNext
<1> QED
  BY <1>1, <1>2, ContractInit, Inductive, PTL DEF Spec, ImplementsContract, Contract!Spec

-----------------------------------------------------------------------------
(* When the invocation fails as a whole.                                   *)

\* With partial batch failures on, handler() raises exactly on a batch with an
\* element that is read before any record is guarded.
RaisesOnCrash ==
  app.partial_batch_failure /\ response # Pending =>
    (response.kind = "raised" <=> Records # {} /\ Crashes)

\* No loop is entered with such an element.
EnteredInv == mode # "unresolved" => ~Crashes

LEMMA EnteredInductive == Spec => []EnteredInv
<1>1. Init => EnteredInv
  BY DEF Init, EnteredInv
<1>2. EnteredInv /\ [Next]_vars => EnteredInv'
  <2> SUFFICES ASSUME EnteredInv, [Next]_vars, mode' # "unresolved" PROVE ~Crashes'
    BY DEF EnteredInv
  <2>1. app' = app /\ batch' = batch /\ arnFifo' = arnFifo /\ Records' = Records
        /\ ChosenMode' = ChosenMode
    BY FixedNext, FixedDefs
  <2>2. Crashes' <=> Crashes
    BY <2>1 DEF Crashes, ResolveCrashes, GroupingCrashes
  <2>3. CASE HandleEvent
    BY <2>2, <2>3 DEF HandleEvent
  <2>4. mode' = mode \/ HandleEvent
    BY StepCases, LoopFrame DEF HandleEmptyEvent, HandleEventCrash, vars
  <2> QED
    BY <2>2, <2>3, <2>4 DEF EnteredInv
<1> QED
  BY <1>1, <1>2, PTL DEF Spec

\* The exact condition under which one element fails the whole batch, given
\* handlers that end by returning or raising an Exception and a logger that
\* does not raise (app.py:131, utils.py:67).
THEOREM FailsAsAWhole ==
  ASSUME Reliable
  PROVE  Spec => []RaisesOnCrash
<1>1. Init => RaisesOnCrash
  BY DEF Init, RaisesOnCrash
<1>2. IInv /\ IInv' /\ ReliableInv /\ EnteredInv /\ RaisesOnCrash /\ [Next]_vars => RaisesOnCrash'
  <2> SUFFICES ASSUME IInv, IInv', ReliableInv, EnteredInv, RaisesOnCrash, [Next]_vars,
                      app'.partial_batch_failure, response' # Pending
               PROVE  (response.kind = "raised" <=> Records # {} /\ Crashes)'
    BY DEF RaisesOnCrash, Pending
  <2>1. app' = app /\ batch' = batch /\ arnFifo' = arnFifo /\ Records' = Records
        /\ ChosenMode' = ChosenMode
    BY FixedNext, FixedDefs
  <2>2. Crashes' <=> Crashes
    BY <2>1 DEF Crashes, ResolveCrashes, GroupingCrashes
  <2>3. CASE response # Pending
    <3>1. response' = response
      BY <2>3, AfterReply DEF vars
    <3> QED
      BY <2>1, <2>2, <2>3, <3>1 DEF RaisesOnCrash
  <2>4. CASE response = Pending
    <3>1. CASE HandleEmptyEvent
      BY <2>1, <3>1 DEF HandleEmptyEvent, Result
    <3>2. CASE HandleEventCrash
      BY <2>1, <2>2, <3>2 DEF HandleEventCrash, Reliable, Raised
    <3>3. CASE StandardReply \/ IsolateReply \/ HaltReply
      <4>1. ~Crashes
        BY <3>3 DEF EnteredInv, StandardReply, IsolateReply, HaltReply
      <4>2. PICK F \in SUBSET Records : response' = Reply(F)
        <5>1. CASE StandardReply
          <6>1. response' = Reply({r \in Records : CountsAsFailure(r)})
            BY <5>1 DEF StandardReply, Reliable
          <6> QED
            BY <6>1
        <5>2. CASE IsolateReply \/ HaltReply
          <6>1. response' = Reply(failures)
            BY <5>2 DEF IsolateReply, HaltReply, Reliable, ReliableInv
          <6> QED
            BY <6>1 DEF IInv, ShapeInv
        <5> QED
          BY <3>3, <5>1, <5>2
      <4>3. response'.kind = "result"
        BY <2>1, <4>2 DEF Reply, Result
      <4> QED
        BY <2>2, <4>1, <4>3
    <3> QED
      BY <2>4, <3>1, <3>2, <3>3, ReplySteps
  <2> QED
    BY <2>3, <2>4
<1>3. Spec => []ReliableInv
  BY ReliableInductive
<1> QED
  BY <1>1, <1>2, <1>3, EnteredInductive, Inductive, PTL DEF Spec

\* FailsOnlyItself holds of batches of real queues: JSON objects, whatever
\* their bodies.
THEOREM RecordsFailAlone ==
  ASSUME Reliable, Kinds \subseteq {"dict", "badbody"}
  PROVE  Spec => []FailsOnlyItself
<1>1. IInv /\ RaisesOnCrash => FailsOnlyItself
  <2> SUFFICES ASSUME IInv, RaisesOnCrash, app.partial_batch_failure, response.kind = "raised"
               PROVE  FALSE
    BY DEF FailsOnlyItself
  <2>1. Records # {} /\ Crashes
    BY DEF RaisesOnCrash, Pending
  <2>2. PICK n \in Nat : Records = 1..n
    BY BatchFacts DEF IInv, ShapeInv
  <2>3. 1 \in Records
    BY <2>1, <2>2
  <2>4. \A r \in Records : batch[r].kind \in Kinds
    BY BatchFacts DEF IInv, ShapeInv, Shape
  <2> QED
    BY <2>1, <2>3, <2>4 DEF Crashes, ResolveCrashes, GroupingCrashes
<1> QED
  BY <1>1, FailsAsAWhole, Inductive, PTL

-----------------------------------------------------------------------------
(* Why the invocation answers.  Every step uses up some of the work, and   *)
(* until the answer there is a step to take.                               *)

\* What is left to do: the records not started, the records not ended, the group
\* tasks not ended.  That the loop was not entered and the caller not answered
\* count as one unit each.
Unstarted == {r \in Records : task[r] = "idle"}
Unended == {r \in Records : task[r] \in {"idle", "running"}}
OpenGroups == {g \in Groups : mode = "unresolved" \/ group[g] = "running"}

\* No work is added.
WorkKept ==
  /\ Unstarted' \subseteq Unstarted
  /\ Unended' \subseteq Unended
  /\ OpenGroups' \subseteq OpenGroups
  /\ mode # "unresolved" => mode' # "unresolved"
  /\ response # Pending => response' # Pending

\* Some is done.
WorkDone ==
  \/ Unstarted' # Unstarted
  \/ Unended' # Unended
  \/ OpenGroups' # OpenGroups
  \/ mode = "unresolved" /\ mode' # "unresolved"
  \/ response = Pending /\ response' # Pending

\* The loop the invocation is in can go on: a record can start, one is in
\* flight, or everything the reply waits for has ended.
StandardReady ==
  \/ \E r \in Records : task[r] = "idle" /\ sem > 0
  \/ \E r \in Records : task[r] = "running"
  \/ \A r \in Records : task[r] \notin {"idle", "running"}

\* A group whose task has not ended: the next record of its loop can start, or
\* is in flight.  Nothing of this is about another group, nor about a slot.
GroupReady(g) ==
  /\ mode = "isolate" /\ response = Pending
  /\ task[cursor[g]] \in {"idle", "running"}
  /\ After(Members(g), cursor[g]) # {} =>
       \E r \in Records : IsFirst(After(Members(g), cursor[g]), r)

IsolateReady == \A g \in Groups : group[g] = "running" => GroupReady(g)

HaltReady == pos \in Records /\ ~Halted => task[pos] \in {"idle", "running"}

Ready ==
  response = Pending =>
    /\ mode = "standard" => StandardReady
    /\ mode = "isolate" => IsolateReady
    /\ mode = "halt" => HaltReady

\* A record that starts or ends is work done.
LEMMA RecordMoves ==
  ASSUME Records' = Records, NEW r \in Records, NEW o, task \in [Records -> TaskStatus],
         task' = [task EXCEPT ![r] = o],
         \/ task[r] = "idle" /\ o = "running"
         \/ task[r] = "running" /\ o \in AllOutcomes
  PROVE  /\ Unstarted' \subseteq Unstarted /\ Unended' \subseteq Unended
         /\ Unstarted' # Unstarted \/ Unended' # Unended
<1>1. \A q \in Records : task'[q] = IF q = r THEN o ELSE task[q]
  OBVIOUS
<1>2. Unstarted' \subseteq Unstarted /\ Unended' \subseteq Unended
  BY <1>1 DEF Unstarted, Unended, AllOutcomes
<1>3. CASE task[r] = "idle"
  BY <1>1, <1>2, <1>3 DEF Unstarted, AllOutcomes
<1>4. CASE task[r] = "running"
  <2>1. task'[r] \notin {"idle", "running"}
    BY <1>1, <1>4 DEF AllOutcomes
  <2>2. r \in Unended /\ r \notin Unended'
    BY <1>4, <2>1 DEF Unended
  <2> QED
    BY <1>2, <2>2
<1> QED
  BY <1>2, <1>3, <1>4

\* A step of the engine makes progress: no loop of an invocation goes round
\* without starting a record, ending one, or ending a group.  So an invocation
\* takes at most 2 steps per record, one per group and two more.
THEOREM EveryStepWorks == Spec => [][WorkKept /\ WorkDone]_vars
<1>1. ShapeInv /\ [Next]_vars => (WorkKept /\ WorkDone) \/ UNCHANGED vars
  <2> SUFFICES ASSUME ShapeInv, [Next]_vars, ~UNCHANGED vars PROVE WorkKept /\ WorkDone
    OBVIOUS
  <2>1. Records' = Records
    BY FixedNext, FixedDefs
  <2>2. response = Pending /\ task \in [Records -> TaskStatus] /\ group \in [Groups -> GroupStatus]
    BY AfterReply DEF ShapeInv
  <2>a. \A r : Outcomes(r) \subseteq AllOutcomes
    BY OutcomeType
  <2>3. ASSUME response' # Pending, UNCHANGED <<mode, task, group>> PROVE WorkKept /\ WorkDone
    BY <2>1, <2>2, <2>3 DEF WorkKept, WorkDone, Unstarted, Unended, OpenGroups
  <2>4. CASE HandleEvent
    <3>1. mode = "unresolved" /\ mode' # "unresolved" /\ UNCHANGED <<task, response>>
      BY <2>4, ChosenModeType DEF HandleEvent
    <3> QED
      BY <2>1, <3>1 DEF WorkKept, WorkDone, Unstarted, Unended, OpenGroups
  <2>5. ASSUME NEW r \in Records, NEW o, task' = [task EXCEPT ![r] = o],
               \/ task[r] = "idle" /\ o = "running"
               \/ task[r] = "running" /\ o \in AllOutcomes,
               mode # "unresolved", UNCHANGED <<mode, response>>,
               \A g \in Groups : group'[g] = "running" => group[g] = "running"
        PROVE  WorkKept /\ WorkDone
    BY <2>1, <2>2, <2>5, RecordMoves DEF WorkKept, WorkDone, OpenGroups
  <2>6. ASSUME NEW r \in Records, StandardStart(r) PROVE WorkKept /\ WorkDone
    BY <2>5, <2>6 DEF StandardStart
  <2>7. ASSUME NEW r \in Records, StandardFinish(r) PROVE WorkKept /\ WorkDone
    BY <2>5, <2>7, <2>a DEF StandardFinish
  <2>8. ASSUME NEW g \in Groups, GroupNext(g) PROVE WorkKept /\ WorkDone
    <3>1. group[g] = "running" /\ cursor[g] \in Records
      BY <2>8 DEF GroupNext, GroupStart, GroupStartFault, GroupRecordOk, GroupRecordFails,
        GroupRecordCancelled, ShapeInv, Members
    <3>2. CASE GroupStart(g)
      BY <2>5, <3>1, <3>2 DEF GroupStart
    <3>3. CASE GroupStartFault(g)
      <4>1. /\ \A h \in Groups : group'[h] = IF h = g THEN "exception" ELSE group[h]
            /\ UNCHANGED <<mode, task, response>> /\ mode # "unresolved"
        BY <2>2, <3>3 DEF GroupStartFault
      <4>2. g \in OpenGroups /\ g \notin OpenGroups' /\ OpenGroups' \subseteq OpenGroups
        BY <3>1, <4>1 DEF OpenGroups
      <4> QED
        BY <2>1, <4>1, <4>2 DEF WorkKept, WorkDone, Unstarted, Unended
    <3>4. CASE GroupRecordOk(g)
      <4>1. \A h \in Groups : group'[h] = "running" => group[h] = "running"
        BY <2>2, <3>4 DEF GroupRecordOk
      <4> QED
        BY <2>5, <3>1, <3>4, <4>1 DEF GroupRecordOk, AllOutcomes
    <3>5. CASE GroupRecordFails(g)
      <4>1. \A h \in Groups : group'[h] = "running" => group[h] = "running"
        BY <2>2, <3>5 DEF GroupRecordFails
      <4> QED
        BY <2>5, <3>1, <3>5, <4>1 DEF GroupRecordFails, AllOutcomes
    <3>6. CASE GroupRecordCancelled(g)
      <4>1. \A h \in Groups : group'[h] = "running" => group[h] = "running"
        BY <2>2, <3>6 DEF GroupRecordCancelled
      <4> QED
        BY <2>5, <3>1, <3>6, <4>1 DEF GroupRecordCancelled, AllOutcomes
    <3> QED
      BY <2>8, <3>2, <3>3, <3>4, <3>5, <3>6 DEF GroupNext
  <2>9. CASE HaltStart \/ HaltRecordOk \/ HaltRecordFails \/ HaltRecordCancelled
    BY <2>5, <2>9 DEF HaltStart, HaltRecordOk, HaltRecordFails, HaltRecordCancelled, AllOutcomes
  <2>10. CASE HandleEmptyEvent \/ HandleEventCrash \/ StandardReply \/ IsolateReply \/ HaltReply
    <3>1. response' # Pending
      BY <2>1, <2>10, ReplyMeans
      DEF HandleEmptyEvent, HandleEventCrash, StandardReply, IsolateReply, HaltReply,
        Pending, Raised, Result, Reply
    <3> QED
      BY <2>3, <2>10, <3>1
      DEF HandleEmptyEvent, HandleEventCrash, StandardReply, IsolateReply, HaltReply
  <2> QED
    BY <2>4, <2>6, <2>7, <2>8, <2>9, <2>10, StepCases DEF StandardNext, IsolateNext, HaltNext
<1>2. IInv => ShapeInv
  BY DEF IInv
<1> QED
  BY <1>1, <1>2, Inductive, PTL DEF Spec

\* The loop over a non-empty list of records has a first one.
LEMMA FirstExists ==
  ASSUME batch \in Batches, NEW S \in SUBSET Records, S # {}
  PROVE  \E r \in Records : IsFirst(S, r)
<1>1. S \in SUBSET Nat
  BY BatchFacts
<1> DEFINE R == OpToRel(<, Nat)
<1>2. \A x, y \in Nat : <<y, x>> \in R <=> y < x
  BY DEF OpToRel
<1>3. PICK r \in S : \A s \in S : <<s, r>> \notin R
  <2> HIDE DEF R
  <2>1. IsWellFoundedOn(R, Nat)
    BY NatLessThanWellFounded DEF R
  <2> QED
    BY <1>1, <2>1, WFMin
<1>4. \A s \in S : ~(s < r)
  BY <1>1, <1>2, <1>3
<1> QED
  BY <1>3, <1>4 DEF IsFirst, Before

\* The tasks of the groups exist between gather's start and its end.
GatherInv ==
  \A g \in Groups : group[g] = "running" => mode = "isolate" /\ response = Pending

LEMMA GatherStep == ShapeInv /\ GatherInv /\ [Next]_vars => GatherInv'
<1> SUFFICES ASSUME ShapeInv, GatherInv, [Next]_vars,
                    NEW g \in Groups, group'[g] = "running"
             PROVE  mode' = "isolate" /\ response' = Pending
  BY DEF GatherInv, Pending
<1>1. CASE group[g] = "running"
  <2>1. mode = "isolate" /\ response = Pending
    BY <1>1 DEF GatherInv
  <2>2. CASE UNCHANGED <<mode, response>>
    BY <2>1, <2>2
  <2>3. ~IsolateReply
    BY <1>1 DEF IsolateReply
  <2>4. ~(StandardNext \/ HaltNext \/ HandleEmptyEvent \/ HandleEventCrash \/ HandleEvent)
    BY <2>1 DEF StandardNext, StandardStart, StandardFinish, StandardReply,
       HaltNext, HaltStart, HaltRecordOk, HaltRecordFails, HaltRecordCancelled, HaltReply,
       HandleEmptyEvent, HandleEventCrash, HandleEvent
  <2>5. ASSUME NEW h \in Groups, GroupNext(h) PROVE UNCHANGED <<mode, response>>
    BY <2>5 DEF GroupNext, GroupStart, GroupStartFault, GroupRecordOk, GroupRecordFails,
       GroupRecordCancelled
  <2> QED
    BY <2>2, <2>3, <2>4, <2>5 DEF Next, IsolateNext, Done, vars
<1>2. CASE group[g] # "running"
  <2>1. group' # group /\ group \in [Groups -> GroupStatus]
    BY <1>2 DEF ShapeInv
  <2>2. ASSUME NEW h \in Groups, GroupNext(h) PROVE FALSE
    <3>1. \A k \in Groups : group'[k] = "running" => group[k] = "running"
      BY <2>1, <2>2 DEF GroupNext, GroupStart, GroupStartFault, GroupRecordOk, GroupRecordFails,
         GroupRecordCancelled
    <3> QED
      BY <1>2, <3>1
  <2>3. HandleEvent
    BY <2>1, <2>2, StepCases
       DEF StandardNext, StandardStart, StandardFinish, StandardReply, IsolateNext, IsolateReply,
       HaltNext, HaltStart, HaltRecordOk, HaltRecordFails, HaltRecordCancelled, HaltReply,
       HandleEmptyEvent, HandleEventCrash, Done, vars
  <2> QED
    BY <2>1, <2>3 DEF HandleEvent
<1> QED
  BY <1>1, <1>2

\* What keeps a group going is there whatever hangs elsewhere
\* (processing.py:280-319): what GroupsDoNotWait needs besides the fairness.
THEOREM GroupsGoOn == Spec => []IsolateReady
<1>1. Init => GatherInv
  BY DEF Init, GatherInv
<1>2. IInv => ShapeInv
  BY DEF IInv
<1>3. IInv /\ GatherInv => IsolateReady
  <2> SUFFICES ASSUME IInv, GatherInv, NEW g \in Groups, group[g] = "running"
               PROVE  GroupReady(g)
    BY DEF IsolateReady
  <2>1. mode = "isolate" /\ response = Pending
    BY DEF GatherInv
  <2>2. cursor[g] \in Members(g) /\ Members(g) # {} /\ Members(g) \subseteq Records
    BY DEF IInv, ShapeInv, Members
  <2>3. task[cursor[g]] \in {"idle", "running"}
    BY <2>1, <2>2 DEF IInv, IsolateInv, CursorInv
  <2>4. ASSUME After(Members(g), cursor[g]) # {}
        PROVE  \E r \in Records : IsFirst(After(Members(g), cursor[g]), r)
    BY <2>2, <2>4, FirstExists DEF After, IInv, ShapeInv
  <2> QED
    BY <2>1, <2>3, <2>4 DEF GroupReady
<1> QED
  BY <1>1, <1>2, <1>3, GatherStep, Inductive, PTL DEF Spec

\* The loop of a group: its task, the place it is at, and its records.
Disturbed(g) ==
  \/ group'[g] # group[g]
  \/ cursor'[g] # cursor[g]
  \/ \E r \in Members(g) : task'[r] # task[r]

\* While a group runs, nothing moves its loop but its own task: two groups
\* share no record, no cursor and no verdict.
THEOREM GroupsShareNothing ==
  Spec => [][\A g \in Groups : group[g] = "running" /\ Disturbed(g) => GroupNext(g)]_vars
<1>1. Init => GatherInv
  BY DEF Init, GatherInv
<1>2. IInv => ShapeInv
  BY DEF IInv
<1>3. ShapeInv /\ GatherInv /\ [Next]_vars =>
        [\A g \in Groups : group[g] = "running" /\ Disturbed(g) => GroupNext(g)]_vars
  <2> SUFFICES ASSUME ShapeInv, GatherInv, [Next]_vars,
                      NEW g \in Groups, group[g] = "running", Disturbed(g)
               PROVE  GroupNext(g)
    OBVIOUS
  <2>1. mode = "isolate" /\ response = Pending
    BY DEF GatherInv
  <2>2. ~(UNCHANGED <<task, group, cursor>>)
    BY DEF Disturbed
  <2>3. ~IsolateReply
    BY DEF IsolateReply
  <2>4. ~(StandardNext \/ HaltNext \/ HandleEmptyEvent \/ HandleEventCrash \/ HandleEvent)
    BY <2>1 DEF StandardNext, StandardStart, StandardFinish, StandardReply,
       HaltNext, HaltStart, HaltRecordOk, HaltRecordFails, HaltRecordCancelled, HaltReply,
       HandleEmptyEvent, HandleEventCrash, HandleEvent
  <2>5. PICK h \in Groups : GroupNext(h)
    BY <2>2, <2>3, <2>4 DEF Next, IsolateNext, Done, vars
  <2>6. /\ \A k \in Groups \ {h} : group'[k] = group[k] /\ cursor'[k] = cursor[k]
        /\ \A r \in Records \ {cursor[h]} : task'[r] = task[r]
        /\ group[h] = "running"
    BY <2>5 DEF GroupNext, GroupStart, GroupStartFault, GroupRecordOk, GroupRecordFails,
       GroupRecordCancelled, ShapeInv
  <2>7. cursor[h] \in Members(h)
    BY <2>6 DEF ShapeInv
  <2>8. g = h
    <3> SUFFICES ASSUME g # h PROVE FALSE
      OBVIOUS
    <3>1. Members(g) \subseteq Records /\ cursor[h] \notin Members(g)
      BY <2>7 DEF Members
    <3> QED
      BY <2>6, <3>1 DEF Disturbed
  <2> QED
    BY <2>5, <2>8
<1> QED
  BY <1>1, <1>2, <1>3, GatherStep, Inductive, PTL DEF Spec

\* An invocation is never stuck before it has answered, if the semaphore has a
\* slot (processing.py:226): with max_concurrent_messages = 0 it is, at once.
THEOREM NeverStuck ==
  ASSUME MaxConcurrent > 0
  PROVE  Spec => []Ready
<1>1. IInv /\ IsolateReady => Ready
  <2> SUFFICES ASSUME IInv, IsolateReady, response = Pending PROVE Ready
    BY DEF Ready
  <2>1. ASSUME mode = "standard" PROVE StandardReady
    <3> SUFFICES ASSUME \A r \in Records : task[r] # "running" PROVE StandardReady
      BY DEF StandardReady
    <3>1. Running = {}
      BY DEF Running
    <3>2. sem = MaxConcurrent
      BY <2>1, <3>1, FS_EmptySet DEF IInv, SemInv, ShapeInv
    <3> QED
      BY <3>2 DEF StandardReady
  <2>3. ASSUME mode = "halt" PROVE HaltReady
    BY <2>3 DEF IInv, HaltInv, HaltReady, Halted, ShapeInv, TaskStatus, AllOutcomes
  <2> QED
    BY <2>1, <2>3 DEF Ready
<1> QED
  BY <1>1, GroupsGoOn, Inductive, PTL
=============================================================================
