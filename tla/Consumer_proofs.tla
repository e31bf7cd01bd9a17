--------------------------- MODULE Consumer_proofs ---------------------------
(***************************************************************************)
(* Proofs about Consumer, for any number of messages, groups and workers   *)
(* and any maxReceiveCount.                                                *)
(*                                                                         *)
(* What one batch shows of order is order across deliveries because of     *)
(* FrontInv: whatever an invocation holds of a group is the front of what  *)
(* is left of it.                                                          *)
(***************************************************************************)
EXTENDS Consumer, WellFoundedInduction, TLAPS

-----------------------------------------------------------------------------
(* The inductive invariant.                                                *)

\* A verdict is what the history says, and only a worker has one.
VerdictInv ==
  \A m \in Messages :
    /\ verdict[m] = "processed" => m \in processed
    /\ verdict[m] = "failed" => m \in failed
    /\ place[m] \notin Workers => verdict[m] = "open"

\* The earlier messages of a group in flight are in the same batch or gone.
FrontInv ==
  app.mode # "standard" =>
    \A m \in Messages :
      place[m] \in Workers =>
        \A n \in Earlier(m) : place[n] = place[m] \/ ~Remaining(n)

\* A processed message is deleted or about to be, unless it was in a batch that
\* never answered.
StaysInv ==
  app.partial =>
    \A m \in processed \ killed :
      place[m] = "deleted" \/ (place[m] \in Workers /\ verdict[m] = "processed")

\* A message that came back has somebody to blame.
CauseInv ==
  \A m \in Messages :
    /\ place[m] = "dead" => receives[m] > 0
    /\ /\ app.partial
       /\ place[m] \in {"queued", "dead"} /\ receives[m] > 0 /\ m \notin killed
       => Culprits(m) \cap failed # {}

IInv ==
  /\ TypeOK /\ VerdictInv /\ FrontInv /\ NothingLost /\ GroupOrder
  /\ StaysInv /\ CauseInv

-----------------------------------------------------------------------------
(* What every step does.                                                   *)

\* The configuration is fixed, the histories grow and dead is dead.
LEMMA FixedNext ==
  ASSUME IInv, [Next]_vars
  PROVE  /\ UNCHANGED <<app, group>>
         /\ processed \subseteq processed' /\ failed \subseteq failed' /\ killed \subseteq killed'
         /\ \A m \in Messages : Earlier(m)' = Earlier(m) /\ Culprits(m)' = Culprits(m)
         /\ \A m \in Messages : place[m] = "dead" => place'[m] = "dead"
         /\ \A m \in Messages : place[m] = "deleted" => place'[m] = "deleted"
<1>1. /\ UNCHANGED <<app, group>>
      /\ processed \subseteq processed' /\ failed \subseteq failed' /\ killed \subseteq killed'
  BY DEF Next, SqsNext, Invocation, Receive, DeadLetter, Settle, Reply, Kill, Empty, vars
<1>2. \A m \in Messages : Earlier(m)' = Earlier(m)
  BY <1>1 DEF Earlier
<1>3. \A m \in Messages : Culprits(m)' = Culprits(m)
  BY <1>1, <1>2 DEF Culprits
<1>4. ASSUME NEW m \in Messages, place[m] \in {"dead", "deleted"} PROVE place'[m] = place[m]
  <2>1. place[m] \notin Workers /\ place[m] # "queued" /\ place \in [Messages -> Ends \cup Workers]
    BY <1>4, ConsumerAssumption DEF IInv, TypeOK, Ends
  <2> QED
    BY <1>4, <2>1 DEF Next, SqsNext, Invocation, Receive, DeadLetter, Settle, Reply, Kill, Empty, vars
<1> QED
  BY <1>1, <1>2, <1>3, <1>4

LEMMA InitInv == Init => IInv
<1> SUFFICES ASSUME Init PROVE IInv
  OBVIOUS
<1>1. TypeOK
  BY ConsumerAssumption DEF Init, TypeOK, Ends
<1>2. VerdictInv /\ FrontInv /\ NothingLost /\ GroupOrder /\ StaysInv /\ CauseInv
  BY ConsumerAssumption
  DEF Init, VerdictInv, FrontInv, NothingLost, GroupOrder, StaysInv, CauseInv, Ends
<1> QED
  BY <1>1, <1>2 DEF IInv

-----------------------------------------------------------------------------
(* One lemma per action.                                                   *)

LEMMA ReceiveStep ==
  ASSUME IInv, NEW w \in Workers, NEW B \in SUBSET Messages, Receive(w, B)
  PROVE  IInv'
<1> USE ConsumerAssumption DEF Ends
<1>0. /\ UNCHANGED <<app, group, verdict, processed, failed, killed>>
      /\ \A m \in B : place[m] = "queued" /\ receives[m] < MaxReceive
      /\ \A m \in Messages : place'[m] = IF m \in B THEN w ELSE place[m]
      /\ \A m \in Messages : receives'[m] = IF m \in B THEN receives[m] + 1 ELSE receives[m]
  BY DEF Receive
<1>e. \A m \in Messages : Earlier(m)' = Earlier(m) /\ Culprits(m)' = Culprits(m)
  BY <1>0 DEF Earlier, Culprits
<1>1. TypeOK'
  <2>1. \A m \in Messages : receives'[m] \in 0..MaxReceive
    BY <1>0 DEF IInv, TypeOK
  <2> QED
    BY <1>0, <2>1 DEF IInv, TypeOK, Receive
<1>2. VerdictInv'
  BY <1>0 DEF IInv, VerdictInv
<1>3. FrontInv'
  <2> SUFFICES ASSUME app.mode # "standard", NEW m \in Messages, place'[m] \in Workers,
                      NEW n \in Earlier(m)
               PROVE  place'[n] = place'[m] \/ place'[n] \in {"deleted", "dead"}
    BY <1>0, <1>e DEF FrontInv, Remaining
  <2>0. n \in Messages /\ n < m /\ group[n] = group[m]
    BY DEF Earlier
  <2>1. InOrder(B)
    BY DEF Receive
  <2>2. CASE m \in B
    BY <1>0, <2>0, <2>1, <2>2 DEF InOrder, Remaining
  <2>3. CASE m \notin B
    <3>1. place[m] \in Workers
      BY <1>0, <2>3
    <3>2. n \notin B
      BY <2>0, <2>1, <3>1 DEF InOrder
    <3>3. place[n] = place[m] \/ place[n] \in {"deleted", "dead"}
      BY <3>1 DEF IInv, FrontInv, Remaining
    <3>4. place'[m] = place[m] /\ place'[n] = place[n]
      BY <1>0, <2>0, <2>3, <3>2
    <3> QED
      BY <3>3, <3>4
  <2> QED
    BY <2>2, <2>3
<1>4. NothingLost'
  BY <1>0 DEF IInv, NothingLost
<1>5. GroupOrder'
  <2> SUFFICES ASSUME app.mode # "standard", NEW m \in processed \cup failed, NEW n \in Earlier(m)
               PROVE  n \in processed \/ place'[n] = "dead"
    BY <1>0, <1>e DEF GroupOrder, IInv, TypeOK
  <2>1. n \in processed \/ place[n] = "dead"
    BY DEF IInv, GroupOrder
  <2> QED
    BY <1>0, <2>1 DEF Earlier
<1>6. StaysInv'
  BY <1>0 DEF IInv, StaysInv, TypeOK
<1>7. CauseInv'
  <2> SUFFICES ASSUME NEW m \in Messages
               PROVE  /\ place'[m] = "dead" => receives'[m] > 0
                      /\ /\ app.partial /\ place'[m] \in {"queued", "dead"}
                         /\ receives'[m] > 0 /\ m \notin killed
                         => Culprits(m) \cap failed # {}
    BY <1>0, <1>e DEF CauseInv
  <2> QED
    BY <1>0 DEF IInv, CauseInv
<1> QED
  BY <1>1, <1>2, <1>3, <1>4, <1>5, <1>6, <1>7 DEF IInv

LEMMA DeadLetterStep ==
  ASSUME IInv, NEW d \in Messages, DeadLetter(d)
  PROVE  IInv'
<1> USE ConsumerAssumption DEF Ends
<1>0. /\ UNCHANGED <<app, group, receives, verdict, processed, failed, killed>>
      /\ place[d] = "queued" /\ receives[d] = MaxReceive
      /\ place \in [Messages -> Ends \cup Workers]
      /\ \A m \in Messages : place'[m] = IF m = d THEN "dead" ELSE place[m]
  BY DEF DeadLetter, IInv, TypeOK
<1>e. \A m \in Messages : Earlier(m)' = Earlier(m) /\ Culprits(m)' = Culprits(m)
  BY <1>0 DEF Earlier, Culprits
<1>1. TypeOK'
  BY <1>0 DEF IInv, TypeOK, DeadLetter
<1>2. VerdictInv'
  BY <1>0 DEF IInv, VerdictInv
<1>3. FrontInv'
  BY <1>0, <1>e DEF IInv, FrontInv, Remaining, Earlier
<1>4. NothingLost'
  BY <1>0 DEF IInv, NothingLost
<1>5. GroupOrder'
  <2> SUFFICES ASSUME app.mode # "standard", NEW m \in processed \cup failed, NEW n \in Earlier(m)
               PROVE  n \in processed \/ place'[n] = "dead"
    BY <1>0, <1>e DEF GroupOrder, IInv, TypeOK
  <2>1. n \in processed \/ place[n] = "dead"
    BY DEF IInv, GroupOrder
  <2> QED
    BY <1>0, <2>1 DEF Earlier
<1>6. StaysInv'
  BY <1>0 DEF IInv, StaysInv, TypeOK
<1>7. CauseInv'
  BY <1>0, <1>e DEF IInv, CauseInv
<1> QED
  BY <1>1, <1>2, <1>3, <1>4, <1>5, <1>6, <1>7 DEF IInv

LEMMA SettleStep ==
  ASSUME IInv, NEW w \in Workers, NEW s \in Batch(w), NEW v \in {"processed", "failed"},
         Settle(s, v)
  PROVE  IInv'
<1> USE ConsumerAssumption DEF Ends
<1>0. /\ UNCHANGED <<app, group, place, receives, killed>>
      /\ s \in Messages /\ place[s] \in Workers /\ verdict[s] = "open"
      /\ \A m \in Messages : verdict'[m] = IF m = s THEN v ELSE verdict[m]
      /\ processed' = IF v = "processed" THEN processed \cup {s} ELSE processed
      /\ failed' = IF v = "failed" THEN failed \cup {s} ELSE failed
  BY DEF Settle, Batch, IInv, TypeOK
<1>e. \A m \in Messages : Earlier(m)' = Earlier(m) /\ Culprits(m)' = Culprits(m)
  BY <1>0 DEF Earlier, Culprits
<1>1. TypeOK'
  BY <1>0 DEF IInv, TypeOK, Settle
<1>2. VerdictInv'
  BY <1>0 DEF IInv, VerdictInv
<1>3. FrontInv'
  BY <1>0, <1>e DEF IInv, FrontInv, Remaining
<1>4. NothingLost'
  BY <1>0 DEF IInv, NothingLost
<1>5. GroupOrder'
  <2> SUFFICES ASSUME app.mode # "standard", NEW m \in processed' \cup failed', NEW n \in Earlier(m)
               PROVE  n \in processed' \/ place[n] = "dead"
    BY <1>0, <1>1, <1>e DEF GroupOrder, TypeOK
  <2>1. CASE m \in processed \cup failed
    BY <1>0, <2>1 DEF IInv, GroupOrder
  <2>2. CASE m \notin processed \cup failed
    <3>1. m = s
      BY <1>0, <2>2
    <3>2. n \in Messages /\ n < s /\ group[n] = group[s]
      BY <3>1 DEF Earlier
    <3>3. CASE place[n] = place[s]
      <4>1. app.mode \in {"isolate", "halt"}
        BY DEF IInv, TypeOK
      <4>2. n \in MustPrecede(s)
        BY <3>1, <3>2, <3>3, <4>1 DEF MustPrecede
      <4>3. verdict[n] = "processed"
        BY <4>2 DEF Settle
      <4> QED
        BY <1>0, <3>2, <4>3 DEF IInv, VerdictInv
    <3>4. CASE place[n] \in {"deleted", "dead"}
      BY <1>0, <3>2, <3>4 DEF IInv, NothingLost
    <3> QED
      BY <1>0, <3>1, <3>3, <3>4 DEF IInv, FrontInv, Remaining
  <2> QED
    BY <2>1, <2>2
<1>6. StaysInv'
  BY <1>0 DEF IInv, StaysInv, TypeOK
<1>7. CauseInv'
  <2> SUFFICES ASSUME NEW m \in Messages
               PROVE  /\ place[m] = "dead" => receives[m] > 0
                      /\ /\ app.partial /\ place[m] \in {"queued", "dead"}
                         /\ receives[m] > 0 /\ m \notin killed
                         => Culprits(m) \cap failed' # {}
    BY <1>0, <1>e DEF CauseInv
  <2>1. failed \subseteq failed'
    BY <1>0
  <2> QED
    BY <2>1 DEF IInv, CauseInv
<1> QED
  BY <1>1, <1>2, <1>3, <1>4, <1>5, <1>6, <1>7 DEF IInv

\* What Reply and Kill have in common: the batch is given up.
LEMMA GiveUp ==
  ASSUME IInv, NEW w \in Workers, Reply(w) \/ Kill(w)
  PROVE  /\ UNCHANGED <<app, group, receives, processed, failed>> /\ killed \subseteq killed'
         /\ place' \in [Messages -> Ends \cup Workers]
         /\ \A m \in Messages :
              /\ place[m] # w => place'[m] = place[m]
              /\ place[m] = w => place'[m] \in {"queued", "deleted"}
              /\ verdict'[m] = IF place[m] = w THEN "open" ELSE verdict[m]
         /\ verdict' \in [Messages -> {"open", "processed", "failed"}]
         /\ TypeOK' /\ VerdictInv' /\ FrontInv' /\ (NothingLost' => GroupOrder')
<1> USE ConsumerAssumption DEF Ends
<1>0. /\ UNCHANGED <<app, group, receives, processed, failed>> /\ killed \subseteq killed'
      /\ Clear(w)
  BY DEF Reply, Kill
<1>p. place' \in [Messages -> Ends \cup Workers]
  BY DEF IInv, TypeOK, Reply, Kill
<1>1. ASSUME NEW m \in Messages
      PROVE  /\ place[m] # w => place'[m] = place[m]
             /\ place[m] = w => place'[m] \in {"queued", "deleted"}
             /\ verdict'[m] = IF place[m] = w THEN "open" ELSE verdict[m]
  BY <1>0 DEF Reply, Kill, Clear
<1>2. verdict' \in [Messages -> {"open", "processed", "failed"}]
  BY <1>0 DEF Clear, IInv, TypeOK
<1>3. TypeOK'
  BY <1>0, <1>p, <1>2 DEF IInv, TypeOK, Batch, Kill, Reply
<1>4. VerdictInv'
  BY <1>0, <1>1 DEF IInv, VerdictInv
<1>e. \A m \in Messages : Earlier(m)' = Earlier(m)
  BY <1>0 DEF Earlier
<1>5. FrontInv'
  <2> SUFFICES ASSUME app.mode # "standard", NEW m \in Messages, place'[m] \in Workers,
                      NEW n \in Earlier(m)
               PROVE  place'[n] = place'[m] \/ place'[n] \in {"deleted", "dead"}
    BY <1>0, <1>e DEF FrontInv, Remaining
  <2>1. place[m] # w /\ place'[m] = place[m]
    BY <1>1
  <2>2. n \in Messages /\ (place[n] = place[m] \/ place[n] \in {"deleted", "dead"})
    BY <2>1 DEF IInv, FrontInv, Remaining, Earlier
  <2> QED
    BY <1>1, <2>1, <2>2
<1>6. NothingLost' => GroupOrder'
  <2> SUFFICES ASSUME app.mode # "standard", NEW m \in processed \cup failed, NEW n \in Earlier(m)
               PROVE  n \in processed \/ place'[n] = "dead"
    BY <1>0, <1>e DEF GroupOrder, IInv, TypeOK
  <2>1. n \in Messages /\ (n \in processed \/ place[n] = "dead")
    BY DEF IInv, GroupOrder, Earlier
  <2> QED
    BY <1>1, <2>1
<1> QED
  BY <1>0, <1>p, <1>1, <1>2, <1>3, <1>4, <1>5, <1>6

LEMMA ReplyStep ==
  ASSUME IInv, NEW w \in Workers, Reply(w)
  PROVE  IInv'
<1> USE ConsumerAssumption DEF Ends
<1>0. UNCHANGED <<app, group, receives, processed, failed, killed>>
  BY DEF Reply
<1>e. \A m \in Messages : Culprits(m)' = Culprits(m)
  BY <1>0 DEF Culprits, Earlier
<1>1. ASSUME NEW m \in Messages, place[m] = w
      PROVE  /\ place'[m] = "deleted" => verdict[m] = "processed"
             /\ app.partial /\ verdict[m] = "processed" => place'[m] = "deleted"
  <2> DEFINE back == IF app.partial \/ Unprocessed(w) = {} THEN Unprocessed(w) ELSE Batch(w)
  <2>1. place'[m] = IF m \in back THEN "queued" ELSE "deleted"
    BY <1>1 DEF Reply
  <2>2. m \in Batch(w)
    BY <1>1 DEF Batch
  <2>3. m \notin back => verdict[m] = "processed"
    BY <2>2 DEF Unprocessed
  <2>4. app.partial /\ verdict[m] = "processed" => m \notin back
    BY DEF Unprocessed
  <2> QED
    BY <2>1, <2>3, <2>4
<1>2. NothingLost'
  <2> SUFFICES ASSUME NEW m \in Messages, place'[m] = "deleted" PROVE m \in processed
    BY <1>0 DEF NothingLost
  <2>1. CASE place[m] = w
    BY <1>1, <2>1 DEF IInv, VerdictInv
  <2>2. CASE place[m] # w
    BY <2>2, GiveUp DEF IInv, NothingLost
  <2> QED
    BY <2>1, <2>2
<1>3. StaysInv'
  <2> SUFFICES ASSUME app.partial, NEW m \in processed \ killed
               PROVE  place'[m] = "deleted" \/ (place'[m] \in Workers /\ verdict'[m] = "processed")
    BY <1>0 DEF StaysInv
  <2>1. m \in Messages
    BY DEF IInv, TypeOK
  <2>2. place[m] = "deleted" \/ (place[m] \in Workers /\ verdict[m] = "processed")
    BY DEF IInv, StaysInv
  <2>3. CASE place[m] = w
    BY <1>1, <2>1, <2>2, <2>3
  <2>4. CASE place[m] # w
    BY <2>1, <2>2, <2>4, GiveUp
  <2> QED
    BY <2>3, <2>4
<1>4. CauseInv'
  <2> SUFFICES ASSUME NEW m \in Messages
               PROVE  /\ place'[m] = "dead" => receives[m] > 0
                      /\ /\ app.partial /\ place'[m] \in {"queued", "dead"}
                         /\ receives[m] > 0 /\ m \notin killed
                         => Culprits(m) \cap failed # {}
    BY <1>0, <1>e DEF CauseInv
  <2>1. CASE place[m] # w
    BY <2>1, GiveUp DEF IInv, CauseInv
  <2>2. CASE place[m] = w
    <3>1. place'[m] \in {"queued", "deleted"}
      BY <2>2, GiveUp
    <3>2. ASSUME app.partial, place'[m] = "queued" PROVE Culprits(m) \cap failed # {}
      <4>1. verdict[m] # "processed"
        BY <1>1, <2>2, <3>2
      <4>2. CASE verdict[m] = "failed"
        BY <4>2 DEF IInv, VerdictInv, Culprits
      <4>3. CASE verdict[m] = "open"
        <5>1. PICK n \in MustPrecede(m) : verdict[n] = "failed"
          BY <2>2, <4>3 DEF Reply, CanReply, Batch
        <5>2. app.mode \in {"standard", "isolate", "halt"}
          BY DEF IInv, TypeOK
        <5>3. n \in Messages /\ n \in Culprits(m)
          BY <5>1, <5>2 DEF MustPrecede, Culprits, Earlier
        <5> QED
          BY <5>1, <5>3 DEF IInv, VerdictInv
      <4> QED
        BY <4>1, <4>2, <4>3 DEF IInv, TypeOK
    <3> QED
      BY <3>1, <3>2
  <2> QED
    BY <2>1, <2>2
<1> QED
  BY <1>2, <1>3, <1>4, GiveUp DEF IInv

LEMMA KillStep ==
  ASSUME IInv, NEW w \in Workers, Kill(w)
  PROVE  IInv'
<1> USE ConsumerAssumption DEF Ends
<1>0. /\ UNCHANGED <<app, group, receives, processed, failed>>
      /\ killed' = killed \cup Batch(w)
      /\ \A m \in Messages : place'[m] = IF place[m] = w THEN "queued" ELSE place[m]
  BY DEF Kill
<1>e. \A m \in Messages : Culprits(m)' = Culprits(m)
  BY <1>0 DEF Culprits, Earlier
<1>2. NothingLost'
  BY <1>0 DEF IInv, NothingLost
<1>3. StaysInv'
  <2> SUFFICES ASSUME app.partial, NEW m \in processed \ killed'
               PROVE  place'[m] = "deleted" \/ (place'[m] \in Workers /\ verdict'[m] = "processed")
    BY <1>0 DEF StaysInv
  <2>1. m \in Messages /\ m \notin killed /\ place[m] # w
    BY <1>0 DEF IInv, TypeOK, Batch
  <2> QED
    BY <2>1, GiveUp DEF IInv, StaysInv
<1>4. CauseInv'
  <2> SUFFICES ASSUME NEW m \in Messages
               PROVE  /\ place'[m] = "dead" => receives[m] > 0
                      /\ /\ app.partial /\ place'[m] \in {"queued", "dead"}
                         /\ receives[m] > 0 /\ m \notin killed'
                         => Culprits(m) \cap failed # {}
    BY <1>0, <1>e DEF CauseInv
  <2>1. CASE place[m] = w
    BY <1>0, <2>1 DEF Batch
  <2>2. CASE place[m] # w
    BY <1>0, <2>2 DEF IInv, CauseInv
  <2> QED
    BY <2>1, <2>2
<1> QED
  BY <1>2, <1>3, <1>4, GiveUp DEF IInv

LEMMA IdleStep ==
  ASSUME IInv, UNCHANGED vars
  PROVE  IInv'
<1>1. \A m : Earlier(m)' = Earlier(m) /\ Remaining(m)' = Remaining(m)
  BY DEF Earlier, Remaining, vars
<1>2. \A m : Culprits(m)' = Culprits(m)
  BY <1>1 DEF Culprits, vars
<1>3. TypeOK' /\ VerdictInv' /\ NothingLost' /\ StaysInv'
  BY DEF vars, IInv, TypeOK, VerdictInv, NothingLost, StaysInv
<1>4. FrontInv' /\ GroupOrder'
  BY <1>1 DEF vars, IInv, FrontInv, GroupOrder
<1>5. CauseInv'
  BY <1>2 DEF vars, IInv, CauseInv
<1> QED
  BY <1>3, <1>4, <1>5 DEF IInv

-----------------------------------------------------------------------------
(* Theorems.                                                               *)

\* The inductive invariant holds for every queue, app and schedule.
THEOREM Inductive == Spec => []IInv
<1>1. IInv /\ [Next]_vars => IInv'
  BY ReceiveStep, DeadLetterStep, SettleStep, ReplyStep, KillStep, IdleStep
  DEF Next, SqsNext, Invocation, Empty
<1> QED
  BY <1>1, InitInv, PTL DEF Spec

\* The state keeps its shape and no message is received too often.
THEOREM TypeCorrect == Spec => []TypeOK
<1>1. IInv => TypeOK
  BY DEF IInv
<1> QED
  BY <1>1, Inductive, PTL

\* A FIFO group is attempted in order over any number of deliveries, failures,
\* killed invocations and concurrent workers.
THEOREM OrderAcrossDeliveries == Spec => []GroupOrder
<1>1. IInv => GroupOrder
  BY DEF IInv
<1> QED
  BY <1>1, Inductive, PTL

\* What SQS deletes was processed.
THEOREM DeletedWasProcessed == Spec => []NothingLost
<1>1. IInv => NothingLost
  BY DEF IInv
<1> QED
  BY <1>1, Inductive, PTL

\* With partial replies a processed message is never delivered again by an
\* invocation that answered.
THEOREM ProcessedOnce == Spec => []ProcessedStays
<1>1. IInv => ProcessedStays
  BY ConsumerAssumption DEF IInv, StaysInv, ProcessedStays, Ends
<1> QED
  BY <1>1, Inductive, PTL

\* With partial replies a failure dead-letters only what had to follow it.
THEOREM DeadLettersHaveCause == Spec => []DeadLetterCause
<1>1. IInv => DeadLetterCause
  BY DEF IInv, CauseInv, DeadLetterCause
<1> QED
  BY <1>1, Inductive, PTL
-----------------------------------------------------------------------------
(* Why the queue drains.  Every step uses up some of the work, kills       *)
(* included, and while a message is left there is a step to take.          *)

\* What is left to do for each message and each delivery it may still have:
\* be received, settle, come back; and at last leave the queue.
ToReceive == {d \in Messages \X (0..MaxReceive) : receives[d[1]] < d[2]}
ToSettle ==
  {d \in Messages \X (0..MaxReceive) :
     \/ receives[d[1]] < d[2]
     \/ receives[d[1]] = d[2] /\ place[d[1]] \in Workers /\ verdict[d[1]] = "open"}
ToReturn ==
  {d \in Messages \X (0..MaxReceive) :
     \/ receives[d[1]] < d[2]
     \/ receives[d[1]] = d[2] /\ place[d[1]] \in Workers}
ToLeave == {m \in Messages : Remaining(m)}

\* No work is added.
WorkKept ==
  /\ ToReceive' \subseteq ToReceive
  /\ ToSettle' \subseteq ToSettle
  /\ ToReturn' \subseteq ToReturn
  /\ ToLeave' \subseteq ToLeave

\* Some is done.
WorkDone ==
  \/ ToReceive' # ToReceive
  \/ ToSettle' # ToSettle
  \/ ToReturn' # ToReturn
  \/ ToLeave' # ToLeave

\* SQS or an invocation can go on.
CanReceive ==
  \E w \in Workers, m \in Messages :
    /\ Batch(w) = {}
    /\ place[m] = "queued" /\ receives[m] < MaxReceive
    /\ app.mode # "standard" => InOrder({m})
CanDeadLetter ==
  \E m \in Messages :
    /\ place[m] = "queued" /\ receives[m] = MaxReceive
    /\ app.mode # "standard" => InOrder({m})
CanSettle ==
  \E m \in Messages :
    /\ place[m] \in Workers /\ verdict[m] = "open"
    /\ \A n \in MustPrecede(m) : verdict[n] = "processed"
CanGoOn ==
  (\E m \in Messages : Remaining(m)) =>
    CanReceive \/ CanDeadLetter \/ CanSettle \/ \E w \in Workers : CanReply(w)

\* Message by message: a delivery that is over stays over.
LEMMA KeptPerMessage ==
  ASSUME TypeOK, TypeOK',
         \A m \in Messages :
           /\ receives[m] <= receives'[m]
           /\ receives'[m] = receives[m] /\ place'[m] \in Workers =>
                place[m] \in Workers /\ (verdict'[m] = "open" => verdict[m] = "open")
           /\ Remaining(m)' => Remaining(m)
  PROVE  WorkKept
<1>1. \A m \in Messages : receives[m] \in Nat /\ receives'[m] \in Nat
  BY ConsumerAssumption DEF TypeOK
<1>2. ToReceive' \subseteq ToReceive
  BY <1>1 DEF ToReceive
<1>3. ToSettle' \subseteq ToSettle
  <2> SUFFICES ASSUME NEW d \in Messages \X (0..MaxReceive), d \in ToSettle' PROVE d \in ToSettle
    BY DEF ToSettle
  <2>1. d[1] \in Messages /\ d[2] \in Nat
    BY ConsumerAssumption
  <2>2. \/ receives'[d[1]] < d[2]
        \/ receives'[d[1]] = d[2] /\ place'[d[1]] \in Workers /\ verdict'[d[1]] = "open"
    BY DEF ToSettle
  <2>3. \/ receives[d[1]] < d[2]
        \/ receives[d[1]] = d[2] /\ place[d[1]] \in Workers /\ verdict[d[1]] = "open"
    BY <1>1, <2>1, <2>2
  <2> QED
    BY <2>3 DEF ToSettle
<1>4. ToReturn' \subseteq ToReturn
  <2> SUFFICES ASSUME NEW d \in Messages \X (0..MaxReceive), d \in ToReturn' PROVE d \in ToReturn
    BY DEF ToReturn
  <2>1. d[1] \in Messages /\ d[2] \in Nat
    BY ConsumerAssumption
  <2>2. \/ receives'[d[1]] < d[2]
        \/ receives'[d[1]] = d[2] /\ place'[d[1]] \in Workers
    BY DEF ToReturn
  <2>3. \/ receives[d[1]] < d[2]
        \/ receives[d[1]] = d[2] /\ place[d[1]] \in Workers
    BY <1>1, <2>1, <2>2
  <2> QED
    BY <2>3 DEF ToReturn
<1>5. ToLeave' \subseteq ToLeave
  BY DEF ToLeave
<1> QED
  BY <1>2, <1>3, <1>4, <1>5 DEF WorkKept

\* One message is enough for some work to be done.
LEMMA DoneByMessage ==
  ASSUME TypeOK, TypeOK', NEW m \in Messages,
         \/ receives[m] < receives'[m]
         \/ /\ receives'[m] = receives[m] /\ place[m] \in Workers
            /\ place'[m] \notin Workers \/ (verdict[m] = "open" /\ verdict'[m] # "open")
         \/ Remaining(m) /\ ~Remaining(m)'
  PROVE  WorkDone
<1>1. receives[m] \in 0..MaxReceive /\ receives'[m] \in 0..MaxReceive /\ MaxReceive \in Nat
  BY ConsumerAssumption DEF TypeOK
<1>2. CASE receives[m] < receives'[m]
  <2> DEFINE d == <<m, receives'[m]>>
  <2>1. d \in ToReceive /\ d \notin ToReceive'
    BY <1>1, <1>2 DEF ToReceive
  <2> QED
    BY <2>1 DEF WorkDone
<1>3. CASE receives'[m] = receives[m] /\ place[m] \in Workers /\ place'[m] \notin Workers
  <2> DEFINE d == <<m, receives[m]>>
  <2>1. d \in ToReturn /\ d \notin ToReturn'
    BY <1>1, <1>3 DEF ToReturn
  <2> QED
    BY <2>1 DEF WorkDone
<1>4. CASE /\ receives'[m] = receives[m] /\ place[m] \in Workers
           /\ verdict[m] = "open" /\ verdict'[m] # "open"
  <2> DEFINE d == <<m, receives[m]>>
  <2>1. d \in ToSettle /\ d \notin ToSettle'
    BY <1>1, <1>4 DEF ToSettle
  <2> QED
    BY <2>1 DEF WorkDone
<1>5. CASE Remaining(m) /\ ~Remaining(m)'
  BY <1>5 DEF WorkDone, ToLeave
<1> QED
  BY <1>2, <1>3, <1>4, <1>5

\* No queue, of any number of messages and however often invocations are
\* killed, goes on for ever: a message takes at most three steps per delivery
\* and one to leave.
THEOREM EveryStepWorks == Spec => [][WorkKept /\ WorkDone]_vars
<1>1. ASSUME IInv, IInv', [Next]_vars, ~UNCHANGED vars PROVE WorkKept /\ WorkDone
  <2> USE ConsumerAssumption DEF Ends
  <2>1. TypeOK /\ TypeOK' /\ \A m \in Messages : receives[m] \in Nat
    BY <1>1 DEF IInv, TypeOK
  <2>2. ASSUME NEW w \in Workers, NEW B \in SUBSET Messages, Receive(w, B)
        PROVE  WorkKept /\ WorkDone
    <3>1. /\ UNCHANGED verdict
          /\ \A m \in B : place[m] = "queued"
          /\ \A m \in Messages : place'[m] = IF m \in B THEN w ELSE place[m]
          /\ \A m \in Messages : receives'[m] = IF m \in B THEN receives[m] + 1 ELSE receives[m]
      BY <2>2 DEF Receive
    <3>2. \A m \in Messages : receives[m] <= receives'[m]
      BY <2>1, <3>1
    <3>3. \A m \in Messages : receives'[m] = receives[m] => place'[m] = place[m]
      BY <2>1, <3>1
    <3>4. WorkKept
      BY <2>1, <3>1, <3>2, <3>3, KeptPerMessage DEF Remaining
    <3>5. PICK m \in B : TRUE
      BY <2>2 DEF Receive
    <3>6. receives[m] < receives'[m]
      BY <2>1, <3>1
    <3> QED
      BY <2>1, <3>4, <3>6, DoneByMessage
  <2>3. ASSUME NEW m \in Messages, DeadLetter(m) PROVE WorkKept /\ WorkDone
    <3>1. /\ UNCHANGED <<receives, verdict>> /\ place[m] = "queued"
          /\ \A n \in Messages : place'[n] = IF n = m THEN "dead" ELSE place[n]
      BY <2>1, <2>3 DEF DeadLetter, TypeOK
    <3>2. WorkKept
      BY <2>1, <3>1, KeptPerMessage DEF Remaining
    <3>3. Remaining(m) /\ ~Remaining(m)'
      BY <3>1 DEF Remaining
    <3> QED
      BY <2>1, <3>2, <3>3, DoneByMessage
  <2>4. ASSUME NEW m \in Messages, NEW v \in {"processed", "failed"}, Settle(m, v)
        PROVE  WorkKept /\ WorkDone
    <3>1. /\ UNCHANGED <<receives, place>> /\ place[m] \in Workers /\ verdict[m] = "open"
          /\ \A n \in Messages : verdict'[n] = IF n = m THEN v ELSE verdict[n]
      BY <2>1, <2>4 DEF Settle, TypeOK
    <3>2. WorkKept
      BY <2>1, <3>1, KeptPerMessage DEF Remaining
    <3> QED
      BY <2>1, <3>1, <3>2, DoneByMessage
  <2>5. ASSUME NEW w \in Workers, Reply(w) \/ Kill(w) PROVE WorkKept /\ WorkDone
    <3>1. /\ UNCHANGED receives /\ Batch(w) # {}
          /\ \A n \in Messages : place[n] # w => place'[n] = place[n] /\ verdict'[n] = verdict[n]
          /\ \A n \in Messages : place[n] = w => place'[n] \in {"queued", "deleted"}
      BY <2>5 DEF Reply, CanReply, Kill, Clear
    <3>2. WorkKept
      BY <2>1, <3>1, KeptPerMessage DEF Remaining
    <3>3. PICK m \in Messages : place[m] = w
      BY <3>1 DEF Batch
    <3>4. place[m] \in Workers /\ place'[m] \notin Workers
      BY <3>1, <3>3
    <3> QED
      BY <2>1, <3>1, <3>2, <3>4, DoneByMessage
  <2> QED
    BY <1>1, <2>2, <2>3, <2>4, <2>5 DEF Next, SqsNext, Invocation, Empty, Batch
<1> QED
  BY <1>1, Inductive, PTL DEF Spec

\* A non-empty set of messages has an earliest one.
LEMMA EarliestExists ==
  ASSUME NEW S \in SUBSET Messages, S # {}
  PROVE  \E m \in S : \A n \in S : ~(n < m)
<1>1. S \subseteq Nat
  BY ConsumerAssumption DEF Messages
<1> DEFINE R == OpToRel(<, Nat)
<1>2. \A x, y \in Nat : <<y, x>> \in R <=> y < x
  BY DEF OpToRel
<1>3. PICK m \in S : \A n \in S : <<n, m>> \notin R
  <2> HIDE DEF R
  <2>1. IsWellFoundedOn(R, Nat)
    BY NatLessThanWellFounded DEF R
  <2> QED
    BY <1>1, <2>1, WFMin
<1> QED
  BY <1>1, <1>2, <1>3

\* Waiting is transitive and goes back in the order of the messages.
LEMMA WaitsTransitively ==
  ASSUME TypeOK, NEW m \in Messages, NEW n \in MustPrecede(m)
  PROVE  n \in Messages /\ n < m /\ MustPrecede(n) \subseteq MustPrecede(m)
<1>1. app.mode \in {"isolate", "halt"}
  BY ConsumerAssumption DEF TypeOK, MustPrecede
<1>2. /\ n \in Messages /\ n < m /\ place[n] = place[m]
      /\ app.mode = "isolate" => group[n] = group[m]
  BY <1>1 DEF MustPrecede, Earlier
<1>3. \A k \in Messages : k < n => k < m
  BY <1>2, ConsumerAssumption DEF Messages
<1>4. MustPrecede(n) \subseteq MustPrecede(m)
  BY <1>1, <1>2, <1>3 DEF MustPrecede, Earlier
<1> QED
  BY <1>2, <1>4

\* An invocation with a batch can run a handler or reply: the records of a batch
\* never wait for each other in a circle.
LEMMA InvocationGoesOn ==
  ASSUME TypeOK, NEW w \in Workers, Batch(w) # {}, ~CanReply(w)
  PROVE  CanSettle
<1> DEFINE Free == {m \in Batch(w) : verdict[m] = "open" /\ \A n \in MustPrecede(m) : verdict[n] # "failed"}
<1>1. Free # {} /\ Free \in SUBSET Messages
  BY DEF CanReply, Batch
<1>2. PICK m \in Free : \A n \in Free : ~(n < m)
  <2> HIDE DEF Free
  <2> QED
    BY <1>1, EarliestExists
<1>3. m \in Messages /\ place[m] = w /\ verdict[m] = "open"
  BY DEF Batch
<1>4. ASSUME NEW n \in MustPrecede(m) PROVE verdict[n] = "processed"
  <2>1. /\ n \in Messages /\ n < m /\ place[n] = w
        /\ MustPrecede(n) \subseteq MustPrecede(m)
    <3>1. place[n] = place[m]
      BY <1>4, ConsumerAssumption DEF TypeOK, MustPrecede, Earlier
    <3> QED
      BY <1>3, <1>4, <3>1, WaitsTransitively
  <2>2. verdict[n] \in {"open", "processed", "failed"}
    BY <2>1 DEF TypeOK
  <2>3. verdict[n] # "failed"
    BY <1>4
  <2>4. n \notin Free
    BY <1>2, <2>1
  <2>5. n \in Batch(w)
    BY <2>1 DEF Batch
  <2> QED
    BY <2>1, <2>2, <2>3, <2>4, <2>5
<1> QED
  BY <1>3, <1>4 DEF CanSettle

\* While a message is left, SQS can hand one out or dead-letter it, or an
\* invocation can go on: groups in flight, blocked tails and used-up deliveries
\* never wait for each other.
THEOREM NeverStuck ==
  ASSUME Workers # {}
  PROVE  Spec => []CanGoOn
<1>1. IInv => CanGoOn
  <2> SUFFICES ASSUME IInv, \E m \in Messages : Remaining(m)
               PROVE  CanReceive \/ CanDeadLetter \/ CanSettle \/ \E w \in Workers : CanReply(w)
    BY DEF CanGoOn
  <2>1. CASE \E w \in Workers : Batch(w) # {}
    BY <2>1, InvocationGoesOn DEF IInv
  <2>2. CASE \A w \in Workers : Batch(w) = {}
    <3>1. PICK m \in {k \in Messages : Remaining(k)} :
            \A n \in {k \in Messages : Remaining(k)} : ~(n < m)
      BY EarliestExists
    <3>2. \A n \in Messages : place[n] \in Ends
      BY <2>2 DEF Batch, IInv, TypeOK
    <3>3. place[m] = "queued" /\ receives[m] \in 0..MaxReceive
      BY <3>1, <3>2 DEF IInv, TypeOK, Remaining, Ends
    <3>4. InOrder({m})
      BY <3>1, <3>2, ConsumerAssumption DEF InOrder
    <3>5. receives[m] < MaxReceive \/ receives[m] = MaxReceive
      BY <3>3, ConsumerAssumption
    <3> QED
      BY <2>2, <3>3, <3>4, <3>5 DEF CanReceive, CanDeadLetter
  <2> QED
    BY <2>1, <2>2
<1> QED
  BY <1>1, Inductive, PTL

-----------------------------------------------------------------------------
(* An invocation keeps the contract of the engine.                         *)

\* The invocation of worker w that has not answered, in the terms of the contract.
Engine(w) == INSTANCE BatchContract WITH
  MaxBatch <- N,
  ident <- [m \in Batch(w) |-> m],
  before <- [m \in Batch(w) |-> MustPrecede(m)],
  settled <- [m \in Batch(w) |-> verdict[m]],
  response <- [kind |-> "none", ids |-> {}]

\* It begins with records that nobody has tried.
Begins(w) == Batch(w) = {} /\ \A m \in Batch(w)' : verdict'[m] = "open"

\* It answers when the contract allows it, and SQS does what the answer says.
Answers(w) ==
  /\ Engine(w)!CanReply
  /\ IF app.partial \/ Engine(w)!Unprocessed = {}
     THEN \A m \in Batch(w) :
            place'[m] = IF m \in Engine(w)!Unprocessed THEN "queued" ELSE "deleted"
     ELSE \A m \in Batch(w) : place'[m] = "queued"

\* It fails as a whole, which the contract allows at any time.
Refuses(w) == \A m \in Batch(w) : place'[m] = "queued"

EngineStep(w) ==
  \/ Begins(w)
  \/ \E m \in Batch(w), v \in {"processed", "failed"} : Engine(w)!Settle(m, v)
  \/ UNCHANGED Engine(w)!cvars
  \/ Batch(w)' = {} /\ (Answers(w) \/ Refuses(w))

\* The records the contract speaks of are those of the batch.
LEMMA EngineRecords ==
  ASSUME TypeOK, NEW w \in Workers
  PROVE  /\ Engine(w)!Records = Batch(w)
         /\ Engine(w)!Unprocessed = Unprocessed(w)
         /\ \A m \in Batch(w) : m \in Messages /\ place[m] = w /\ MustPrecede(m) \subseteq Batch(w)
<1>1. Engine(w)!Records = Batch(w)
  BY DEF Engine!Records
<1>2. Engine(w)!Unprocessed = Unprocessed(w)
  BY <1>1 DEF Engine!Unprocessed, Unprocessed
<1>3. \A m \in Batch(w) : m \in Messages /\ place[m] = w
  BY DEF Batch
<1>4. app.mode \in {"standard", "isolate", "halt"}
  BY ConsumerAssumption DEF TypeOK
<1>5. \A m \in Batch(w) : MustPrecede(m) \subseteq Batch(w)
  BY <1>3, <1>4 DEF MustPrecede, Batch, Earlier
<1> QED
  BY <1>1, <1>2, <1>3, <1>5

\* The model's reply, which waits for a failure, comes exactly when the contract's
\* does, which waits for a record that was not processed: the first of those that
\* hold a record back has failed.
LEMMA SameReply ==
  ASSUME TypeOK, NEW w \in Workers, Batch(w) # {}
  PROVE  CanReply(w) <=> Engine(w)!CanReply
<1>1. Engine(w)!CanReply <=>
        \A m \in Batch(w) :
          verdict[m] = "open" => \E n \in MustPrecede(m) : verdict[n] # "processed"
  <2>1. \A m \in Batch(w) : MustPrecede(m) \subseteq Batch(w)
    BY EngineRecords
  <2>2. Engine(w)!Records = Batch(w)
    BY EngineRecords
  <2>3. Engine(w)!CanReply <=>
          \A m \in Batch(w) :
            [k \in Batch(w) |-> verdict[k]][m] = "open" =>
              \E n \in [k \in Batch(w) |-> MustPrecede(k)][m] :
                [k \in Batch(w) |-> verdict[k]][n] # "processed"
    BY <2>2 DEF Engine!CanReply, Engine!Pending
  <2> QED
    BY <2>1, <2>3
<1>2. ASSUME \A m \in Batch(w) :
               verdict[m] = "open" => \E n \in MustPrecede(m) : verdict[n] # "processed",
             NEW m \in Batch(w), verdict[m] = "open"
      PROVE  \E n \in MustPrecede(m) : verdict[n] = "failed"
  <2> DEFINE Back == {n \in MustPrecede(m) : verdict[n] # "processed"}
  <2>1. m \in Messages /\ MustPrecede(m) \subseteq Batch(w)
    BY EngineRecords
  <2>2. Back # {} /\ Back \in SUBSET Messages
    BY <1>2, <2>1 DEF Batch
  <2>3. PICK n \in Back : \A k \in Back : ~(k < n)
    <3> HIDE DEF Back
    <3> QED
      BY <2>2, EarliestExists
  <2>4. n \in Messages /\ n \in Batch(w) /\ MustPrecede(n) \subseteq MustPrecede(m)
    BY <2>1, WaitsTransitively
  <2>5. \A k \in MustPrecede(n) : k < n
    BY <2>4, WaitsTransitively
  <2>6. verdict[n] # "open"
    BY <1>2, <2>3, <2>4, <2>5
  <2> QED
    BY <2>3, <2>4, <2>6 DEF TypeOK
<1> QED
  BY <1>1, <1>2 DEF CanReply

\* A step elsewhere is none of the invocation's.
LEMMA SameInvocation ==
  ASSUME TypeOK, NEW w \in Workers, UNCHANGED <<app, group>>,
         \A m \in Messages : place'[m] = w <=> place[m] = w,
         \A m \in Batch(w) : verdict'[m] = verdict[m]
  PROVE  UNCHANGED Engine(w)!cvars
<1>1. Batch(w)' = Batch(w)
  BY DEF Batch
<1>2. \A m \in Batch(w) : place[m] = w /\ place'[m] = w
  BY DEF Batch
<1>3. \A m : Earlier(m)' = Earlier(m)
  BY DEF Earlier
<1>4. \A m \in Batch(w) : MustPrecede(m)' = MustPrecede(m)
  <2> SUFFICES ASSUME NEW m \in Batch(w) PROVE MustPrecede(m)' = MustPrecede(m)
    OBVIOUS
  <2>1. \A n \in Messages : place'[n] = place'[m] <=> place[n] = place[m]
    BY <1>2
  <2>2. {n \in Earlier(m) : place[n] = place[m]}' = {n \in Earlier(m) : place[n] = place[m]}
    BY <1>3, <2>1 DEF Earlier
  <2>3. {n \in Messages : n < m /\ place[n] = place[m]}' = {n \in Messages : n < m /\ place[n] = place[m]}
    BY <2>1
  <2> QED
    BY <2>2, <2>3 DEF MustPrecede
<1> QED
  BY <1>1, <1>4 DEF Engine!cvars

\* Every step of the system is, for every invocation, a step of the contract of
\* the engine, or none: messages are tried in the contract's order, what SQS
\* deletes and what it makes visible again is what the contract's reply says, and
\* whatever other invocations do meanwhile does not show.
THEOREM InvocationsKeepContract == Spec => [][\A w \in Workers : EngineStep(w)]_vars
<1>1. IInv /\ [Next]_vars => \A w \in Workers : EngineStep(w)
  <2> SUFFICES ASSUME IInv, [Next]_vars, NEW w \in Workers PROVE EngineStep(w)
    OBVIOUS
  <2>1. /\ TypeOK /\ w \notin Ends /\ UNCHANGED <<app, group>>
        /\ place \in [Messages -> Ends \cup Workers]
        /\ verdict \in [Messages -> {"open", "processed", "failed"}]
        /\ "queued" \in Ends /\ "deleted" \in Ends
    BY ConsumerAssumption, FixedNext DEF IInv, TypeOK, Ends
  <2>2. ASSUME NEW u \in Workers, NEW B \in SUBSET Messages, Receive(u, B) PROVE EngineStep(w)
    <3>1. /\ \A m \in Messages : place'[m] = IF m \in B THEN u ELSE place[m]
          /\ \A m \in B : place[m] = "queued"
          /\ verdict' = verdict
      BY <2>2 DEF Receive
    <3>2. CASE u = w
      <4>1. Batch(w) = {} /\ Batch(w)' \subseteq B
        BY <2>2, <3>1, <3>2 DEF Receive, Batch
      <4>2. \A m \in B : verdict'[m] = "open"
        BY <2>1, <3>1, ConsumerAssumption DEF IInv, VerdictInv
      <4> QED
        BY <4>1, <4>2 DEF EngineStep, Begins
    <3>3. CASE u # w
      <4>1. \A m \in Messages : place'[m] = w <=> place[m] = w
        BY <2>1, <3>1, <3>3
      <4> QED
        BY <2>1, <3>1, <4>1, SameInvocation DEF EngineStep
    <3> QED
      BY <3>2, <3>3
  <2>3. ASSUME NEW d \in Messages, DeadLetter(d) PROVE EngineStep(w)
    <3>1. \A m \in Messages : place'[m] = w <=> place[m] = w
      BY <2>1, <2>3 DEF DeadLetter, Ends
    <3> QED
      BY <2>1, <2>3, <3>1, SameInvocation DEF EngineStep, DeadLetter
  <2>4. ASSUME NEW d \in Messages, NEW v \in {"processed", "failed"}, Settle(d, v)
        PROVE  EngineStep(w)
    <3>1. /\ place' = place /\ verdict[d] = "open"
          /\ \A n \in MustPrecede(d) : verdict[n] = "processed"
          /\ verdict' = [verdict EXCEPT ![d] = v]
      BY <2>4 DEF Settle
    <3>2. CASE place[d] = w
      <4>1. d \in Batch(w) /\ Batch(w)' = Batch(w) /\ MustPrecede(d) \subseteq Batch(w)
        BY <2>1, <3>1, <3>2, EngineRecords DEF Batch
      <4>2. \A m : MustPrecede(m)' = MustPrecede(m)
        BY <2>1, <3>1 DEF MustPrecede, Earlier
      <4>3. [m \in Batch(w) |-> verdict[m]]' = [[m \in Batch(w) |-> verdict[m]] EXCEPT ![d] = v]
        BY <2>1, <3>1, <4>1 DEF Batch
      <4>4. Engine(w)!Settle(d, v)
        BY <3>1, <4>1, <4>2, <4>3 DEF Engine!Settle, Engine!Pending
      <4> QED
        BY <4>1, <4>4 DEF EngineStep
    <3>3. CASE place[d] # w
      <4>1. \A m \in Batch(w) : verdict'[m] = verdict[m]
        BY <2>1, <3>1, <3>3 DEF Batch
      <4> QED
        BY <2>1, <3>1, <4>1, SameInvocation DEF EngineStep
    <3> QED
      BY <3>2, <3>3
  <2>5. ASSUME NEW u \in Workers, Reply(u) PROVE EngineStep(w)
    <3> DEFINE back == IF app.partial \/ Unprocessed(u) = {} THEN Unprocessed(u) ELSE Batch(u)
    <3>1. /\ CanReply(u)
          /\ \A m \in Messages : place'[m] = IF place[m] # u THEN place[m]
                                             ELSE IF m \in back THEN "queued" ELSE "deleted"
          /\ \A m \in Messages : place[m] # u => verdict'[m] = verdict[m]
      BY <2>5 DEF Reply, Clear
    <3>2. CASE u = w
      <4>1. Batch(w)' = {}
        BY <2>1, <3>1, <3>2 DEF Batch
      <4>2. \A m \in Batch(w) : place'[m] = IF m \in back THEN "queued" ELSE "deleted"
        BY <3>1, <3>2 DEF Batch
      <4>3. Engine(w)!CanReply
        <5>1. ASSUME NEW m \in Batch(w), verdict[m] = "open"
              PROVE  \E n \in MustPrecede(m) : n \in Batch(w) /\ verdict[n] # "processed"
          BY <2>1, <3>1, <3>2, <5>1, EngineRecords DEF CanReply
        <5> QED
          BY <2>1, <5>1, EngineRecords DEF Engine!CanReply, Engine!Pending
      <4>4. Answers(w)
        BY <2>1, <3>2, <4>2, <4>3, EngineRecords DEF Answers, Unprocessed
      <4> QED
        BY <4>1, <4>4 DEF EngineStep
    <3>3. CASE u # w
      <4>1. \A m \in Messages : place'[m] = w <=> place[m] = w
        BY <2>1, <3>1, <3>3
      <4>2. \A m \in Batch(w) : verdict'[m] = verdict[m]
        BY <3>1, <3>3 DEF Batch
      <4> QED
        BY <2>1, <4>1, <4>2, SameInvocation DEF EngineStep
    <3> QED
      BY <3>2, <3>3
  <2>6. ASSUME NEW u \in Workers, Kill(u) PROVE EngineStep(w)
    <3>1. /\ \A m \in Messages : place'[m] = IF place[m] = u THEN "queued" ELSE place[m]
          /\ \A m \in Messages : place[m] # u => verdict'[m] = verdict[m]
      BY <2>6 DEF Kill, Clear
    <3>2. CASE u = w
      BY <2>1, <3>1, <3>2 DEF EngineStep, Refuses, Batch
    <3>3. CASE u # w
      <4>1. \A m \in Messages : place'[m] = w <=> place[m] = w
        BY <2>1, <3>1, <3>3
      <4>2. \A m \in Batch(w) : verdict'[m] = verdict[m]
        BY <3>1, <3>3 DEF Batch
      <4> QED
        BY <2>1, <4>1, <4>2, SameInvocation DEF EngineStep
    <3> QED
      BY <3>2, <3>3
  <2>7. CASE UNCHANGED vars
    <3>1. place' = place /\ verdict' = verdict
      BY <2>7 DEF vars
    <3> QED
      BY <2>1, <3>1, SameInvocation DEF EngineStep
  <2> QED
    BY <2>2, <2>3, <2>4, <2>5, <2>6, <2>7 DEF Next, SqsNext, Invocation, Batch, Empty
<1> QED
  BY <1>1, Inductive, PTL DEF Spec

\* No invocation keeps a batch the contract would let it answer, and none answers
\* early: waiting for a failure is waiting for a record that was not processed.
THEOREM InvocationsAnswerInTime ==
  Spec => [](\A w \in Workers : Batch(w) # {} => (CanReply(w) <=> Engine(w)!CanReply))
<1>1. IInv => \A w \in Workers : Batch(w) # {} => (CanReply(w) <=> Engine(w)!CanReply)
  BY SameReply DEF IInv
<1> QED
  BY <1>1, Inductive, PTL
=============================================================================
