------------------------- MODULE Idempotency_proofs -------------------------
(***************************************************************************)
(* Proofs about Idempotency, for any number of copies and keys and any     *)
(* ttls with InProgressTtl > RuntimeBound.                                 *)
(*                                                                         *)
(* The claims are safe because a lease outlives the invocation that took   *)
(* it: LeaseInv.  That gives exclusivity (a live entry cannot be acquired) *)
(* and keeps a late forget away from another delivery's completion, which  *)
(* is what WindowInv needs: a completion and its window end together.      *)
(***************************************************************************)
EXTENDS Idempotency, TLAPS

-----------------------------------------------------------------------------
(* The inductive invariant.                                                *)

\* Whoever holds a key holds a lease that ends after its own deadline.
LeaseInv ==
  \A c \in Copies :
    Holds(c) => /\ entry[key[c]].state = "in_progress"
                /\ entry[key[c]].left > left[c]

\* A completion is in the store for its dedup window, no less and no more.
WindowInv ==
  \A k \in Keys : fresh[k] = IF entry[k].state = "completed" THEN entry[k].left ELSE 0

IInv == TypeOK /\ LeaseInv /\ ClaimExclusive /\ WindowInv

\* What the history says: a copy on its way out, like a live completion, has a
\* processed (or cancelled) copy behind it.
DoneInv ==
  /\ \A c \in Copies :
       /\ pc[c] \in {"completing", "voiding"} => c \in Ended
       /\ pc[c] \in {"acking", "deleted"} => \E d \in Ended : SameEvent(c, d)
  /\ \A k \in Keys :
       entry[k].state = "completed" /\ entry[k].left > 0 => \E d \in Ended : key[d] = k

-----------------------------------------------------------------------------
(* Type correctness.                                                       *)

LEMMA InitType == Init => TypeOK
  BY IdempotencyAssumption DEF Init, TypeOK, Entry, Place

\* A written entry is an entry.
LEMMA PutType ==
  ASSUME TypeOK, NEW k \in Keys, NEW state \in {"in_progress", "completed"},
         NEW ttl \in 0..(InProgressTtl + CompletedTtl), Put(k, state, ttl)
  PROVE  /\ entry' \in [Keys -> Entry]
         /\ entry'[k] = [state |-> state, left |-> ttl]
         /\ \A j \in Keys \ {k} : entry'[j] = entry[j]
  BY DEF Put, TypeOK, Entry

LEMMA LessBound ==
  ASSUME NEW b \in Nat, NEW n \in 0..b
  PROVE  Less(n) \in 0..b
  BY DEF Less

LEMMA TypeStep ==
  ASSUME TypeOK, [Next]_vars
  PROVE  TypeOK'
<1> USE IdempotencyAssumption
<1>0. /\ InProgressTtl \in 0..(InProgressTtl + CompletedTtl)
      /\ CompletedTtl \in 0..(InProgressTtl + CompletedTtl)
      /\ 0 \in 0..(InProgressTtl + CompletedTtl)
      /\ RuntimeBound \in 0..RuntimeBound
  OBVIOUS
<1>1. ASSUME NEW c \in Copies, Acquire(c)
      PROVE  TypeOK'
  <2>1. key[c] \in Keys
    BY <1>1 DEF Acquire, TypeOK
  <2>2. entry' \in [Keys -> Entry]
    BY <1>0, <1>1, <2>1, PutType DEF Acquire
  <2> QED
    BY <1>0, <1>1, <2>2 DEF Acquire, Goto, TypeOK, Place
<1>2. ASSUME NEW c \in Copies, SkipDuplicate(c)
      PROVE  TypeOK'
  BY <1>0, <1>2 DEF SkipDuplicate, Goto, TypeOK, Place
<1>3. ASSUME NEW c \in Copies, RunWithoutKey(c)
      PROVE  TypeOK'
  BY <1>0, <1>3 DEF RunWithoutKey, Goto, TypeOK, Place
<1>4. ASSUME NEW c \in Copies, AcquireLost(c)
      PROVE  TypeOK'
  <2>1. key[c] \in Keys
    BY <1>4 DEF AcquireLost, TypeOK
  <2>2. entry' \in [Keys -> Entry]
    BY <1>0, <1>4, <2>1, PutType DEF AcquireLost
  <2> QED
    BY <1>4, <2>2 DEF AcquireLost, Fault, TypeOK
<1>5. ASSUME NEW c \in Copies, HandlerFails(c)
      PROVE  TypeOK'
  BY <1>5 DEF HandlerFails, Fault, Goto, TypeOK, Place
<1>6. ASSUME NEW c \in Copies, HandlerOk(c)
      PROVE  TypeOK'
  BY <1>6 DEF HandlerOk, Goto, TypeOK, Place
<1>7. ASSUME NEW c \in Copies, HandlerCancelled(c)
      PROVE  TypeOK'
  BY <1>7 DEF HandlerCancelled, Fault, Goto, TypeOK, Place
<1>8. ASSUME NEW c \in Copies, MarkComplete(c)
      PROVE  TypeOK'
  <2>1. entry' \in [Keys -> Entry] /\ fresh' \in [Keys -> 0..CompletedTtl]
    <3>1. CASE key[c] = NoKey
      BY <1>8, <3>1 DEF MarkComplete, TypeOK
    <3>2. CASE key[c] # NoKey
      <4>1. key[c] \in Keys
        BY <3>2 DEF TypeOK
      <4>2. entry' \in [Keys -> Entry]
        BY <1>0, <1>8, <3>2, <4>1, PutType DEF MarkComplete
      <4>3. CompletedTtl \in 0..CompletedTtl
        OBVIOUS
      <4>4. fresh' = [fresh EXCEPT ![key[c]] = CompletedTtl]
        BY <1>8, <3>2 DEF MarkComplete
      <4>5. fresh \in [Keys -> 0..CompletedTtl]
        BY DEF TypeOK
      <4> QED
        BY <4>2, <4>3, <4>4, <4>5
    <3> QED
      BY <3>1, <3>2
  <2>2. pc' \in [Copies -> Place]
    BY <1>8 DEF MarkComplete, AfterComplete, Goto, TypeOK, Place
  <2> QED
    BY <1>8, <2>1, <2>2 DEF MarkComplete, TypeOK
<1>9. ASSUME NEW c \in Copies, Forget(c)
      PROVE  TypeOK'
  <2>1. entry' \in [Keys -> Entry]
    <3>1. CASE key[c] = NoKey
      BY <1>9, <3>1 DEF Forget, TypeOK
    <3>2. CASE key[c] # NoKey
      <4>1. key[c] \in Keys
        BY <3>2 DEF TypeOK
      <4> QED
        BY <1>0, <1>9, <3>2, <4>1, PutType DEF Forget
    <3> QED
      BY <3>1, <3>2
  <2> QED
    BY <1>9, <2>1 DEF Forget, Goto, TypeOK, Place
<1>10. ASSUME NEW c \in Copies, AfterLost(c)
       PROVE  TypeOK'
  BY <1>10 DEF AfterLost, AfterComplete, Fault, Goto, TypeOK, Place
<1>11. ASSUME NEW c \in Copies, Delete(c)
       PROVE  TypeOK'
  BY <1>11 DEF Delete, Goto, TypeOK, Place
<1>12. ASSUME NEW c \in Copies, Kill(c)
       PROVE  TypeOK'
  BY <1>12 DEF Kill, Fault, Goto, TypeOK, Place
<1>13. ASSUME Tick
       PROVE  TypeOK'
  <2>1. left' \in [Copies -> 0..RuntimeBound] /\ fresh' \in [Keys -> 0..CompletedTtl]
    BY <1>13, LessBound DEF Tick, TypeOK
  <2>2. ASSUME NEW k \in Keys
        PROVE  entry'[k] \in Entry
    <3>1. entry'[k] = [entry[k] EXCEPT !.left = Less(entry[k].left)]
      BY <1>13 DEF Tick
    <3>2. Less(entry[k].left) \in 0..(InProgressTtl + CompletedTtl)
      BY LessBound DEF TypeOK, Entry
    <3> QED
      BY <3>1, <3>2 DEF TypeOK, Entry
  <2>3. entry' \in [Keys -> Entry]
    BY <1>13, <2>2 DEF Tick
  <2> QED
    BY <1>13, <2>1, <2>3 DEF Tick, TypeOK
<1>14. ASSUME UNCHANGED vars
       PROVE  TypeOK'
  BY <1>14 DEF vars, TypeOK
<1> QED
  BY <1>1, <1>2, <1>3, <1>4, <1>5, <1>6, <1>7, <1>8, <1>9, <1>10, <1>11, <1>12, <1>13, <1>14
  DEF Next, Deliver, Process
-----------------------------------------------------------------------------
(* Leases, claims and windows.                                             *)

LEMMA InitInv == Init => IInv /\ DoneInv
<1> SUFFICES ASSUME Init PROVE IInv /\ DoneInv
  OBVIOUS
<1>1. TypeOK
  BY InitType
<1>2. LeaseInv /\ ClaimExclusive
  BY DEF Init, LeaseInv, ClaimExclusive, Holds
<1>3. WindowInv
  BY DEF Init, WindowInv
<1>4. DoneInv
  BY DEF Init, DoneInv
<1> QED
  BY <1>1, <1>2, <1>3, <1>4 DEF IInv

\* A claim is taken only on an entry that is not live, so by nobody else's.
LEMMA ClaimStep ==
  ASSUME IInv, TypeOK', NEW c \in Copies, key[c] # NoKey, ~Live(key[c]),
         Put(key[c], "in_progress", InProgressTtl),
         pc[c] = "queued",
         pc' \in {pc, [pc EXCEPT ![c] = "handler"]},
         left' \in {left, [left EXCEPT ![c] = RuntimeBound]},
         pc' # pc => left' = [left EXCEPT ![c] = RuntimeBound],
         UNCHANGED <<key, fresh>>
  PROVE  LeaseInv' /\ ClaimExclusive' /\ WindowInv'
<1> USE IdempotencyAssumption, LeaseAssumption
<1> DEFINE k == key[c]
<1>1. /\ k \in Keys
      /\ entry'[k] = [state |-> "in_progress", left |-> InProgressTtl]
      /\ \A j \in Keys \ {k} : entry'[j] = entry[j]
  BY DEF IInv, TypeOK, Put
<1>2. entry[k].left = 0 /\ fresh[k] = 0
  BY <1>1 DEF IInv, TypeOK, Entry, WindowInv, Live
<1>3. \A d \in Copies : d # c /\ Holds(d)' => Holds(d) /\ key[d] # k /\ left'[d] = left[d]
  BY <1>1, <1>2 DEF IInv, TypeOK, LeaseInv, Holds
<1>4. Holds(c)' => left'[c] = RuntimeBound
  BY DEF IInv, TypeOK, Holds
<1>5. LeaseInv'
  BY <1>1, <1>3, <1>4 DEF IInv, TypeOK, LeaseInv, Holds
<1>6. ClaimExclusive'
  BY <1>3 DEF IInv, ClaimExclusive, Holds
<1>7. WindowInv'
  BY <1>1, <1>2 DEF IInv, WindowInv, TypeOK
<1> QED
  BY <1>5, <1>6, <1>7

\* A step that leaves the store alone and gives nobody a claim.
LEMMA QuietStep ==
  ASSUME IInv, NEW c \in Copies, UNCHANGED <<key, entry, fresh>>,
         Holds(c)' => Holds(c) /\ left'[c] = left[c],
         \A d \in Copies \ {c} : (Holds(d)' <=> Holds(d)) /\ left'[d] = left[d]
  PROVE  LeaseInv' /\ ClaimExclusive' /\ WindowInv'
<1>1. \A d \in Copies : Holds(d)' => Holds(d) /\ left'[d] = left[d]
  OBVIOUS
<1>2. LeaseInv'
  BY <1>1 DEF IInv, LeaseInv
<1>3. ClaimExclusive'
  BY <1>1 DEF IInv, ClaimExclusive
<1>4. WindowInv'
  BY DEF IInv, WindowInv
<1> QED
  BY <1>2, <1>3, <1>4

\* The holder of a key writes its entry and lets go.
LEMMA ReleaseStep ==
  ASSUME IInv, NEW c \in Copies, Holds(c), ~Holds(c)',
         NEW ttl \in Nat, Put(key[c], "completed", ttl),
         UNCHANGED <<key, left>>,
         fresh' = [fresh EXCEPT ![key[c]] = ttl],
         \A d \in Copies \ {c} : Holds(d)' <=> Holds(d)
  PROVE  LeaseInv' /\ ClaimExclusive' /\ WindowInv'
<1> DEFINE k == key[c]
<1>1. /\ k \in Keys
      /\ entry'[k] = [state |-> "completed", left |-> ttl]
      /\ \A j \in Keys \ {k} : entry'[j] = entry[j]
  BY DEF IInv, TypeOK, Put, Holds
<1>2. /\ fresh'[k] = ttl
      /\ \A j \in Keys \ {k} : fresh'[j] = fresh[j]
  BY <1>1 DEF IInv, TypeOK
<1>3. \A d \in Copies : Holds(d)' => Holds(d) /\ key[d] \in Keys \ {k}
  BY DEF IInv, ClaimExclusive, TypeOK, Holds
<1>4. LeaseInv'
  BY <1>1, <1>3 DEF IInv, LeaseInv
<1>5. ClaimExclusive'
  BY <1>3 DEF IInv, ClaimExclusive
<1>6. WindowInv'
  BY <1>1, <1>2 DEF IInv, WindowInv
<1> QED
  BY <1>4, <1>5, <1>6

\* Ageing: a live lease loses a tick together with its holder's deadline.
LEMMA TickStep ==
  ASSUME IInv, Tick
  PROVE  LeaseInv' /\ ClaimExclusive' /\ WindowInv'
<1> USE IdempotencyAssumption
<1>1. \A d \in Copies : Holds(d)' <=> Holds(d)
  BY DEF Tick, Holds
<1>2. \A j \in Keys : /\ entry'[j].state = entry[j].state
                      /\ entry'[j].left = Less(entry[j].left)
                      /\ fresh'[j] = Less(fresh[j])
  BY DEF Tick, IInv, TypeOK, Entry
<1>3. \A d \in Copies : Holds(d) => key[d] \in Keys /\ left[d] > 0 /\ left'[d] = left[d] - 1
  BY DEF Tick, Holds, InFlight, IInv, TypeOK, Less
<1>4. \A j \in Keys : entry[j].left \in Nat /\ fresh[j] \in Nat
  BY DEF IInv, TypeOK, Entry
<1>5. LeaseInv'
  <2> SUFFICES ASSUME NEW d \in Copies, Holds(d)
               PROVE  /\ entry'[key[d]].state = "in_progress"
                      /\ entry'[key[d]].left > left'[d]
    BY <1>1 DEF LeaseInv, Tick
  <2>1. entry[key[d]].state = "in_progress" /\ entry[key[d]].left > left[d]
    BY DEF IInv, LeaseInv
  <2>2. left[d] \in Nat
    BY DEF IInv, TypeOK
  <2> QED
    BY <1>2, <1>3, <1>4, <2>1, <2>2 DEF Less
<1>6. ClaimExclusive'
  BY <1>1 DEF IInv, ClaimExclusive, Tick
<1>7. WindowInv'
  BY <1>2, <1>4 DEF IInv, WindowInv, Less
<1> QED
  BY <1>5, <1>6, <1>7

LEMMA InvStep ==
  ASSUME IInv, [Next]_vars
  PROVE  IInv'
<1> USE IdempotencyAssumption
<1>0. TypeOK'
  BY TypeStep DEF IInv
<1>1. ASSUME NEW c \in Copies, Acquire(c)
      PROVE  LeaseInv' /\ ClaimExclusive' /\ WindowInv'
  BY <1>0, <1>1, ClaimStep DEF Acquire, Goto
<1>2. ASSUME NEW c \in Copies, SkipDuplicate(c)
      PROVE  LeaseInv' /\ ClaimExclusive' /\ WindowInv'
  <2>1. /\ ~Holds(c)'
        /\ \A d \in Copies \ {c} : (Holds(d)' <=> Holds(d)) /\ left'[d] = left[d]
    BY <1>2 DEF SkipDuplicate, Goto, Holds, IInv, TypeOK
  <2> QED
    BY <1>2, <2>1, QuietStep DEF SkipDuplicate
<1>3. ASSUME NEW c \in Copies, RunWithoutKey(c)
      PROVE  LeaseInv' /\ ClaimExclusive' /\ WindowInv'
  <2>1. /\ ~Holds(c)'
        /\ \A d \in Copies \ {c} : (Holds(d)' <=> Holds(d)) /\ left'[d] = left[d]
    BY <1>3 DEF RunWithoutKey, Goto, Holds, IInv, TypeOK
  <2> QED
    BY <1>3, <2>1, QuietStep DEF RunWithoutKey
<1>4. ASSUME NEW c \in Copies, AcquireLost(c)
      PROVE  LeaseInv' /\ ClaimExclusive' /\ WindowInv'
  BY <1>0, <1>4, ClaimStep DEF AcquireLost
<1>5. ASSUME NEW c \in Copies, HandlerFails(c) \/ HandlerOk(c) \/ HandlerCancelled(c)
      PROVE  LeaseInv' /\ ClaimExclusive' /\ WindowInv'
  <2>1. /\ UNCHANGED <<key, entry, fresh, left>>
        /\ Holds(c)' => Holds(c)
        /\ \A d \in Copies \ {c} : Holds(d)' <=> Holds(d)
    BY <1>5 DEF HandlerFails, HandlerOk, HandlerCancelled, Goto, Holds, IInv, TypeOK
  <2> QED
    BY <2>1, QuietStep
<1>6. ASSUME NEW c \in Copies, MarkComplete(c)
      PROVE  LeaseInv' /\ ClaimExclusive' /\ WindowInv'
  <2>1. /\ UNCHANGED <<key, left>>
        /\ ~Holds(c)'
        /\ \A d \in Copies \ {c} : Holds(d)' <=> Holds(d)
    BY <1>6 DEF MarkComplete, AfterComplete, Goto, Holds, IInv, TypeOK
  <2>2. CASE key[c] = NoKey
    <3>1. UNCHANGED <<entry, fresh>>
      BY <1>6, <2>2 DEF MarkComplete
    <3> QED
      BY <2>1, <3>1, QuietStep
  <2>3. CASE key[c] # NoKey
    <3>1. /\ Put(key[c], "completed", CompletedTtl)
          /\ fresh' = [fresh EXCEPT ![key[c]] = CompletedTtl]
      BY <1>6, <2>3 DEF MarkComplete
    <3>2. Holds(c)
      BY <1>6, <2>3 DEF MarkComplete, Holds
    <3> QED
      BY <2>1, <3>1, <3>2, ReleaseStep
  <2> QED
    BY <2>2, <2>3
<1>7. ASSUME NEW c \in Copies, Forget(c)
      PROVE  LeaseInv' /\ ClaimExclusive' /\ WindowInv'
  <2>1. /\ UNCHANGED <<key, left, fresh>>
        /\ ~Holds(c)'
        /\ \A d \in Copies \ {c} : Holds(d)' <=> Holds(d)
    BY <1>7 DEF Forget, Goto, Holds, IInv, TypeOK
  <2>2. CASE key[c] = NoKey
    <3>1. UNCHANGED entry
      BY <1>7, <2>2 DEF Forget
    <3> QED
      BY <2>1, <3>1, QuietStep
  <2>3. CASE key[c] # NoKey
    <3>1. Put(key[c], "completed", 0) /\ Holds(c)
      BY <1>7, <2>3 DEF Forget, Holds
    <3>2. fresh[key[c]] = 0
      BY <2>3, <3>1 DEF IInv, LeaseInv, WindowInv, TypeOK
    <3>3. 0 \in Nat /\ fresh' = [fresh EXCEPT ![key[c]] = 0]
      BY <2>1, <3>2 DEF IInv, TypeOK
    <3> QED
      BY <2>1, <3>1, <3>3, ReleaseStep
  <2> QED
    BY <2>2, <2>3
<1>8. ASSUME NEW c \in Copies, AfterLost(c) \/ Delete(c) \/ Kill(c)
      PROVE  LeaseInv' /\ ClaimExclusive' /\ WindowInv'
  <2>1. /\ UNCHANGED <<key, entry, fresh, left>>
        /\ ~Holds(c)'
        /\ \A d \in Copies \ {c} : Holds(d)' <=> Holds(d)
    BY <1>8 DEF AfterLost, AfterComplete, Delete, Kill, Goto, Holds, IInv, TypeOK
  <2> QED
    BY <2>1, QuietStep
<1>9. ASSUME UNCHANGED vars
      PROVE  LeaseInv' /\ ClaimExclusive' /\ WindowInv'
  BY <1>9 DEF vars, IInv, LeaseInv, ClaimExclusive, WindowInv, Holds
<1> QED
  BY <1>0, <1>1, <1>2, <1>3, <1>4, <1>5, <1>6, <1>7, <1>8, <1>9, TickStep
  DEF Next, Deliver, Process, IInv

-----------------------------------------------------------------------------
(* What the ghost done says.                                               *)

LEMMA DoneStep ==
  ASSUME IInv, DoneInv, [Next]_vars
  PROVE  DoneInv'
<1> USE IdempotencyAssumption
<1>0. TypeOK'
  BY TypeStep DEF IInv
<1>1. UNCHANGED key /\ Ended \subseteq Ended'
  BY DEF Next, Deliver, Process, vars, Acquire, SkipDuplicate, RunWithoutKey, AcquireLost,
         HandlerFails, HandlerOk, HandlerCancelled, MarkComplete, Forget, AfterLost, Delete,
         Kill, Tick, Ended
<1>2. ASSUME NEW c \in Copies
      PROVE  /\ pc'[c] \in {"completing", "voiding"} => c \in Ended'
             /\ pc'[c] \in {"acking", "deleted"} => \E d \in Ended' : SameEvent(c, d)'
  <2>1. \A d \in Ended' : SameEvent(c, d)' <=> SameEvent(c, d)
    BY <1>1 DEF SameEvent
  <2>2. CASE pc'[c] = pc[c]
    BY <1>1, <2>1, <2>2 DEF DoneInv
  <2>3. CASE pc'[c] # pc[c]
    <3>1. \/ Deliver(c) \/ Process(c) \/ AfterLost(c) \/ Kill(c)
      BY <2>3 DEF Next, Deliver, Process, vars, Acquire, SkipDuplicate, RunWithoutKey,
                  AcquireLost, HandlerFails, HandlerOk, HandlerCancelled, MarkComplete,
                  Forget, AfterLost, Delete, Kill, Tick, Goto, IInv, TypeOK
    <3>2. CASE SkipDuplicate(c)
      <4>1. pc'[c] = "acking"
        BY <3>2 DEF SkipDuplicate, Goto, IInv, TypeOK
      <4>2. key[c] \in Keys /\ entry[key[c]].state = "completed" /\ entry[key[c]].left > 0
        BY <3>2 DEF SkipDuplicate, Live, IInv, TypeOK
      <4>3. \E d \in Ended : key[d] = key[c]
        BY <4>2 DEF DoneInv
      <4>4. \E d \in Ended : SameEvent(c, d)
        BY <3>2, <4>3 DEF SameEvent, SkipDuplicate
      <4> QED
        BY <1>1, <2>1, <4>1, <4>4
    <3>3. CASE HandlerOk(c) \/ HandlerCancelled(c)
      BY <3>3 DEF HandlerOk, HandlerCancelled, Goto, IInv, TypeOK, Ended
    <3>4. CASE MarkComplete(c) \/ AfterLost(c)
      <4>1. (pc[c] \in {"completing", "voiding"} /\ pc'[c] = "acking") \/ pc'[c] = "queued"
        BY <3>4 DEF MarkComplete, AfterLost, AfterComplete, Goto, IInv, TypeOK, DoneInv
      <4>2. c \in Ended => \E d \in Ended : SameEvent(c, d)
        BY DEF SameEvent
      <4> QED
        BY <1>1, <2>1, <4>1, <4>2 DEF DoneInv
    <3>5. CASE Delete(c)
      BY <1>1, <2>1, <3>5 DEF Delete, Goto, IInv, TypeOK, DoneInv
    <3>6. CASE Acquire(c) \/ RunWithoutKey(c) \/ HandlerFails(c) \/ Forget(c) \/ Kill(c)
      BY <3>6 DEF Acquire, RunWithoutKey, HandlerFails, Forget, Kill, Goto, IInv, TypeOK
    <3> QED
      BY <3>1, <3>2, <3>3, <3>4, <3>5, <3>6 DEF Deliver, Process
  <2> QED
    BY <2>2, <2>3
<1>3. ASSUME NEW k \in Keys, entry'[k].state = "completed", entry'[k].left > 0
      PROVE  \E d \in Ended' : key'[d] = k
  <2>1. CASE entry[k].state = "completed" /\ entry[k].left > 0
    BY <1>1, <2>1 DEF DoneInv
  <2>2. CASE ~(entry[k].state = "completed" /\ entry[k].left > 0)
    <3>1. ~Tick
      BY <1>3, <2>2 DEF Tick, Less, IInv, TypeOK, Entry
    <3>2. entry' # entry
      BY <1>3, <2>2
    <3>3. PICK c \in Copies : Acquire(c) \/ AcquireLost(c) \/ MarkComplete(c) \/ Forget(c)
      BY <3>1, <3>2 DEF Next, Deliver, Process, vars, SkipDuplicate, RunWithoutKey, HandlerFails,
                        HandlerOk, HandlerCancelled, AfterLost, Delete, Kill
    <3>4. CASE Acquire(c) \/ AcquireLost(c) \/ Forget(c)
      BY <1>3, <2>2, <3>4 DEF Acquire, AcquireLost, Forget, Put, IInv, TypeOK
    <3>5. CASE MarkComplete(c)
      <4>1. key[c] = k /\ pc[c] \in {"completing", "voiding"}
        BY <1>3, <2>2, <3>5 DEF MarkComplete, Put, IInv, TypeOK, DoneInv
      <4> QED
        BY <1>1, <4>1 DEF DoneInv
    <3> QED
      BY <3>3, <3>4, <3>5
  <2> QED
    BY <2>1, <2>2
<1> QED
  BY <1>2, <1>3 DEF DoneInv

-----------------------------------------------------------------------------
(* Theorems.                                                               *)

\* The inductive invariant holds for every number of copies, keys and ticks.
THEOREM Inductive == Spec => []IInv
<1>1. Init => IInv
  BY InitInv
<1>2. IInv /\ [Next]_vars => IInv'
  BY InvStep
<1> QED
  BY <1>1, <1>2, PTL DEF Spec

\* The state keeps its shape.
THEOREM TypeCorrect == Spec => []TypeOK
<1>1. IInv => TypeOK
  BY DEF IInv
<1> QED
  BY <1>1, Inductive, PTL

\* Two deliveries never hold one key, whatever is killed, cancelled or lost.
THEOREM ClaimsAreExclusive == Spec => []ClaimExclusive
<1>1. IInv => ClaimExclusive
  BY DEF IInv
<1> QED
  BY <1>1, Inductive, PTL

\* Inside a dedup window no handler starts on the key.
THEOREM HandledOncePerWindow == Spec => OncePerWindow
<1>1. IInv /\ [Next]_vars =>
        [\A c \in Copies :
           pc[c] = "queued" /\ pc'[c] = "handler" /\ key[c] # NoKey => fresh[key[c]] = 0]_vars
  <2> SUFFICES ASSUME IInv, Next, NEW c \in Copies,
                      pc[c] = "queued", pc'[c] = "handler", key[c] # NoKey
               PROVE  fresh[key[c]] = 0
    OBVIOUS
  <2>1. Acquire(c)
    BY DEF Next, Deliver, Process, Acquire, SkipDuplicate, RunWithoutKey, AcquireLost,
           HandlerFails, HandlerOk, HandlerCancelled, MarkComplete, Forget, AfterLost, Delete,
           Kill, Tick, Goto, AfterComplete, IInv, TypeOK
  <2>2. key[c] \in Keys /\ entry[key[c]].left = 0
    BY <2>1 DEF Acquire, Live, IInv, TypeOK, Entry
  <2>3. fresh[key[c]] \in Nat
    BY <2>2 DEF IInv, TypeOK
  <2> QED
    BY <2>2, <2>3 DEF IInv, WindowInv
<1> QED
  BY <1>1, Inductive, PTL DEF Spec, OncePerWindow

\* Nothing is skipped outside the dedup window of a completion: no duplicate, late
\* call or abandoned claim prolongs it.
THEOREM SkippedOnlyInWindow == Spec => SkipsOnlyInWindow
<1>1. IInv /\ [Next]_vars =>
        [\A c \in Copies :
           pc[c] = "queued" /\ pc'[c] = "acking" => key[c] # NoKey /\ fresh[key[c]] > 0]_vars
  <2> SUFFICES ASSUME IInv, Next, NEW c \in Copies, pc[c] = "queued", pc'[c] = "acking"
               PROVE  key[c] # NoKey /\ fresh[key[c]] > 0
    OBVIOUS
  <2>1. SkipDuplicate(c)
    BY DEF Next, Deliver, Process, Acquire, SkipDuplicate, RunWithoutKey, AcquireLost,
           HandlerFails, HandlerOk, HandlerCancelled, MarkComplete, Forget, AfterLost, Delete,
           Kill, Tick, Goto, AfterComplete, IInv, TypeOK
  <2>2. key[c] # NoKey /\ key[c] \in Keys /\ entry[key[c]].left > 0
        /\ entry[key[c]].state = "completed"
    BY <2>1 DEF SkipDuplicate, Live, IInv, TypeOK
  <2> QED
    BY <2>2 DEF IInv, WindowInv
<1> QED
  BY <1>1, Inductive, PTL DEF Spec, SkipsOnlyInWindow

\* Skipping a duplicate never loses a message, unless a handler was cancelled.
THEOREM SkippingLosesNothing == Spec => []NoLostMessage
<1>1. Init => IInv /\ DoneInv
  BY InitInv
<1>2. IInv /\ DoneInv /\ [Next]_vars => IInv' /\ DoneInv'
  BY InvStep, DoneStep
<1>3. DoneInv => NoLostMessage
  BY DEF DoneInv, NoLostMessage
<1> QED
  BY <1>1, <1>2, <1>3, PTL DEF Spec

ProcessedBeforeDeleted ==
  \A c \in Copies : pc[c] = "deleted" => \E d \in done : SameEvent(c, d)

NoneVoided == voided = {}

\* With handlers that end by returning or raising an Exception, a deleted copy
\* or a duplicate of it was processed, without exception.
THEOREM ReliableHandlersLoseNothing ==
  ASSUME "cancelled" \notin HandlerOutcomes
  PROVE  Spec => []ProcessedBeforeDeleted
<1>1. Init => NoneVoided
  BY DEF Init, NoneVoided
<1>2. NoneVoided /\ [Next]_vars => NoneVoided'
  BY DEF NoneVoided, Next, Deliver, Process, vars, Acquire, SkipDuplicate, RunWithoutKey, AcquireLost,
         HandlerFails, HandlerOk, HandlerCancelled, MarkComplete, Forget, AfterLost, Delete,
         Kill, Tick
<1>3. NoneVoided /\ NoLostMessage => ProcessedBeforeDeleted
  BY DEF NoneVoided, NoLostMessage, Ended, ProcessedBeforeDeleted
<1> QED
  BY <1>1, <1>2, <1>3, SkippingLosesNothing, PTL DEF Spec

-----------------------------------------------------------------------------
(* What EventuallyDeleted rests on besides its fairness.                   *)

\* The steps a copy has before it when nothing fails any more.
Rank(c) ==
  CASE pc[c] \in {"voiding", "releasing"} -> 5
    [] pc[c] = "queued"                   -> 4
    [] pc[c] = "handler"                  -> 3
    [] pc[c] = "completing"               -> 2
    [] pc[c] = "acking"                   -> 1
    [] pc[c] = "deleted"                  -> 0

Advances(c) ==
  /\ Rank(c)' < Rank(c)
  /\ faults' = faults
  /\ \A d \in Copies \ {c} : pc'[d] = pc[d]

\* A key that is locked although no delivery works on it: its worker died, or
\* its try_acquire or its forget was lost.
Abandoned(k) ==
  /\ Live(k) /\ entry[k].state = "in_progress"
  /\ \A c \in Copies : key[c] = k => ~Holds(c)

\* A step is a tick, one more fault, or brings one copy nearer to its deletion:
\* once faults stop, at most five steps of each copy are left besides the ticks.
THEOREM EveryStepAdvances ==
  Spec => [][Tick \/ faults' = faults + 1 \/ \E c \in Copies : Advances(c)]_vars
<1>1. TypeOK /\ Next => Tick \/ faults' = faults + 1 \/ \E c \in Copies : Advances(c)
  <2> SUFFICES ASSUME TypeOK, NEW c \in Copies,
                      Deliver(c) \/ AcquireLost(c) \/ Process(c) \/ AfterLost(c) \/ Kill(c)
               PROVE  faults' = faults + 1 \/ Advances(c)
    BY DEF Next
  <2>1. pc \in [Copies -> Place] /\ pc[c] \in Place
    BY DEF TypeOK
  <2>2. ASSUME NEW place \in Place, Goto(c, place), faults' = faults,
               \/ pc[c] \in {"voiding", "releasing"} /\ place \in {"queued", "acking"}
               \/ pc[c] = "queued" /\ place \in {"handler", "acking"}
               \/ pc[c] = "handler" /\ place = "completing"
               \/ pc[c] = "completing" /\ place = "acking"
               \/ pc[c] = "acking" /\ place = "deleted"
        PROVE  Advances(c)
    <3>1. pc'[c] = place /\ \A d \in Copies \ {c} : pc'[d] = pc[d]
      BY <2>1, <2>2 DEF Goto
    <3> QED
      BY <2>2, <3>1 DEF Advances, Rank
  <2>3. CASE Deliver(c)
    BY <2>2, <2>3 DEF Deliver, Acquire, SkipDuplicate, RunWithoutKey, Place
  <2>4. CASE AcquireLost(c) \/ AfterLost(c) \/ Kill(c) \/ HandlerFails(c) \/ HandlerCancelled(c)
    BY <2>4 DEF AcquireLost, AfterLost, Kill, HandlerFails, HandlerCancelled, Fault
  <2>5. CASE HandlerOk(c)
    BY <2>2, <2>5 DEF HandlerOk, Place
  <2>6. CASE MarkComplete(c)
    <3>1. CASE pc[c] = "completing"
      BY <2>2, <2>6, <3>1 DEF MarkComplete, AfterComplete, Place
    <3>2. CASE pc[c] = "voiding"
      BY <2>2, <2>6, <3>2 DEF MarkComplete, AfterComplete, Place
    <3> QED
      BY <2>6, <3>1, <3>2 DEF MarkComplete
  <2>7. CASE Forget(c)
    BY <2>2, <2>7 DEF Forget, Place
  <2>8. CASE Delete(c)
    BY <2>2, <2>8 DEF Delete, Place
  <2> QED
    BY <2>3, <2>4, <2>5, <2>6, <2>7, <2>8 DEF Process
<1> QED
  BY <1>1, TypeCorrect, PTL DEF Spec

\* The claim of a dead worker is never renewed, completed or released by anyone:
\* it is left alone until each tick has taken its share of the lease, and then
\* the key is free again (idempotency.py:16-17).
THEOREM AbandonedClaimsRunOut ==
  Spec => [][\A k \in Keys :
               Abandoned(k) =>
                 /\ entry'[k].left = IF Tick THEN entry[k].left - 1 ELSE entry[k].left
                 /\ entry'[k].left > 0 => Abandoned(k)']_vars
<1> DEFINE RunsOut(k) ==
      /\ entry'[k].left = IF Tick THEN entry[k].left - 1 ELSE entry[k].left
      /\ entry'[k].left > 0 => Abandoned(k)'
<1>1. IInv /\ Next => \A k \in Keys : Abandoned(k) => RunsOut(k)
  <2> SUFFICES ASSUME IInv, Next, NEW k \in Keys, Abandoned(k) PROVE RunsOut(k)
    OBVIOUS
  <2>1. /\ TypeOK /\ key' = key /\ entry[k].left \in Nat /\ entry[k].left > 0
        /\ entry[k].state = "in_progress"
    BY DEF IInv, TypeOK, Entry, Abandoned, Live, Next, Deliver, Process, Acquire, SkipDuplicate,
       RunWithoutKey, AcquireLost, HandlerFails, HandlerOk, HandlerCancelled, MarkComplete,
       Forget, AfterLost, Delete, Kill, Tick
  <2>2. CASE Tick
    <3>1. entry'[k].left = entry[k].left - 1 /\ entry'[k].state = "in_progress" /\ pc' = pc
      BY <2>1, <2>2 DEF Tick, Less, TypeOK, Entry
    <3> QED
      BY <2>1, <2>2, <3>1 DEF Abandoned, Live, Holds
  <2>3. ASSUME ~Tick PROVE RunsOut(k)
    <3>1. PICK c \in Copies :
            Deliver(c) \/ AcquireLost(c) \/ Process(c) \/ AfterLost(c) \/ Kill(c)
      BY <2>3 DEF Next
    <3>2. entry'[k] = entry[k] /\ \A d \in Copies : key[d] = k => ~Holds(d)'
      <4>1. ASSUME key[c] # k PROVE entry'[k] = entry[k] /\ \A d \in Copies : key[d] = k => ~Holds(d)'
        <5>1. \A d \in Copies \ {c} : pc'[d] = pc[d]
          BY <2>1, <3>1 DEF Deliver, Process, Acquire, SkipDuplicate,
             RunWithoutKey, AcquireLost, HandlerFails, HandlerOk, HandlerCancelled, MarkComplete,
             Forget, AfterLost, Delete, Kill, Goto, TypeOK
        <5>2. entry'[k] = entry[k]
          BY <2>1, <3>1, <4>1 DEF Deliver, Process, Acquire, SkipDuplicate,
             RunWithoutKey, AcquireLost, HandlerFails, HandlerOk, HandlerCancelled, MarkComplete,
             Forget, AfterLost, Delete, Kill, Put, TypeOK
        <5> QED
          BY <2>1, <4>1, <5>1, <5>2 DEF Abandoned, Holds
      <4>2. ASSUME key[c] = k PROVE entry'[k] = entry[k] /\ \A d \in Copies : key[d] = k => ~Holds(d)'
        <5>1. key[c] # NoKey /\ Live(key[c]) /\ entry[key[c]].state # "completed" /\ ~Holds(c)
          BY <2>1, <4>2, IdempotencyAssumption DEF Abandoned
        <5>2. /\ pc[c] \in {"queued", "acking", "deleted"}
              /\ Delete(c) \/ Kill(c)
          BY <2>1, <3>1, <5>1 DEF Holds, TypeOK, Place, Deliver, Process, Acquire, SkipDuplicate,
             RunWithoutKey, AcquireLost, HandlerFails, HandlerOk, HandlerCancelled, MarkComplete,
             Forget, AfterLost
        <5>3. entry' = entry /\ pc'[c] \in {"queued", "deleted"} /\ \A d \in Copies \ {c} : pc'[d] = pc[d]
          BY <2>1, <5>2 DEF Delete, Kill, Goto, TypeOK
        <5> QED
          BY <2>1, <5>3 DEF Abandoned, Holds
      <4> QED
        BY <4>1, <4>2
    <3> QED
      BY <2>1, <2>3, <3>2 DEF Abandoned, Live
  <2> QED
    BY <2>2, <2>3
<1> QED
  BY <1>1, Inductive, PTL DEF Spec
=============================================================================
