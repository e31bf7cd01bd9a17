----------------------- MODULE MiddlewareStack_proofs -----------------------
(***************************************************************************)
(* Theorems of MiddlewareStack: every safety property of the two nested    *)
(* stacks, for stacks of any size and for any exceptions.                  *)
(***************************************************************************)
EXTENDS MiddlewareStack, Integers, TLAPS

\* What an after hook of stack l is told.
Told(l) ==
  IF first.kind = "cancelled" \/ (l = 1 /\ phase[2] = "aborted") THEN None ELSE first

Shape ==
  /\ size \in [Level -> 0..MaxSize]
  /\ entered \in [Level -> 0..MaxSize]
  /\ \A l \in Level : entered[l] <= size[l]
  /\ phase \in [Level -> {"idle", "before", "inner", "after", "aborted"}]
  /\ exc = [l \in Level |-> exc[l]]
  /\ err = [l \in Level |-> err[l]]
  /\ hook \in [Mw -> {"idle", "entered", "unwound"}]
  /\ seen = [m \in Mw |-> seen[m]]

\* Stack 2 runs inside the call_inner of stack 1.
Position ==
  /\ \/ level = 1 /\ phase[1] = "before" /\ phase[2] = "idle"
     \/ level = 2 /\ phase[1] = "inner" /\ phase[2] \in {"before", "after", "aborted"}
     \/ level = 1 /\ phase[1] \in {"after", "aborted"} /\ phase[2] \in {"idle", "after", "aborted"}
  /\ phase[2] = "idle" => entered[2] = 0
  /\ phase[1] = "inner" => entered[1] = size[1]
  /\ level = 1 /\ phase[2] = "after" => entered[2] = 0
  /\ ran => phase[2] \in {"after", "aborted"}
  /\ outcome # "pending" => Finished(1)

\* entered counts the middlewares that entered and were not unwound.
Hooks ==
  \A l \in Level, i \in 1..MaxSize :
    /\ hook[<<l, i>>] = "entered" <=> i <= entered[l]
    /\ hook[<<l, i>>] = "unwound" => phase[l] \in {"after", "aborted"}
    /\ \A j \in 1..MaxSize :
         j < i /\ hook[<<l, j>>] = "idle" => hook[<<l, i>>] = "idle"

\* Stack 2 is not begun before all of stack 1 entered.
Opened ==
  phase[2] # "idle" =>
    \A i \in 1..MaxSize : i <= size[1] => hook[<<1, i>>] # "idle"

\* Where the first failure is.
Failure ==
  /\ first = None \/ first.kind \in Raisable
  /\ phase[1] = "before" \/ phase[2] = "before" => first = None
  /\ phase[2] = "after" => exc[2] = first
  /\ phase[2] = "aborted" => exc[2].kind = "cancelled"
  /\ phase[1] = "after" =>
       IF phase[2] = "aborted" THEN exc[1].kind = "cancelled" ELSE exc[1] = first
  /\ phase[1] = "aborted" => exc[1].kind = "cancelled"
  /\ outcome # "pending" => outcome = RecordOutcome(exc[1])

\* The local err of a stack, and what its after hooks were called with.
Heard ==
  /\ \A l \in Level : phase[l] = "after" => err[l] = Told(l)
  /\ \A l \in Level, i \in 1..MaxSize :
       hook[<<l, i>>] = "unwound" => seen[<<l, i>>] = Told(l)

IInv == Shape /\ Position /\ Hooks /\ Opened /\ Failure /\ Heard

-----------------------------------------------------------------------------
(* Middlewares as pairs.                                                   *)

LEMMA PairOf ==
  ASSUME NEW m \in Mw
  PROVE  m = <<m[1], m[2]>> /\ m[1] \in Level /\ m[2] \in 1..MaxSize
  BY DEF Mw

LEMMA PairIn ==
  ASSUME NEW l \in Level, NEW i \in 1..MaxSize
  PROVE  <<l, i>> \in Mw
  BY DEF Mw

\* One hook of one middleware is recorded.
LEMMA HookSet ==
  ASSUME hook \in [Mw -> {"idle", "entered", "unwound"}],
         NEW l \in Level, NEW i \in 1..MaxSize, NEW v \in {"idle", "entered", "unwound"},
         hook' = [hook EXCEPT ![<<l, i>>] = v]
  PROVE  /\ hook' \in [Mw -> {"idle", "entered", "unwound"}]
         /\ hook'[<<l, i>>] = v
         /\ \A k \in Level, j \in 1..MaxSize :
              k # l \/ j # i => hook'[<<k, j>>] = hook[<<k, j>>]
  BY DEF Mw

\* What is known of an exception that was just raised.
LEMMA Raised ==
  ASSUME NEW kind, NEW step, NEW l, NEW i
  PROVE  Raise(kind, step, l, i).kind = kind
  BY DEF Raise

LEMMA NoneKind == None.kind = "none"
  BY DEF None

\* What stack l tells its after hooks when it leaves its try block with first.
LEMMA CaughtFirst ==
  ASSUME NEW e, e = None \/ e.kind \in Raisable
  PROVE  Caught(e) = IF e.kind = "cancelled" THEN None ELSE e
  BY NoneKind DEF Caught, Raisable, Exceptions

-----------------------------------------------------------------------------
LEMMA InitInductive == Init => IInv
<1> SUFFICES ASSUME Init PROVE IInv
  OBVIOUS
<1>1. MaxSize \in Nat
  BY StackAssumption
<1>2. Shape
  BY <1>1 DEF Init, Shape, Level, Mw
<1>3. Position
  BY DEF Init, Position, Level
<1>4. \A l \in Level, i \in 1..MaxSize : hook[<<l, i>>] = "idle"
  BY PairIn DEF Init
<1>5. Hooks
  <2>1. \A l \in Level, i \in 1..MaxSize : ~(i <= entered[l])
    BY <1>1 DEF Init, Level
  <2> QED
    BY <1>4, <2>1 DEF Hooks
<1>8. Opened
  BY DEF Init, Opened, Level
<1>6. Failure
  BY DEF Init, Failure, Level
<1>7. Heard
  BY <1>4 DEF Init, Heard, Level
<1> QED
  BY <1>2, <1>3, <1>5, <1>6, <1>7, <1>8 DEF IInv

-----------------------------------------------------------------------------
(* The steps.                                                              *)

LEMMA BeforeOkKeeps ==
  ASSUME IInv, NEW l \in Level, BeforeOk(l)
  PROVE  IInv'
<1> DEFINE e == entered[l] + 1
<1>1. /\ MaxSize \in Nat /\ size[l] \in 0..MaxSize /\ entered[l] \in 0..MaxSize
      /\ level = l /\ phase[l] = "before" /\ entered[l] < size[l]
  BY StackAssumption DEF IInv, Shape, BeforeOk, AtBefore
<1>2. e \in 1..MaxSize /\ e <= size[l]
  BY <1>1
<1>3. /\ hook' \in [Mw -> {"idle", "entered", "unwound"}]
      /\ hook'[<<l, e>>] = "entered"
      /\ \A k \in Level, j \in 1..MaxSize :
           k # l \/ j # e => hook'[<<k, j>>] = hook[<<k, j>>]
  BY <1>2, HookSet DEF IInv, Shape, BeforeOk
<1>4. /\ entered' \in [Level -> 0..MaxSize] /\ entered'[l] = e
      /\ \A k \in Level : k # l => entered'[k] = entered[k]
  BY <1>2 DEF IInv, Shape, BeforeOk
<1>5. UNCHANGED <<size, level, phase, exc, err, outcome, seen, first, ran>>
  BY DEF BeforeOk
<1>6. Shape'
  BY <1>2, <1>3, <1>4, <1>5 DEF IInv, Shape
<1>7. Position'
  BY <1>1, <1>4, <1>5 DEF IInv, Position, Finished, Level
<1>8. Hooks'
  <2> SUFFICES ASSUME NEW k \in Level, NEW i \in 1..MaxSize
               PROVE  /\ hook'[<<k, i>>] = "entered" <=> i <= entered'[k]
                      /\ hook'[<<k, i>>] = "unwound" => phase'[k] \in {"after", "aborted"}
                      /\ \A j \in 1..MaxSize :
                           j < i /\ hook'[<<k, j>>] = "idle" => hook'[<<k, i>>] = "idle"
    BY DEF Hooks
  <2>1. CASE k # l
    BY <1>3, <1>4, <1>5, <2>1 DEF IInv, Hooks
  <2>2. CASE k = l
    <3>1. i <= e <=> (i <= entered[l] \/ i = e)
      BY <1>1
    <3>2. \A j \in 1..MaxSize : j < i /\ i = e => hook[<<l, j>>] = "entered" /\ j # e
      BY <1>1 DEF IInv, Hooks
    <3>3. hook[<<l, i>>] # "unwound"
      BY <1>1 DEF IInv, Hooks
    <3> QED
      BY <1>3, <1>4, <2>2, <3>1, <3>2, <3>3 DEF IInv, Hooks
  <2> QED
    BY <2>1, <2>2
<1>9. Opened'
  BY <1>3, <1>5 DEF IInv, Opened, Level
<1>10. Failure'
  BY <1>5 DEF IInv, Failure
<1>11. Heard'
  BY <1>1, <1>3, <1>5 DEF IInv, Heard, Told
<1> QED
  BY <1>6, <1>7, <1>8, <1>9, <1>10, <1>11 DEF IInv

\* Stack l fails in its try block, and nothing had failed before.
LEMMA FailsKeeps ==
  ASSUME IInv, NEW l \in Level, level = l, phase[l] = "before",
         NEW kinds \in SUBSET Raisable, NEW step, NEW i, Fails(l, kinds, step, i),
         UNCHANGED <<size, entered, outcome, hook, seen>>,
         ran' = ran \/ l = 2
  PROVE  IInv'
<1>1. PICK kind \in kinds :
        Finally(l, Raise(kind, step, l, i)) /\ first' = Raise(kind, step, l, i)
  BY DEF Fails
<1>2. first'.kind = kind /\ kind \in Raisable
  BY <1>1, Raised
<1>3. /\ level' = l
      /\ phase' \in [Level -> {"idle", "before", "inner", "after", "aborted"}]
      /\ phase'[l] = "after" /\ exc'[l] = first' /\ err'[l] = Caught(first')
      /\ exc' = [k \in Level |-> exc'[k]] /\ err' = [k \in Level |-> err'[k]]
      /\ \A k \in Level : k # l =>
           phase'[k] = phase[k] /\ exc'[k] = exc[k] /\ err'[k] = err[k]
  BY <1>1 DEF Finally, IInv, Shape
<1>4. Caught(first') = IF first'.kind = "cancelled" THEN None ELSE first'
  BY <1>2, CaughtFirst
<1>5. outcome = "pending"
  BY DEF IInv, Position, Finished, Level
<1>6. \A k \in Level, j \in 1..MaxSize : hook[<<k, j>>] # "unwound"
  BY DEF IInv, Position, Hooks, Level
<1>7. Shape'
  BY <1>3 DEF IInv, Shape
<1>8. Position'
  BY <1>3, <1>5 DEF IInv, Position, Level
<1>9. Hooks'
  BY <1>3, <1>6 DEF IInv, Hooks
<1>10. Opened'
  BY <1>3 DEF IInv, Opened, Position, Level
<1>11. Failure'
  BY <1>2, <1>3, <1>5 DEF IInv, Failure, Position, Level
<1>12. Heard'
  BY <1>3, <1>4, <1>6 DEF IInv, Heard, Told, Position, Level
<1> QED
  BY <1>7, <1>8, <1>9, <1>10, <1>11, <1>12 DEF IInv

LEMMA DispatchKeeps ==
  ASSUME IInv, Dispatch
  PROVE  IInv'
<1>1. /\ level = 1 /\ phase[1] = "before" /\ phase[2] = "idle" /\ entered[1] = size[1]
      /\ outcome = "pending"
  BY DEF Dispatch, AllEntered, IInv, Position, Finished
<1>2. /\ level' = 2 /\ phase'[1] = "inner" /\ phase'[2] = "before"
      /\ phase' \in [Level -> {"idle", "before", "inner", "after", "aborted"}]
  BY DEF Dispatch, IInv, Shape, Level
<1>3. UNCHANGED <<size, entered, exc, err, outcome, hook, seen, first, ran>>
  BY DEF Dispatch, history
<1>4. \A l \in Level, i \in 1..MaxSize : hook[<<l, i>>] # "unwound"
  BY <1>1 DEF IInv, Hooks, Level
<1>5. Shape'
  BY <1>2, <1>3 DEF IInv, Shape
<1>6. Position'
  BY <1>1, <1>2, <1>3 DEF IInv, Position
<1>7. Hooks'
  BY <1>3, <1>4 DEF IInv, Hooks
<1>8. Opened'
  BY <1>1, <1>3 DEF IInv, Hooks, Opened, Level
<1>9. Failure'
  BY <1>1, <1>2, <1>3 DEF IInv, Failure
<1>10. Heard'
  BY <1>2, <1>3, <1>4 DEF IInv, Heard, Level
<1> QED
  BY <1>5, <1>6, <1>7, <1>8, <1>9, <1>10 DEF IInv

LEMMA HandlerOkKeeps ==
  ASSUME IInv, HandlerOk
  PROVE  IInv'
<1>1. /\ level = 2 /\ phase[2] = "before" /\ phase[1] = "inner" /\ outcome = "pending"
      /\ first = None
  BY DEF HandlerOk, AllEntered, IInv, Position, Finished, Failure
<1>2. /\ level' = 2
      /\ phase' \in [Level -> {"idle", "before", "inner", "after", "aborted"}]
      /\ phase'[2] = "after" /\ phase'[1] = "inner"
      /\ exc'[2] = None /\ err'[2] = None
      /\ exc' = [k \in Level |-> exc'[k]] /\ err' = [k \in Level |-> err'[k]]
  BY <1>1, CaughtFirst, NoneKind DEF HandlerOk, Finally, IInv, Shape, Level
<1>3. UNCHANGED <<size, entered, outcome, hook, seen, first>>
  BY DEF HandlerOk
<1>4. \A k \in Level, j \in 1..MaxSize : hook[<<k, j>>] # "unwound"
  BY <1>1 DEF IInv, Hooks, Level
<1>5. Shape'
  BY <1>2, <1>3 DEF IInv, Shape
<1>6. Position'
  BY <1>1, <1>2, <1>3 DEF IInv, Position
<1>7. Hooks'
  BY <1>3, <1>4 DEF IInv, Hooks
<1>8. Opened'
  BY <1>1, <1>3 DEF IInv, Opened
<1>9. Failure'
  BY <1>1, <1>2, <1>3 DEF IInv, Failure
<1>10. Heard'
  BY <1>1, <1>2, <1>3, <1>4, NoneKind DEF IInv, Heard, Told, Level
<1> QED
  BY <1>5, <1>6, <1>7, <1>8, <1>9, <1>10 DEF IInv

\* The innermost middleware that entered is unwound; whether the others are
\* still unwound or not.
LEMMA UnwindKeeps ==
  ASSUME IInv, NEW l \in Level, Unwind(l), UNCHANGED <<size, level, err, first, ran>>
  PROVE  /\ Hooks /\ phase'[l] \in {"after", "aborted"} /\
              (\A k \in Level : k # l => phase'[k] = phase[k]) => Hooks'
         /\ \A i \in 1..MaxSize : hook[<<1, i>>] # "idle" => hook'[<<1, i>>] # "idle"
         /\ \A k \in Level, i \in 1..MaxSize :
              \/ hook'[<<k, i>>] = hook[<<k, i>>] /\ seen'[<<k, i>>] = seen[<<k, i>>]
              \/ k = l /\ phase[l] = "after" /\ seen'[<<k, i>>] = err[l]
         /\ entered' \in [Level -> 0..MaxSize]
         /\ \A k \in Level : entered'[k] <= entered[k]
         /\ \A k \in Level : k # l => entered'[k] = entered[k]
         /\ hook' \in [Mw -> {"idle", "entered", "unwound"}]
         /\ seen' = [m \in Mw |-> seen'[m]]
<1> DEFINE e == entered[l]
<1>1. /\ MaxSize \in Nat /\ e \in 1..MaxSize /\ level = l /\ phase[l] = "after"
      /\ \A k \in Level : entered[k] \in Nat
  BY StackAssumption DEF IInv, Shape, Unwind, Unwinding
<1>2. hook' = [hook EXCEPT ![<<l, e>>] = "unwound"] /\ seen' = [seen EXCEPT ![<<l, e>>] = err[l]]
  BY DEF Unwind, CallAfter
<1>3. /\ hook' \in [Mw -> {"idle", "entered", "unwound"}]
      /\ hook'[<<l, e>>] = "unwound"
      /\ \A k \in Level, j \in 1..MaxSize :
           k # l \/ j # e => hook'[<<k, j>>] = hook[<<k, j>>]
  BY <1>1, <1>2, HookSet DEF IInv, Shape
<1>4. /\ seen' = [m \in Mw |-> seen'[m]]
      /\ seen'[<<l, e>>] = err[l]
      /\ \A k \in Level, j \in 1..MaxSize :
           k # l \/ j # e => seen'[<<k, j>>] = seen[<<k, j>>]
  BY <1>1, <1>2, PairIn DEF IInv, Shape
<1>5. /\ entered' \in [Level -> 0..MaxSize] /\ entered'[l] = e - 1
      /\ \A k \in Level : k # l => entered'[k] = entered[k]
  BY <1>1 DEF IInv, Shape, Unwind
<1>6. hook[<<l, e>>] = "entered"
  BY <1>1 DEF IInv, Hooks
<1>7. ASSUME phase'[l] \in {"after", "aborted"}, \A k \in Level : k # l => phase'[k] = phase[k]
      PROVE  Hooks'
  <2> SUFFICES ASSUME NEW k \in Level, NEW i \in 1..MaxSize
               PROVE  /\ hook'[<<k, i>>] = "entered" <=> i <= entered'[k]
                      /\ hook'[<<k, i>>] = "unwound" => phase'[k] \in {"after", "aborted"}
                      /\ \A j \in 1..MaxSize :
                           j < i /\ hook'[<<k, j>>] = "idle" => hook'[<<k, i>>] = "idle"
    BY DEF Hooks
  <2>1. CASE k # l
    BY <1>3, <1>5, <1>7, <2>1 DEF IInv, Hooks
  <2>2. CASE k = l
    <3>1. i <= e - 1 <=> (i <= e /\ i # e)
      BY <1>1
    <3>2. \A j \in 1..MaxSize : j < i /\ i = e => hook[<<l, j>>] = "entered" /\ j # e
      BY <1>1 DEF IInv, Hooks
    <3> QED
      BY <1>3, <1>5, <1>7, <2>2, <3>1, <3>2 DEF IInv, Hooks
  <2> QED
    BY <2>1, <2>2
<1>8. \A i \in 1..MaxSize : hook[<<1, i>>] # "idle" => hook'[<<1, i>>] # "idle"
  BY <1>3 DEF Level
<1>9. \A k \in Level : entered'[k] <= entered[k]
  BY <1>1, <1>5
<1> QED
  BY <1>1, <1>3, <1>4, <1>5, <1>7, <1>8, <1>9

LEMMA AfterEndsKeeps ==
  ASSUME IInv, NEW l \in Level, AfterEnds(l)
  PROVE  IInv'
<1>1. Unwind(l) /\ UNCHANGED <<size, level, phase, exc, err, outcome, first, ran>>
  BY DEF AfterEnds
<1>2. level = l /\ phase[l] = "after" /\ entered[l] > 0 /\ outcome = "pending"
  BY <1>1 DEF Unwind, Unwinding, IInv, Position, Finished, Shape
<1>3. /\ Hooks'
      /\ \A i \in 1..MaxSize : hook[<<1, i>>] # "idle" => hook'[<<1, i>>] # "idle"
      /\ \A k \in Level, i \in 1..MaxSize :
           \/ hook'[<<k, i>>] = hook[<<k, i>>] /\ seen'[<<k, i>>] = seen[<<k, i>>]
           \/ k = l /\ phase[l] = "after" /\ seen'[<<k, i>>] = err[l]
      /\ entered' \in [Level -> 0..MaxSize]
      /\ \A k \in Level : entered'[k] <= entered[k]
      /\ \A k \in Level : k # l => entered'[k] = entered[k]
      /\ hook' \in [Mw -> {"idle", "entered", "unwound"}]
      /\ seen' = [m \in Mw |-> seen'[m]]
  BY <1>1, <1>2, UnwindKeeps DEF IInv
<1>4. \A k \in Level : entered'[k] <= size[k]
  BY <1>3, StackAssumption DEF IInv, Shape
<1>5. Shape'
  BY <1>1, <1>3, <1>4 DEF IInv, Shape
<1>6. Position'
  BY <1>1, <1>2, <1>3 DEF IInv, Position, Level
<1>7. Opened'
  BY <1>1, <1>3 DEF IInv, Opened
<1>8. Failure'
  BY <1>1 DEF IInv, Failure
<1>9. Heard'
  BY <1>1, <1>3 DEF IInv, Heard, Told
<1> QED
  BY <1>3, <1>5, <1>6, <1>7, <1>8, <1>9 DEF IInv

LEMMA AfterCancelledKeeps ==
  ASSUME IInv, NEW l \in Level, AfterCancelled(l)
  PROVE  IInv'
<1>1. Unwind(l) /\ UNCHANGED <<size, level, err, outcome, first, ran>>
  BY DEF AfterCancelled
<1>2. level = l /\ phase[l] = "after" /\ entered[l] > 0 /\ outcome = "pending"
  BY <1>1 DEF Unwind, Unwinding, IInv, Position, Finished, Shape
<1>3. /\ phase' \in [Level -> {"idle", "before", "inner", "after", "aborted"}]
      /\ phase'[l] = "aborted" /\ exc'[l].kind = "cancelled"
      /\ exc' = [k \in Level |-> exc'[k]]
      /\ \A k \in Level : k # l => phase'[k] = phase[k] /\ exc'[k] = exc[k]
  BY Raised DEF AfterCancelled, IInv, Shape
<1>4. /\ Hooks'
      /\ \A i \in 1..MaxSize : hook[<<1, i>>] # "idle" => hook'[<<1, i>>] # "idle"
      /\ \A k \in Level, i \in 1..MaxSize :
           \/ hook'[<<k, i>>] = hook[<<k, i>>] /\ seen'[<<k, i>>] = seen[<<k, i>>]
           \/ k = l /\ phase[l] = "after" /\ seen'[<<k, i>>] = err[l]
      /\ entered' \in [Level -> 0..MaxSize]
      /\ \A k \in Level : entered'[k] <= entered[k]
      /\ \A k \in Level : k # l => entered'[k] = entered[k]
      /\ hook' \in [Mw -> {"idle", "entered", "unwound"}]
      /\ seen' = [m \in Mw |-> seen'[m]]
  BY <1>1, <1>2, <1>3, UnwindKeeps DEF IInv
<1>5. \A k \in Level : entered'[k] <= size[k]
  BY <1>4, StackAssumption DEF IInv, Shape
<1>6. Shape'
  BY <1>1, <1>3, <1>4, <1>5 DEF IInv, Shape
<1>7. Position'
  BY <1>1, <1>2, <1>3, <1>4 DEF IInv, Position, Level
<1>8. Opened'
  BY <1>1, <1>2, <1>3, <1>4 DEF IInv, Opened, Level
<1>9. Failure'
  BY <1>1, <1>2, <1>3 DEF IInv, Failure, Position, Level
<1>10. Heard'
  <2>1. Told(l)' = Told(l)
    BY <1>1, <1>2, <1>3 DEF Told, Level
  <2>2. CASE l = 1
    <3>1. Told(2)' = Told(2)
      BY <1>1 DEF Told
    <3> QED
      BY <1>1, <1>2, <1>3, <1>4, <2>1, <2>2, <3>1 DEF IInv, Heard, Level
  <2>3. CASE l = 2
    <3>1. phase[1] = "inner" /\ phase'[1] = "inner"
      BY <1>2, <1>3, <2>3 DEF IInv, Position, Level
    <3>2. \A i \in 1..MaxSize : hook[<<1, i>>] # "unwound"
      BY <3>1 DEF IInv, Hooks, Level
    <3>3. \A i \in 1..MaxSize : hook'[<<1, i>>] = hook[<<1, i>>]
      <4>1. 1 \in Level /\ 1 # l
        BY <2>3 DEF Level
      <4> QED
        BY <1>4, <4>1
    <3>4. \A k \in Level : k = l \/ k = 1
      BY <2>3 DEF Level
    <3>5. \A k \in Level : phase'[k] = "after" => err'[k] = Told(k)'
      BY <1>3, <3>1, <3>4
    <3>6. err[l] = Told(l) /\ Told(l)' = Told(l)
      BY <1>2, <2>1 DEF IInv, Heard
    <3>7. \A i \in 1..MaxSize : hook'[<<l, i>>] = "unwound" => seen'[<<l, i>>] = Told(l)'
      BY <1>4, <3>6 DEF IInv, Heard
    <3> QED
      BY <3>2, <3>3, <3>4, <3>5, <3>7 DEF Heard
  <2> QED
    BY <2>2, <2>3 DEF Level
<1> QED
  BY <1>4, <1>6, <1>7, <1>8, <1>9, <1>10 DEF IInv

LEMMA ReturnToOuterKeeps ==
  ASSUME IInv, ReturnToOuter
  PROVE  IInv'
<1>1. /\ level = 2 /\ phase[1] = "inner" /\ outcome = "pending"
      /\ phase[2] = "aborted" \/ (phase[2] = "after" /\ entered[2] = 0)
  BY DEF ReturnToOuter, Finished, IInv, Position
<1>2. /\ level' = 1
      /\ phase' \in [Level -> {"idle", "before", "inner", "after", "aborted"}]
      /\ phase'[1] = "after" /\ phase'[2] = phase[2]
      /\ exc'[1] = exc[2] /\ exc'[2] = exc[2]
      /\ err'[1] = Caught(exc[2]) /\ err'[2] = err[2]
      /\ exc' = [k \in Level |-> exc'[k]] /\ err' = [k \in Level |-> err'[k]]
  <2>1. Finally(1, exc[2])
    BY DEF ReturnToOuter
  <2>2. phase' = [phase EXCEPT ![1] = "after"] /\ level' = 1
    BY <2>1 DEF Finally
  <2>3. exc' = [exc EXCEPT ![1] = exc[2]]
    BY <2>1 DEF Finally
  <2>4. err' = [err EXCEPT ![1] = Caught(exc[2])]
    BY <2>1 DEF Finally
  <2>5. exc = [k \in Level |-> exc[k]] /\ err = [k \in Level |-> err[k]]
    BY DEF IInv, Shape
  <2>6. /\ phase' \in [Level -> {"idle", "before", "inner", "after", "aborted"}]
        /\ phase'[1] = "after" /\ phase'[2] = phase[2]
    BY <2>2 DEF IInv, Shape, Level
  <2>7. exc'[1] = exc[2] /\ exc'[2] = exc[2] /\ exc' = [k \in Level |-> exc'[k]]
    BY <2>3, <2>5 DEF Level
  <2>8. err'[1] = Caught(exc[2]) /\ err'[2] = err[2] /\ err' = [k \in Level |-> err'[k]]
    <3>1. DOMAIN err = Level
      BY <2>5
    <3>2. err'[1] = Caught(exc[2]) /\ err'[2] = err[2]
      BY <2>4, <3>1 DEF Level
    <3>3. err' = [k \in Level |-> err'[k]]
      BY <2>4, <3>1
    <3> QED
      BY <3>2, <3>3
  <2> QED
    BY <2>2, <2>6, <2>7, <2>8
<1>3. UNCHANGED <<size, entered, outcome, hook, seen, first, ran>>
  BY DEF ReturnToOuter, history
<1>4. \A j \in 1..MaxSize : hook[<<1, j>>] # "unwound"
  BY <1>1 DEF IInv, Hooks, Level
<1>5. err'[1] = Told(1)'
  <2>1. CASE phase[2] = "aborted"
    <3>1. exc[2].kind = "cancelled" /\ exc[2].kind \in Raisable
      BY <2>1 DEF IInv, Failure, Raisable
    <3> QED
      BY <1>2, <2>1, <3>1, CaughtFirst DEF Told
  <2>2. CASE phase[2] = "after"
    <3>1. exc[2] = first /\ (first = None \/ first.kind \in Raisable)
      BY <2>2 DEF IInv, Failure
    <3> QED
      BY <1>2, <1>3, <2>2, <3>1, CaughtFirst DEF Told
  <2> QED
    BY <1>1, <2>1, <2>2
<1>6. Shape'
  BY <1>2, <1>3 DEF IInv, Shape
<1>7. Position'
  BY <1>1, <1>2, <1>3 DEF IInv, Position
<1>8. Hooks'
  BY <1>2, <1>3, <1>4 DEF IInv, Hooks, Level
<1>9. Opened'
  BY <1>2, <1>3 DEF IInv, Opened
<1>10. Failure'
  BY <1>1, <1>2, <1>3 DEF IInv, Failure
<1>11. Heard'
  <2>1. Told(2)' = Told(2)
    BY <1>3 DEF Told
  <2> QED
    BY <1>2, <1>3, <1>4, <1>5, <2>1 DEF IInv, Heard, Level
<1> QED
  BY <1>6, <1>7, <1>8, <1>9, <1>10, <1>11 DEF IInv

LEMMA RecordEndsKeeps ==
  ASSUME IInv, RecordEnds
  PROVE  IInv'
<1>1. UNCHANGED <<size, level, phase, entered, exc, err, hook, seen, first, ran>>
  BY DEF RecordEnds, history
<1>2. Finished(1) /\ outcome' = RecordOutcome(exc[1])
  BY DEF RecordEnds
<1>3. Shape' /\ Hooks' /\ Opened' /\ Heard'
  BY <1>1 DEF IInv, Shape, Hooks, Opened, Heard, Told
<1>4. Position'
  BY <1>1, <1>2 DEF IInv, Position, Finished
<1>5. Failure'
  <2>1. RecordOutcome(exc[1])' = RecordOutcome(exc[1])
    BY <1>1 DEF RecordOutcome
  <2> QED
    BY <1>1, <1>2, <2>1 DEF IInv, Failure
<1> QED
  BY <1>3, <1>4, <1>5 DEF IInv

\* The invariant holds of every reachable state.
THEOREM Inductive == Spec => []IInv
<1>1. IInv /\ [Next]_vars => IInv'
  <2> SUFFICES ASSUME IInv, [Next]_vars PROVE IInv'
    OBVIOUS
  <2>1. ASSUME NEW l \in Level, BeforeRaises(l) PROVE IInv'
    <3>1. /\ level = l /\ phase[l] = "before" /\ HookRaises \in SUBSET Raisable
          /\ UNCHANGED <<size, entered, outcome, hook, seen, ran>>
          /\ Fails(l, HookRaises, "before", entered[l] + 1)
      BY <2>1, StackAssumption DEF BeforeRaises, AtBefore
    <3> QED
      BY <3>1, FailsKeeps
  <2>2. CASE RouteNotFound
    <3>1. /\ level = 1 /\ phase[1] = "before" /\ {"error"} \in SUBSET Raisable
          /\ UNCHANGED <<size, entered, outcome, hook, seen, ran>>
          /\ Fails(1, {"error"}, "route", 0) /\ 1 \in Level
      BY <2>2 DEF RouteNotFound, AllEntered, Raisable, Exceptions, Level
    <3> QED
      BY <3>1, FailsKeeps
  <2>3. CASE HandlerRaises
    <3>1. /\ level = 2 /\ phase[2] = "before" /\ HookRaises \in SUBSET Raisable
          /\ UNCHANGED <<size, entered, outcome, hook, seen>>
          /\ Fails(2, HookRaises, "handler", 0) /\ 2 \in Level
      BY <2>3, StackAssumption DEF HandlerRaises, AllEntered, Level
    <3> QED
      BY <3>1, FailsKeeps
  <2>4. CASE UNCHANGED vars
    <3>1. RecordOutcome(exc[1])' = RecordOutcome(exc[1])
      BY <2>4 DEF RecordOutcome, vars
    <3> QED
      BY <2>4, <3>1 DEF vars, IInv, Shape, Position, Finished, Hooks, Opened, Failure, Heard, Told
  <2> QED
    BY <2>1, <2>2, <2>3, <2>4, BeforeOkKeeps, DispatchKeeps, HandlerOkKeeps, AfterEndsKeeps,
       AfterCancelledKeeps, ReturnToOuterKeeps, RecordEndsKeeps
       DEF Next, StackNext, Done
<1> QED
  BY <1>1, InitInductive, PTL DEF Spec

-----------------------------------------------------------------------------
(* Theorems.                                                               *)

\* Raised exceptions have their type.
LEMMA RaisedType ==
  ASSUME NEW kind \in Raisable, NEW step \in {"before", "route", "handler", "after"},
         NEW l \in Level, NEW i \in 0..MaxSize
  PROVE  Raise(kind, step, l, i) \in Exc
  BY DEF Raise, Exc, Level

\* A failure of stack l keeps the types.
LEMMA FailsType ==
  ASSUME TypeOK, NEW kinds \in SUBSET Raisable, NEW l \in Level,
         NEW step \in {"before", "route", "handler", "after"},
         NEW i \in 0..MaxSize, Fails(l, kinds, step, i)
  PROVE  level' \in Level /\ exc' \in [Level -> Exc] /\ err' \in [Level -> Exc] /\ first' \in Exc
<1>1. PICK e \in Exc : Finally(l, e) /\ first' = e
  <2>1. PICK kind \in kinds :
          Finally(l, Raise(kind, step, l, i)) /\ first' = Raise(kind, step, l, i)
    BY DEF Fails
  <2>2. Raise(kind, step, l, i) \in Exc
    BY RaisedType
  <2> QED
    BY <2>1, <2>2
<1>2. Caught(e) \in Exc
  BY StackAssumption DEF Caught, None, Exc
<1> QED
  BY <1>1, <1>2 DEF Finally, TypeOK

\* TypeOK: the types of the state, those of the exceptions in flight included.
THEOREM Typed == Spec => []TypeOK
<1>1. None \in Exc
  BY StackAssumption DEF None, Exc
<1>2. Init => TypeOK
  <2> SUFFICES ASSUME Init PROVE TypeOK
    OBVIOUS
  <2>1. /\ size \in [Level -> 0..MaxSize] /\ entered \in [Level -> 0..MaxSize]
        /\ phase \in [Level -> {"idle", "before", "inner", "after", "aborted"}]
        /\ hook \in [Mw -> {"idle", "entered", "unwound"}]
    BY InitInductive DEF IInv, Shape
  <2>2. exc \in [Level -> Exc] /\ err \in [Level -> Exc] /\ seen \in [Mw -> Exc] /\ first \in Exc
    BY <1>1 DEF Init
  <2>3. level \in Level /\ outcome = "pending" /\ ran = FALSE
    BY DEF Init, Level
  <2> QED
    BY <2>1, <2>2, <2>3 DEF TypeOK
<1>3. ASSUME IInv, IInv', TypeOK, [Next]_vars PROVE TypeOK'
  <2>1. /\ size' \in [Level -> 0..MaxSize] /\ entered' \in [Level -> 0..MaxSize]
        /\ phase' \in [Level -> {"idle", "before", "inner", "after", "aborted"}]
        /\ hook' \in [Mw -> {"idle", "entered", "unwound"}]
    BY <1>3 DEF IInv, Shape
  <2>2. ASSUME /\ level' \in Level /\ exc' \in [Level -> Exc] /\ err' \in [Level -> Exc]
               /\ first' \in Exc /\ seen' \in [Mw -> Exc] /\ ran' \in BOOLEAN
               /\ outcome' \in Outcome \cup {"pending"}
        PROVE  TypeOK'
    BY <2>1, <2>2 DEF TypeOK, Outcome, Exc, Level, Mw, Raisable, Exceptions
  <2>3. ASSUME NEW l \in Level, BeforeRaises(l) PROVE TypeOK'
    <3>1. entered[l] + 1 \in 0..MaxSize
      BY <1>3, <2>3, StackAssumption DEF IInv, Shape, BeforeRaises, AtBefore
    <3>2. /\ level' \in Level /\ exc' \in [Level -> Exc] /\ err' \in [Level -> Exc]
          /\ first' \in Exc
      BY <1>3, <2>3, <3>1, FailsType, StackAssumption DEF BeforeRaises
    <3> QED
      BY <1>3, <2>2, <2>3, <3>2 DEF BeforeRaises, TypeOK
  <2>4. CASE RouteNotFound
    <3>1. /\ level' \in Level /\ exc' \in [Level -> Exc] /\ err' \in [Level -> Exc]
          /\ first' \in Exc
      BY <1>3, <2>4, FailsType, StackAssumption DEF RouteNotFound, Level, Raisable, Exceptions
    <3> QED
      BY <1>3, <2>2, <2>4, <3>1 DEF RouteNotFound, TypeOK
  <2>5. CASE HandlerRaises
    <3>1. /\ level' \in Level /\ exc' \in [Level -> Exc] /\ err' \in [Level -> Exc]
          /\ first' \in Exc
      BY <1>3, <2>5, FailsType, StackAssumption DEF HandlerRaises, Level
    <3> QED
      BY <1>3, <2>2, <2>5, <3>1 DEF HandlerRaises, TypeOK
  <2>6. ASSUME NEW l \in Level, NEW e \in Exc, Finally(l, e)
        PROVE  level' \in Level /\ exc' \in [Level -> Exc] /\ err' \in [Level -> Exc]
    <3>1. Caught(e) \in Exc
      BY <1>1 DEF Caught
    <3> QED
      BY <1>3, <2>6, <3>1 DEF Finally, TypeOK
  <2>7. CASE HandlerOk
    BY <1>1, <1>3, <2>2, <2>6, <2>7 DEF HandlerOk, TypeOK, Level
  <2>8. CASE ReturnToOuter
    BY <1>3, <2>2, <2>6, <2>8 DEF ReturnToOuter, history, TypeOK, Level
  <2>9. ASSUME NEW l \in Level, Unwind(l) PROVE seen' \in [Mw -> Exc]
    BY <1>3, <2>9 DEF Unwind, CallAfter, TypeOK
  <2>10. ASSUME NEW l \in Level, AfterEnds(l) PROVE TypeOK'
    BY <1>3, <2>2, <2>9, <2>10 DEF AfterEnds, TypeOK
  <2>11. ASSUME NEW l \in Level, AfterCancelled(l) PROVE TypeOK'
    <3>1. Raise("cancelled", "after", l, entered[l]) \in Exc
      BY <1>3, <2>11, RaisedType DEF Raisable, TypeOK
    <3>2. exc' \in [Level -> Exc]
      BY <1>3, <2>11, <3>1 DEF AfterCancelled, TypeOK
    <3> QED
      BY <1>3, <2>2, <2>9, <2>11, <3>2 DEF AfterCancelled, TypeOK
  <2>12. CASE RecordEnds
    <3>1. RecordOutcome(exc[1]) \in Outcome
      <4>1. exc[1].kind \in Raisable \cup {"none"}
        BY <1>3 DEF TypeOK, Exc, Level
      <4> QED
        BY <4>1 DEF RecordOutcome, Outcome, Raisable, Exceptions
    <3> QED
      BY <1>3, <2>2, <2>12, <3>1 DEF RecordEnds, history, TypeOK
  <2>13. ASSUME NEW l \in Level, BeforeOk(l) PROVE TypeOK'
    BY <1>3, <2>2, <2>13 DEF BeforeOk, TypeOK
  <2>14. CASE Dispatch
    BY <1>3, <2>2, <2>14 DEF Dispatch, history, TypeOK, Level
  <2>15. CASE UNCHANGED vars
    BY <1>3, <2>2, <2>15 DEF vars, TypeOK
  <2> QED
    BY <1>3, <2>3, <2>4, <2>5, <2>7, <2>8, <2>10, <2>11, <2>12, <2>13, <2>14, <2>15
       DEF Next, StackNext, Done
<1> QED
  BY <1>2, <1>3, Inductive, PTL DEF Spec

\* Balanced: what a before hook acquired is released, in stacks of any size and
\* whatever the hooks and the handler raise, unless the unwinding itself is
\* cancelled.
THEOREM CleanupBalanced == Spec => []Balanced
<1>1. IInv => Balanced
  <2> SUFFICES ASSUME IInv, outcome # "pending", NEW m \in Mw, phase[m[1]] # "aborted",
                      hook[m] = "entered"
               PROVE  FALSE
    BY DEF Balanced
  <2>1. m = <<m[1], m[2]>> /\ m[1] \in Level /\ m[2] \in 1..MaxSize
    BY PairOf
  <2>2. m[2] <= entered[m[1]]
    BY <2>1 DEF IInv, Hooks
  <2>3. entered[m[1]] = 0
    BY <2>1 DEF IInv, Position, Finished, Level
  <2> QED
    BY <2>1, <2>2, <2>3, StackAssumption
<1> QED
  BY <1>1, Inductive, PTL

\* Nested: the middlewares of both stacks enter and are unwound as parentheses.
THEOREM NestingKept == Spec => []Nested
<1>1. IInv => Nested
  <2> SUFFICES ASSUME IInv, NEW m \in Registered, NEW n \in Registered, Encloses(m, n)
               PROVE  /\ hook[n] = "entered" /\ phase[n[1]] # "aborted" => hook[m] = "entered"
                      /\ hook[m] = "idle" => hook[n] = "idle"
    BY DEF Nested
  <2>1. /\ m = <<m[1], m[2]>> /\ m[1] \in Level /\ m[2] \in 1..MaxSize /\ m[2] <= size[m[1]]
        /\ n = <<n[1], n[2]>> /\ n[1] \in Level /\ n[2] \in 1..MaxSize
    BY PairOf DEF Registered
  <2>2. /\ hook[m] = "entered" <=> m[2] <= entered[m[1]]
        /\ hook[n] = "entered" <=> n[2] <= entered[n[1]]
        /\ hook[n] \in {"idle", "entered", "unwound"}
        /\ \A l \in Level : entered[l] \in Nat
    BY <2>1, StackAssumption DEF IInv, Hooks, Shape, Registered
  <2>3. CASE m[1] = n[1] /\ m[2] < n[2]
    <3>1. n[2] <= entered[n[1]] => m[2] <= entered[m[1]]
      BY <2>1, <2>2, <2>3, StackAssumption
    <3>2. hook[m] = "idle" => hook[n] = "idle"
      BY <2>1, <2>3 DEF IInv, Hooks
    <3> QED
      BY <2>2, <3>1, <3>2
  <2>4. CASE m[1] = 1 /\ n[1] = 2
    <3>1. hook[n] = "entered" => entered[2] > 0
      BY <2>1, <2>2, <2>4, StackAssumption
    <3>2. hook[n] # "idle" => phase[2] # "idle"
      BY <2>1, <2>2, <2>4, <3>1 DEF IInv, Hooks, Position
    <3>3. hook[n] # "idle" => hook[m] # "idle"
      BY <2>1, <2>4, <3>2 DEF IInv, Opened
    <3>4. hook[n] = "entered" /\ phase[2] # "aborted" => entered[1] = size[1]
      BY <3>1 DEF IInv, Position
    <3> QED
      BY <2>1, <2>2, <2>4, <3>3, <3>4
  <2> QED
    BY <2>1, <2>3, <2>4 DEF Encloses, Level
<1> QED
  BY <1>1, Inductive, PTL

\* FailureNotMasked: the record ends with its first failure.
THEOREM NeverMasked == Spec => []FailureNotMasked
<1>1. IInv => FailureNotMasked
  <2> SUFFICES ASSUME IInv, outcome # "pending"
               PROVE  outcome = IF \E l \in Level : phase[l] = "aborted" THEN "cancelled"
                                ELSE RecordOutcome(first)
    BY DEF FailureNotMasked
  <2>1. outcome = RecordOutcome(exc[1]) /\ phase[1] \in {"after", "aborted"}
    BY DEF IInv, Failure, Position, Finished
  <2>2. CASE \E l \in Level : phase[l] = "aborted"
    <3>1. exc[1].kind = "cancelled"
      BY <2>1, <2>2 DEF IInv, Failure, Level
    <3> QED
      BY <2>1, <2>2, <3>1 DEF RecordOutcome
  <2>3. CASE \A l \in Level : phase[l] # "aborted"
    BY <2>1, <2>3 DEF IInv, Failure, Level
  <2> QED
    BY <2>2, <2>3
<1> QED
  BY <1>1, Inductive, PTL

\* AfterSeesFailure: an after hook is called with the failure of its record.
THEOREM ToldTheFailure == Spec => []AfterSeesFailure
<1>1. IInv => AfterSeesFailure
  <2> SUFFICES ASSUME IInv, NEW m \in Mw, hook[m] = "unwound"
               PROVE  seen[m] = Told(m[1])
    BY DEF AfterSeesFailure, Told
  <2> QED
    BY PairOf DEF IInv, Heard
<1> QED
  BY <1>1, Inductive, PTL

\* HandlerInside: the handler runs at most once, with every middleware entered.
THEOREM RunsInside == Spec => HandlerInside
<1>1. IInv /\ [Next]_vars =>
        [ran' # ran => ~ran /\ \A m \in Registered : hook[m] = "entered"]_vars
  <2> SUFFICES ASSUME IInv, Next, ran' # ran
               PROVE  ~ran /\ \A m \in Registered : hook[m] = "entered"
    BY DEF vars
  <2>1. AllEntered(2)
    BY DEF Next, StackNext, BeforeOk, BeforeRaises, AfterEnds, AfterCancelled, Dispatch,
       RouteNotFound, HandlerOk, HandlerRaises, ReturnToOuter, RecordEnds, Done, history, vars
  <2>2. ~ran /\ entered[1] = size[1] /\ entered[2] = size[2]
    BY <2>1 DEF AllEntered, IInv, Position
  <2>3. ASSUME NEW m \in Registered PROVE hook[m] = "entered"
    <3>1. m = <<m[1], m[2]>> /\ m[1] \in Level /\ m[2] \in 1..MaxSize /\ m[2] <= size[m[1]]
      BY PairOf DEF Registered
    <3>2. m[2] <= entered[m[1]]
      BY <2>2, <3>1 DEF Level
    <3> QED
      BY <3>1, <3>2 DEF IInv, Hooks
  <2> QED
    BY <2>2, <2>3
<1> QED
  BY <1>1, Inductive, PTL DEF Spec, HandlerInside

-----------------------------------------------------------------------------
(* The record goes on and comes to its end.                                *)

\* The calls stack l still has to make or to return from.
Left(l) ==
  CASE phase[l] = "idle"                -> 2 * size[l] + 3
    [] phase[l] = "before"              -> 2 * size[l] - entered[l] + 2
    [] phase[l] = "inner"               -> size[l] + 1
    [] phase[l] \in {"after", "aborted"} -> entered[l]

Work == Left(1) + Left(2) + (IF outcome = "pending" THEN 1 ELSE 0)

\* Some awaited call, or a return, is next: no record hangs between its stacks.
CanGoOn ==
  \/ \E l \in Level : AtBefore(l) \/ AllEntered(l) \/ Unwinding(l)
  \/ Finished(2) /\ phase[1] = "inner"
  \/ Finished(1) /\ outcome = "pending"

Ready == outcome = "pending" => CanGoOn

LEMMA LeftType ==
  ASSUME IInv, NEW l \in Level
  PROVE  Left(l) \in 0..(2 * MaxSize + 3)
<1>1. /\ MaxSize \in Nat /\ size[l] \in 0..MaxSize /\ entered[l] \in 0..MaxSize
      /\ entered[l] <= size[l]
      /\ phase[l] \in {"idle", "before", "inner", "after", "aborted"}
  BY StackAssumption DEF IInv, Shape
<1> QED
  BY <1>1 DEF Left

\* A step of stack l that makes its own work less and leaves the other alone.
LEMMA LessWork ==
  ASSUME IInv, IInv', NEW l \in Level,
         \A k \in Level : k # l => Left(k)' = Left(k),
         Left(l)' < Left(l), outcome' = outcome
  PROVE  Work' < Work
<1>1. ASSUME NEW k \in Level PROVE Left(k) \in Int /\ Left(k)' \in Int
  <2>1. /\ MaxSize \in Nat /\ size[k] \in 0..MaxSize /\ entered[k] \in 0..MaxSize
        /\ phase[k] \in {"idle", "before", "inner", "after", "aborted"}
    BY StackAssumption DEF IInv, Shape
  <2>2. /\ size'[k] \in 0..MaxSize /\ entered'[k] \in 0..MaxSize
        /\ phase'[k] \in {"idle", "before", "inner", "after", "aborted"}
    BY DEF IInv, Shape
  <2> QED
    BY <2>1, <2>2 DEF Left
<1> QED
  BY <1>1 DEF Work, Level

\* Stack l leaves its try block: at most its after hooks are left to it.
LEMMA FinallyWorks ==
  ASSUME IInv, IInv', NEW l \in Level, NEW e, Finally(l, e),
         phase[l] \in {"before", "inner"}, UNCHANGED <<size, entered, outcome>>
  PROVE  Work' < Work
<1>1. /\ MaxSize \in Nat /\ size[l] \in 0..MaxSize /\ entered[l] \in 0..MaxSize
      /\ entered[l] <= size[l]
  BY StackAssumption DEF IInv, Shape
<1>2. phase' = [phase EXCEPT ![l] = "after"]
  BY DEF Finally
<1>3. phase'[l] = "after" /\ \A k \in Level : k # l => phase'[k] = phase[k]
  BY <1>2 DEF IInv, Shape
<1>4. Left(l)' < Left(l)
  BY <1>1, <1>3 DEF Left
<1>5. \A k \in Level : k # l => Left(k)' = Left(k)
  BY <1>3 DEF Left
<1> QED
  BY <1>4, <1>5, LessWork

\* So does an exception.
LEMMA FailsWorks ==
  ASSUME IInv, IInv', NEW l \in Level, NEW kinds, NEW step, NEW i, Fails(l, kinds, step, i),
         phase[l] = "before", UNCHANGED <<size, entered, outcome>>
  PROVE  Work' < Work
<1>1. PICK kind \in kinds : Finally(l, Raise(kind, step, l, i))
  BY DEF Fails
<1> QED
  BY <1>1, FinallyWorks

\* An after hook is called, and no later one of the same middleware.
LEMMA UnwindWorks ==
  ASSUME IInv, IInv', NEW l \in Level, Unwind(l), UNCHANGED <<size, outcome>>,
         phase' = phase \/ phase' = [phase EXCEPT ![l] = "aborted"]
  PROVE  Work' < Work
<1>1. /\ MaxSize \in Nat /\ entered[l] \in 0..MaxSize /\ phase[l] = "after"
      /\ entered' = [entered EXCEPT ![l] = @ - 1]
  BY StackAssumption DEF IInv, Shape, Unwind, Unwinding
<1>2. /\ entered'[l] = entered[l] - 1 /\ phase'[l] \in {"after", "aborted"}
      /\ \A k \in Level : k # l => entered'[k] = entered[k] /\ phase'[k] = phase[k]
  BY <1>1 DEF IInv, Shape
<1>3. Left(l)' < Left(l)
  BY <1>1, <1>2 DEF Left
<1>4. \A k \in Level : k # l => Left(k)' = Left(k)
  BY <1>2 DEF Left
<1> QED
  BY <1>3, <1>4, LessWork

\* A record makes at most 4 * MaxSize + 7 steps: every one is a hook, a call or
\* a return that is not made twice.
THEOREM EveryStepWorks ==
  Spec => [](Work \in 0..(4 * MaxSize + 7)) /\ [][Work' < Work]_vars
<1>1. IInv => Work \in 0..(4 * MaxSize + 7)
  <2> SUFFICES ASSUME IInv PROVE Work \in 0..(4 * MaxSize + 7)
    OBVIOUS
  <2>1. MaxSize \in Nat /\ Left(1) \in 0..(2 * MaxSize + 3) /\ Left(2) \in 0..(2 * MaxSize + 3)
    BY LeftType, StackAssumption DEF Level
  <2> QED
    BY <2>1 DEF Work
<1>2. IInv /\ IInv' /\ [Next]_vars => [Work' < Work]_vars
  <2> SUFFICES ASSUME IInv, IInv', Next, vars' # vars PROVE Work' < Work
    OBVIOUS
  <2>1. ASSUME NEW l \in Level, BeforeOk(l) PROVE Work' < Work
    <3>1. /\ MaxSize \in Nat /\ size[l] \in 0..MaxSize /\ entered[l] \in 0..MaxSize
          /\ phase[l] = "before" /\ UNCHANGED <<size, phase, outcome>>
          /\ entered' = [entered EXCEPT ![l] = @ + 1]
      BY <2>1, StackAssumption DEF IInv, Shape, BeforeOk, AtBefore
    <3>2. /\ entered'[l] = entered[l] + 1
          /\ \A k \in Level : k # l => entered'[k] = entered[k]
      BY <3>1 DEF IInv, Shape
    <3>3. Left(l)' < Left(l)
      BY <3>1, <3>2 DEF Left
    <3>4. \A k \in Level : k # l => Left(k)' = Left(k)
      BY <3>1, <3>2 DEF Left
    <3> QED
      BY <3>1, <3>3, <3>4, LessWork
  <2>2. ASSUME NEW l \in Level, BeforeRaises(l) PROVE Work' < Work
    BY <2>2, FailsWorks DEF BeforeRaises, AtBefore
  <2>3. ASSUME NEW l \in Level, AfterEnds(l) PROVE Work' < Work
    BY <2>3, UnwindWorks DEF AfterEnds
  <2>4. ASSUME NEW l \in Level, AfterCancelled(l) PROVE Work' < Work
    BY <2>4, UnwindWorks DEF AfterCancelled
  <2>5. CASE Dispatch
    <3>1. /\ MaxSize \in Nat /\ \A l \in Level : size[l] \in 0..MaxSize
          /\ entered[1] = size[1] /\ entered[2] = 0
          /\ phase[1] = "before" /\ phase[2] = "idle" /\ level = 1
      BY <2>5, StackAssumption DEF IInv, Shape, Position, Dispatch, AllEntered, Level
    <3>2. /\ phase'[1] = "inner" /\ phase'[2] = "before" /\ UNCHANGED <<size, entered, outcome>>
      BY <2>5 DEF Dispatch, IInv, Shape, Level
    <3> QED
      BY <3>1, <3>2 DEF Work, Left, Level
  <2>6. CASE RouteNotFound
    BY <2>6, FailsWorks DEF RouteNotFound, AllEntered, Level
  <2>7. CASE HandlerOk
    BY <2>7, FinallyWorks DEF HandlerOk, AllEntered, Level
  <2>8. CASE HandlerRaises
    BY <2>8, FailsWorks DEF HandlerRaises, AllEntered, Level
  <2>9. CASE ReturnToOuter
    BY <2>9, FinallyWorks DEF ReturnToOuter, Level
  <2>10. CASE RecordEnds
    <3>1. Left(1) \in 0..(2 * MaxSize + 3) /\ Left(2) \in 0..(2 * MaxSize + 3) /\ MaxSize \in Nat
      BY LeftType, StackAssumption DEF Level
    <3>2. UNCHANGED <<size, entered, phase>> /\ outcome = "pending" /\ outcome' # "pending"
      <4>1. outcome' = RecordOutcome(exc[1]) /\ exc[1].kind \in {"none", "error", "skip", "cancelled"}
        BY <2>10, NoneKind DEF RecordEnds, Finished, IInv, Failure, Raisable, Exceptions
      <4> QED
        BY <2>10, <4>1 DEF RecordEnds, RecordOutcome
    <3>3. Left(1)' = Left(1) /\ Left(2)' = Left(2)
      BY <3>2 DEF Left
    <3> QED
      BY <3>1, <3>2, <3>3 DEF Work
  <2>11. CASE Done
    BY <2>11 DEF Done
  <2> QED
    BY <2>1, <2>2, <2>3, <2>4, <2>5, <2>6, <2>7, <2>8, <2>9, <2>10, <2>11 DEF Next, StackNext
<1> QED
  BY <1>1, <1>2, Inductive, PTL DEF Spec

\* A record that has not ended can take its next step: stack 1 is never left
\* waiting for a stack 2 that is over, nor a stack for a hook it has passed.
THEOREM NeverStuck == Spec => []Ready
<1>1. IInv => Ready
  <2> SUFFICES ASSUME IInv, outcome = "pending" PROVE CanGoOn
    BY DEF Ready
  <2>1. /\ MaxSize \in Nat
        /\ \A l \in Level : /\ size[l] \in 0..MaxSize /\ entered[l] \in 0..MaxSize
                            /\ entered[l] <= size[l]
    BY StackAssumption DEF IInv, Shape
  <2>2. ASSUME NEW l \in Level, level = l, phase[l] = "before" PROVE CanGoOn
    BY <2>1, <2>2 DEF CanGoOn, AtBefore, AllEntered
  <2>3. ASSUME NEW l \in Level, level = l, phase[l] \in {"after", "aborted"}
        PROVE  Unwinding(l) \/ Finished(l)
    BY <2>1, <2>3 DEF Unwinding, Finished
  <2>4. /\ 1 \in Level /\ 2 \in Level
        /\ \/ level = 1 /\ phase[1] = "before"
           \/ level = 2 /\ phase[1] = "inner" /\ phase[2] \in {"before", "after", "aborted"}
           \/ level = 1 /\ phase[1] \in {"after", "aborted"}
    BY DEF IInv, Position, Level
  <2> QED
    BY <2>2, <2>3, <2>4 DEF CanGoOn
<1> QED
  BY <1>1, Inductive, PTL
=============================================================================
