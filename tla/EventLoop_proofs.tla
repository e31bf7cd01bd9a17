--------------------------- MODULE EventLoop_proofs --------------------------
(***************************************************************************)
(* Theorems of EventLoop, for any number of apps, threads and loops: no    *)
(* loop is within reach of two threads, batches run on open loops,         *)
(* handler() leaves its thread an open registered loop, no thread disturbs *)
(* another, and an app keeps its loop until it is closed.                  *)
(***************************************************************************)
EXTENDS EventLoop, TLAPS

\* A loop that is within reach, or closed, was created.
Created ==
  /\ closed \subseteq 1..made
  /\ \A t \in Threads : Reach(t) \subseteq 1..made

\* A batch of handler() runs on the loop that is registered.
Registration ==
  \A t \in Threads : running[t].by = "handler" => registered[t] = running[t].loop

IInv == TypeOK /\ Created /\ LoopPerThread /\ BatchLoopSound /\ Registration

-----------------------------------------------------------------------------
(* What the reach of a thread is made of.                                  *)

\* The reach of a thread, loop by loop.
LEMMA ReachOf ==
  ASSUME NEW t \in Threads, NEW l
  PROVE  l \in Reach(t) <=>
           /\ l # NoLoop
           /\ (\E a \in Apps : own[a][t] = l) \/ registered[t] = l \/ running[t].loop = l
  BY DEF Reach

\* The same of the next state.
LEMMA ReachOfNext ==
  ASSUME NEW t \in Threads, NEW l
  PROVE  l \in Reach(t)' <=>
           /\ l # NoLoop
           /\ \/ \E a \in Apps : own'[a][t] = l
              \/ registered'[t] = l
              \/ running'[t].loop = l
  BY DEF Reach

\* A step of thread t that reaches nothing but what t reached before and one
\* loop that is new keeps the threads apart.
LEMMA Apart ==
  ASSUME IInv, NEW t \in Threads,
         \A u \in Threads \ {t} : Reach(u)' = Reach(u),
         made' \in Loops,
         \/ made' = made /\ Reach(t)' \subseteq Reach(t)
         \/ made' = made + 1 /\ Reach(t)' \subseteq Reach(t) \cup {made + 1}
  PROVE  /\ LoopPerThread'
         /\ \A u \in Threads : Reach(u)' \subseteq 1..made'
<1>1. made \in Nat
  BY LoopAssumption DEF IInv, TypeOK, Loops
<1>2. \A u \in Threads : Reach(u) \subseteq 1..made
  BY DEF IInv, Created
<1>3. \A u \in Threads : Reach(u)' \subseteq 1..made'
  BY <1>1, <1>2
<1>4. \A u, v \in Threads : u # v => Reach(u) \cap Reach(v) = {}
  BY DEF IInv, LoopPerThread
<1>5. \A u \in Threads \ {t} : Reach(u)' \cap Reach(t)' = {}
  BY <1>1, <1>2, <1>4
<1>6. \A u, v \in Threads : u # v => Reach(u)' \cap Reach(v)' = {}
  BY <1>4, <1>5
<1> QED
  BY <1>3, <1>6 DEF LoopPerThread

\* What a state without apps, threads' loops or registrations of t that
\* changed keeps of its reach.
LEMMA SameReach ==
  ASSUME NEW u \in Threads,
         \A a \in Apps : own'[a][u] = own[a][u],
         registered'[u] = registered[u],
         running'[u].loop = running[u].loop
  PROVE  Reach(u)' = Reach(u)
<1>1. \A l : l \in Reach(u)' <=> l \in Reach(u)
  BY ReachOf, ReachOfNext
<1> QED
  BY <1>1
-----------------------------------------------------------------------------
(* Every action keeps the invariant.                                       *)

LEMMA InitKeeps ==
  ASSUME Init PROVE IInv
<1>1. \A t \in Threads : Reach(t) = {}
  BY DEF Init, Reach, Idle
<1>2. TypeOK
  BY LoopAssumption DEF Init, TypeOK, Loops, Idle, NoLoop
<1>3. Created /\ LoopPerThread
  BY <1>1 DEF Init, Created, LoopPerThread
<1>4. BatchLoopSound /\ Registration
  BY DEF Init, BatchLoopSound, Registration, Idle
<1> QED
  BY <1>2, <1>3, <1>4 DEF IInv

LEMMA HandlerKeeps ==
  ASSUME IInv, NEW a \in Apps, NEW t \in Threads, Handler(a, t)
  PROVE  IInv'
<1>1. PICK l \in 1..MaxLoops : ThreadLoop(a, t, l) /\ Register(a, t, l) /\ Run(t, l, "handler")
  BY DEF Handler
<1>2. TypeOK /\ Created /\ LoopPerThread /\ BatchLoopSound /\ Registration
  BY DEF IInv
<1>3. made \in Nat /\ MaxLoops \in Nat /\ UNCHANGED closed
  BY <1>2, LoopAssumption DEF TypeOK, Loops, Handler
<1>4. /\ registered' = [registered EXCEPT ![t] = l]
      /\ running' = [running EXCEPT ![t] = [by |-> "handler", loop |-> l]]
  BY <1>1 DEF Register, Run
<1>5. \/ Live(l) /\ l = own[a][t] /\ own' = own /\ made' = made
      \/ /\ made < MaxLoops /\ l = made + 1 /\ made' = made + 1
         /\ own' = [own EXCEPT ![a][t] = l]
  BY <1>1 DEF ThreadLoop, NewLoop, Keep
<1>6. \A b \in Apps, u \in Threads : own'[b][u] = IF b = a /\ u = t THEN l ELSE own[b][u]
  BY <1>2, <1>5 DEF TypeOK
<1>7. TypeOK'
  <2>1. own' \in [Apps -> [Threads -> Loops]]
    <3>1. l \in Loops /\ own \in [Apps -> [Threads -> Loops]]
      BY <1>2, <1>3 DEF TypeOK, Loops
    <3>2. [own EXCEPT ![a][t] = l] \in [Apps -> [Threads -> Loops]]
      BY <3>1
    <3> QED
      BY <1>5, <3>1, <3>2
  <2>2. registered' \in [Threads -> Loops]
    BY <1>2, <1>3, <1>4 DEF TypeOK, Loops
  <2>3. running' \in [Threads ->
          [by : {"nobody", "handler", "async_handler", "foreign", "consumer"}, loop : Loops]]
    BY <1>2, <1>3, <1>4 DEF TypeOK, Loops
  <2>4. made' \in Loops
    BY <1>2, <1>3, <1>5 DEF TypeOK, Loops
  <2> QED
    BY <1>2, <1>3, <2>1, <2>2, <2>3, <2>4 DEF TypeOK
<1>8. \A u \in Threads : registered'[u] = (IF u = t THEN l ELSE registered[u])
  BY <1>2, <1>4 DEF TypeOK
<1>9. \A u \in Threads :
        running'[u] = (IF u = t THEN [by |-> "handler", loop |-> l] ELSE running[u])
  BY <1>2, <1>4 DEF TypeOK
<1>10. \A u \in Threads \ {t} : Reach(u)' = Reach(u)
  <2> SUFFICES ASSUME NEW u \in Threads \ {t} PROVE Reach(u)' = Reach(u)
    OBVIOUS
  <2>1. /\ \A b \in Apps : own'[b][u] = own[b][u]
        /\ registered'[u] = registered[u] /\ running'[u].loop = running[u].loop
    BY <1>6, <1>8, <1>9
  <2> QED
    BY <2>1, SameReach
<1>11. \A x : x \in Reach(t)' => x \in Reach(t) \cup {l}
  BY <1>6, <1>8, <1>9, ReachOf, ReachOfNext
<1>12. LoopPerThread' /\ (\A u \in Threads : Reach(u)' \subseteq 1..made')
  <2>1. CASE made' = made
    <3>1. Live(l) /\ l = own[a][t]
      BY <1>3, <1>5, <2>1
    <3>2. l \in Reach(t)
      BY <3>1, ReachOf DEF Live
    <3>3. Reach(t)' \subseteq Reach(t)
      BY <1>11, <3>2
    <3> QED
      BY <1>7, <1>10, <2>1, <3>3, Apart DEF TypeOK
  <2>2. CASE made' = made + 1
    <3>1. l = made + 1
      BY <1>3, <1>5, <2>2
    <3>2. Reach(t)' \subseteq Reach(t) \cup {made + 1}
      BY <1>11, <3>1
    <3> QED
      BY <1>7, <1>10, <2>2, <3>2, Apart DEF TypeOK
  <2> QED
    BY <1>5, <2>1, <2>2
<1>13. Created'
  BY <1>2, <1>3, <1>5, <1>12 DEF Created
<1>14. l # NoLoop /\ l \notin closed
  BY <1>2, <1>3, <1>5 DEF Live, NoLoop, Created
<1>15. BatchLoopSound'
  <2>1. \A u \in Threads : (running[u] # Idle => Live(running[u].loop))'
    BY <1>2, <1>3, <1>9, <1>14 DEF BatchLoopSound, Live, NoLoop
  <2>2. \A u \in Threads : \A b, c \in Apps :
          own'[b][u] = own'[c][u] /\ own'[b][u] # NoLoop => b = c
    <3> SUFFICES ASSUME NEW u \in Threads, NEW b \in Apps, NEW c \in Apps,
                        own'[b][u] = own'[c][u], own'[b][u] # NoLoop, b # c
                 PROVE  FALSE
      OBVIOUS
    <3>1. CASE own' = own
      BY <1>2, <3>1 DEF BatchLoopSound
    <3>2. CASE l = made + 1
      <4>1. own[b][u] # NoLoop => own[b][u] \in 1..made
        BY <1>2, ReachOf DEF Created
      <4>2. own[c][u] # NoLoop => own[c][u] \in 1..made
        BY <1>2, ReachOf DEF Created
      <4>3. own[b][u] = own[c][u] => own[b][u] = NoLoop
        BY <1>2 DEF BatchLoopSound
      <4> QED
        BY <1>3, <1>6, <3>2, <4>1, <4>2, <4>3, <1>14 DEF NoLoop
    <3> QED
      BY <1>5, <3>1, <3>2
  <2> QED
    BY <2>1, <2>2 DEF BatchLoopSound
<1>16. Registration'
  BY <1>2, <1>8, <1>9 DEF Registration
<1> QED
  BY <1>7, <1>12, <1>13, <1>15, <1>16 DEF IInv

\* The steps that keep no loop on an app: they reach at most one new loop,
\* close at most what their own thread reaches and run what is open.
LEMMA StepKeeps ==
  ASSUME IInv, NEW t \in Threads, TypeOK', own' = own,
         \A u \in Threads \ {t} : registered'[u] = registered[u] /\ running'[u] = running[u],
         \/ made' = made /\ Reach(t)' \subseteq Reach(t)
         \/ made' = made + 1 /\ Reach(t)' \subseteq Reach(t) \cup {made + 1},
         closed' \subseteq closed \cup Reach(t),
         running'[t] = Idle \/ (running'[t].loop # NoLoop /\ running'[t].loop \notin closed'),
         running'[t].by = "handler" => registered'[t] = running'[t].loop
  PROVE  IInv'
<1>1. Created /\ LoopPerThread /\ BatchLoopSound /\ Registration /\ made \in Nat
  BY LoopAssumption DEF IInv, TypeOK, Loops
<1>2. \A u \in Threads \ {t} : Reach(u)' = Reach(u)
  BY SameReach
<1>3. LoopPerThread' /\ (\A u \in Threads : Reach(u)' \subseteq 1..made')
  BY <1>2, Apart DEF TypeOK
<1>4. Created'
  <2>1. closed' \subseteq 1..made
    BY <1>1 DEF Created
  <2> QED
    BY <1>1, <1>3, <2>1 DEF Created
<1>5. BatchLoopSound'
  <2>1. \A u \in Threads : (running[u] # Idle => Live(running[u].loop))'
    <3> SUFFICES ASSUME NEW u \in Threads, running'[u] # Idle
                 PROVE  running'[u].loop # NoLoop /\ running'[u].loop \notin closed'
      BY DEF Live
    <3>1. CASE u = t
      BY <3>1
    <3>2. CASE u # t
      <4>1. Live(running[u].loop) /\ running'[u] = running[u]
        BY <1>1, <3>2 DEF BatchLoopSound
      <4>2. running[u].loop \in Reach(u)
        BY <4>1, ReachOf DEF Live
      <4>3. running[u].loop \notin Reach(t)
        BY <1>1, <3>2, <4>2 DEF LoopPerThread
      <4> QED
        BY <4>1, <4>3 DEF Live
    <3> QED
      BY <3>1, <3>2
  <2>2. \A u \in Threads : \A b, c \in Apps :
          own'[b][u] = own'[c][u] /\ own'[b][u] # NoLoop => b = c
    BY <1>1 DEF BatchLoopSound
  <2> QED
    BY <2>1, <2>2 DEF BatchLoopSound
<1>6. Registration'
  BY <1>1 DEF Registration
<1> QED
  BY <1>3, <1>4, <1>5, <1>6 DEF IInv

\* A thread goes from one user of a loop to another, or to none.
LEMMA TurnKeeps ==
  ASSUME IInv, NEW t \in Threads,
         NEW by \in {"async_handler", "foreign", "consumer"}, NEW l,
         \/ running' = [running EXCEPT ![t] = Idle]
         \/ Live(l) /\ l \in Reach(t) /\ Run(t, l, by),
         UNCHANGED <<own, registered, closed, made>>
  PROVE  IInv'
<1>1. TypeOK /\ Created /\ made \in Nat
  BY LoopAssumption DEF IInv, TypeOK, Loops
<1>2. l \in Reach(t) => l \in Loops
  BY <1>1, LoopAssumption DEF Created, TypeOK, Loops
<1>3. TypeOK'
  BY <1>1, <1>2, LoopAssumption DEF TypeOK, Loops, Run, Idle, NoLoop
<1>4. running'[t] = Idle \/ (running'[t] = [by |-> by, loop |-> l] /\ Live(l) /\ l \in Reach(t))
  BY <1>1 DEF TypeOK, Run
<1>5. \A u \in Threads \ {t} : running'[u] = running[u]
  BY <1>1 DEF TypeOK, Run
<1>6. \A x : x \in Reach(t)' => x \in Reach(t)
  BY <1>4, ReachOf, ReachOfNext DEF Idle
<1> QED
  BY <1>3, <1>4, <1>5, <1>6, StepKeeps DEF Live, Idle

\* A thread that is idle gets a new loop registered, and may run it.
LEMMA NewKeeps ==
  ASSUME IInv, NEW t \in Threads, NEW l \in 1..MaxLoops, NewLoop(l),
         registered' = [registered EXCEPT ![t] = l],
         (running' = running /\ running[t] = Idle) \/ Run(t, l, "foreign"),
         UNCHANGED <<own, closed>>
  PROVE  IInv'
<1>1. TypeOK /\ Created /\ made \in Nat /\ MaxLoops \in Nat
  BY LoopAssumption DEF IInv, TypeOK, Loops
<1>2. l = made + 1 /\ made' = made + 1 /\ l \in Loops /\ made' \in Loops
  BY <1>1 DEF NewLoop, Loops
<1>3. TypeOK'
  BY <1>1, <1>2 DEF TypeOK, Run
<1>4. running'[t] = Idle \/ running'[t] = [by |-> "foreign", loop |-> l]
  BY <1>1 DEF TypeOK, Run
<1>5. \A u \in Threads \ {t} : running'[u] = running[u] /\ registered'[u] = registered[u]
  BY <1>1 DEF TypeOK, Run
<1>6. registered'[t] = l
  BY <1>1 DEF TypeOK
<1>7. \A x : x \in Reach(t)' => x \in Reach(t) \cup {made + 1}
  BY <1>2, <1>4, <1>6, ReachOf, ReachOfNext DEF Idle
<1>8. l # NoLoop /\ l \notin closed
  BY <1>1, <1>2 DEF Created, NoLoop
<1> QED
  BY <1>2, <1>3, <1>4, <1>5, <1>7, <1>8, StepKeeps DEF Idle

\* Somebody closes a loop within the thread's reach, and the thread is idle.
LEMMA CloseKeeps ==
  ASSUME IInv, NEW t \in Threads, NEW l \in Reach(t),
         running' = [running EXCEPT ![t] = Idle],
         registered' = registered \/ registered' = [registered EXCEPT ![t] = NoLoop],
         closed' = closed \cup {l},
         UNCHANGED <<own, made>>
  PROVE  IInv'
<1>1. TypeOK /\ Created /\ made \in Nat
  BY LoopAssumption DEF IInv, TypeOK, Loops
<1>2. l \in Loops
  BY <1>1, LoopAssumption DEF Created, TypeOK, Loops
<1>3. TypeOK'
  BY <1>1, <1>2, LoopAssumption DEF TypeOK, Loops, Idle, NoLoop
<1>4. /\ running'[t] = Idle
      /\ registered'[t] = registered[t] \/ registered'[t] = NoLoop
  BY <1>1 DEF TypeOK
<1>5. \A u \in Threads \ {t} : running'[u] = running[u] /\ registered'[u] = registered[u]
  BY <1>1 DEF TypeOK
<1>6. \A x : x \in Reach(t)' => x \in Reach(t)
  BY <1>4, ReachOf, ReachOfNext DEF Idle
<1> QED
  BY <1>3, <1>4, <1>5, <1>6, StepKeeps DEF Idle

\* Every step keeps the invariant.
LEMMA NextKeeps ==
  ASSUME IInv, [Next]_vars PROVE IInv'
<1>1. TypeOK /\ BatchLoopSound
  BY DEF IInv
<1>2. ASSUME NEW t \in Threads, NEW a \in Apps, Handler(a, t) PROVE IInv'
  BY <1>2, HandlerKeeps
<1>3. ASSUME NEW t \in Threads, HandlerReturns(t) \/ ConsumerEnds(t) PROVE IInv'
  BY <1>3, TurnKeeps DEF HandlerReturns, ConsumerEnds
<1>4. ASSUME NEW t \in Threads, AsyncHandler(t) \/ AsyncHandlerReturns(t) PROVE IInv'
  <2>1. running[t] # Idle /\ Live(running[t].loop)
    BY <1>1, <1>4 DEF AsyncHandler, AsyncHandlerReturns, Idle, BatchLoopSound
  <2>2. running[t].loop \in Reach(t)
    BY <2>1, ReachOf DEF Live
  <2> QED
    BY <1>4, <2>1, <2>2, TurnKeeps DEF AsyncHandler, AsyncHandlerReturns
<1>5. ASSUME NEW t \in Threads, ForeignRun(t) PROVE IInv'
  BY <1>5, NewKeeps DEF ForeignRun
<1>6. ASSUME NEW t \in Threads, ForeignRunEnds(t) PROVE IInv'
  <2>1. running[t] # Idle /\ Live(running[t].loop)
    BY <1>1, <1>6 DEF ForeignRunEnds, Idle, BatchLoopSound
  <2>2. running[t].loop \in Reach(t)
    BY <2>1, ReachOf DEF Live
  <2> QED
    BY <1>6, <2>2, CloseKeeps DEF ForeignRunEnds
<1>7. ASSUME NEW t \in Threads, ForeignSet(t) PROVE IInv'
  BY <1>7, NewKeeps DEF ForeignSet
<1>8. ASSUME NEW t \in Threads, ForeignClose(t) PROVE IInv'
  <2>1. registered[t] \in Reach(t)
    BY <1>8, ReachOf DEF ForeignClose, Live
  <2>2. running' = [running EXCEPT ![t] = Idle]
    BY <1>1, <1>8 DEF ForeignClose, TypeOK
  <2> QED
    BY <1>8, <2>1, <2>2, CloseKeeps DEF ForeignClose
<1>9. ASSUME NEW t \in Threads, ConsumerRun(t) PROVE IInv'
  <2>1. registered[t] \in Reach(t)
    BY <1>9, ReachOf DEF ConsumerRun, Live
  <2> QED
    BY <1>9, <2>1, TurnKeeps DEF ConsumerRun
<1>10. CASE UNCHANGED vars
  <2>1. \A t \in Threads : Reach(t)' = Reach(t)
    BY <1>10, SameReach DEF vars
  <2>2. Created' /\ LoopPerThread'
    BY <1>10, <2>1 DEF vars, IInv, Created, LoopPerThread
  <2>3. TypeOK' /\ BatchLoopSound' /\ Registration'
    BY <1>10 DEF vars, IInv, TypeOK, BatchLoopSound, Live, Registration
  <2> QED
    BY <2>2, <2>3 DEF IInv
<1> QED
  BY <1>2, <1>3, <1>4, <1>5, <1>6, <1>7, <1>8, <1>9, <1>10 DEF Next, App, Others

-----------------------------------------------------------------------------
(* Theorems.                                                               *)

\* The invariant holds in every reachable state.
THEOREM Inductive == Spec => []IInv
<1>1. Init => IInv
  BY InitKeeps
<1>2. IInv /\ [Next]_vars => IInv'
  BY NextKeeps
<1> QED
  BY <1>1, <1>2, PTL DEF Spec

\* No two threads can touch one loop: threading.local keeps them apart.
THEOREM ThreadsApart == Spec => []LoopPerThread
<1>1. IInv => LoopPerThread
  BY DEF IInv
<1> QED
  BY <1>1, Inductive, PTL

\* A batch runs on an open loop, and two apps never keep the same one.
THEOREM BatchesOnOpenLoops == Spec => []BatchLoopSound
<1>1. IInv => BatchLoopSound
  BY DEF IInv
<1> QED
  BY <1>1, Inductive, PTL

\* handler() leaves its thread an open registered loop.
THEOREM LoopLeftRegistered == Spec => ConsumerFindsLoop
<1>1. ASSUME IInv, Next, NEW t \in Threads, running[t].by = "handler", running'[t] = Idle
      PROVE  Live(registered'[t])
  <2>1. running[t] # Idle
    BY <1>1 DEF Idle
  <2>2. TypeOK /\ Live(running[t].loop) /\ registered[t] = running[t].loop
    BY <1>1, <2>1 DEF IInv, BatchLoopSound, Registration
  <2>3. registered'[t] = registered[t]
    <3>1. PICK u \in Threads : App(u) \/ Others(u)
      BY <1>1 DEF Next
    <3>2. u = t
      BY <1>1, <2>1, <2>2, <3>1 DEF TypeOK, App, Others, Handler, HandlerReturns, AsyncHandler,
         AsyncHandlerReturns, ForeignRun, ForeignRunEnds, ForeignSet, ForeignClose,
         ConsumerRun, ConsumerEnds, Run
    <3>3. HandlerReturns(t)
      BY <1>1, <2>1, <3>1, <3>2 DEF App, Others, Handler, AsyncHandler,
         AsyncHandlerReturns, ForeignRun, ForeignRunEnds, ForeignSet, ForeignClose,
         ConsumerRun, ConsumerEnds
    <3> QED
      BY <3>3 DEF HandlerReturns
  <2> QED
    BY <2>2, <2>3
<1>2. IInv /\ [Next]_vars =>
        [\A t \in Threads :
           running[t].by = "handler" /\ running'[t] = Idle => Live(registered'[t])]_vars
  BY <1>1
<1> QED
  BY <1>2, Inductive, PTL DEF Spec, ConsumerFindsLoop

-----------------------------------------------------------------------------
(* What a step may never do.                                               *)

\* Nothing that a thread may touch, nor what it runs, changes under it.
Undisturbed(u) ==
  /\ running'[u] = running[u]
  /\ Reach(u)' = Reach(u)
  /\ \A l \in Reach(u) : Live(l)' <=> Live(l)

\* Whatever a thread does, a batch that another one has started is left alone:
\* nobody closes its loop, and nobody takes or replaces one that it may use
\* (app.py:66, 169-175).  It takes LoopPerThread: what is closed is what the
\* closing thread reaches.
THEOREM ThreadsDoNotDisturb ==
  Spec => [][\A t \in Threads : App(t) \/ Others(t) =>
               \A u \in Threads \ {t} : Undisturbed(u)]_vars
<1>1. ASSUME IInv, NEW t \in Threads, App(t) \/ Others(t), NEW u \in Threads \ {t}
      PROVE  Undisturbed(u)
  <2>1. TypeOK /\ LoopPerThread /\ BatchLoopSound
    BY <1>1 DEF IInv
  <2>2. \A a \in Apps : own'[a][u] = own[a][u]
    BY <1>1, <2>1 DEF App, Others, Handler, ThreadLoop, Keep, HandlerReturns, AsyncHandler,
       AsyncHandlerReturns, ForeignRun, ForeignRunEnds, ForeignSet, ForeignClose,
       ConsumerRun, ConsumerEnds, TypeOK
  <2>3. running'[u] = running[u] /\ registered'[u] = registered[u]
    BY <1>1, <2>1 DEF App, Others, Handler, Register, Run, HandlerReturns, AsyncHandler,
       AsyncHandlerReturns, ForeignRun, ForeignRunEnds, ForeignSet, ForeignClose,
       ConsumerRun, ConsumerEnds, TypeOK
  <2>4. Reach(u)' = Reach(u)
    BY <2>2, <2>3, SameReach
  <2>5. ASSUME NEW l \in closed', l \notin closed PROVE l \in Reach(t) \cup {NoLoop}
    <3>1. \/ ForeignRunEnds(t) /\ l = running[t].loop
          \/ ForeignClose(t) /\ l = registered[t]
      BY <1>1, <2>5 DEF App, Others, Handler, HandlerReturns, AsyncHandler,
         AsyncHandlerReturns, ForeignRun, ForeignRunEnds, ForeignSet, ForeignClose,
         ConsumerRun, ConsumerEnds
    <3> QED
      BY <3>1, ReachOf
  <2>6. closed \subseteq closed'
    BY <1>1 DEF App, Others, Handler, HandlerReturns, AsyncHandler, AsyncHandlerReturns,
       ForeignRun, ForeignRunEnds, ForeignSet, ForeignClose, ConsumerRun, ConsumerEnds
  <2>7. \A l \in Reach(u) : l # NoLoop /\ l \notin Reach(t)
    BY <1>1, <2>1, ReachOf DEF LoopPerThread
  <2>8. \A l \in Reach(u) : Live(l)' <=> Live(l)
    BY <2>5, <2>6, <2>7 DEF Live
  <2> QED
    BY <2>3, <2>4, <2>8 DEF Undisturbed
<1>2. ASSUME IInv, UNCHANGED vars, NEW t \in Threads, NEW u \in Threads \ {t}
      PROVE  Undisturbed(u)
  BY <1>2, SameReach DEF vars, Undisturbed, Live
<1>3. IInv /\ [Next]_vars =>
        \A t \in Threads : App(t) \/ Others(t) => \A u \in Threads \ {t} : Undisturbed(u)
  BY <1>1, <1>2
<1> QED
  BY <1>3, Inductive, PTL DEF Spec

\* The loop an app keeps for a thread stays its loop until somebody closes it,
\* and only that app's handler(), on that thread, replaces it, by a loop that
\* nobody had before: a loop is made for each one that is lost and no more
\* (app.py:169-175, test_loop_is_reused_across_invocations).
THEOREM LoopKeptUntilClosed ==
  Spec => [][\A a \in Apps, t \in Threads :
               own'[a][t] # own[a][t] =>
                 /\ Handler(a, t)
                 /\ ~Live(own[a][t])
                 /\ Live(own[a][t])'
                 /\ \A u \in Threads : own'[a][t] \notin Reach(u)]_vars
<1>1. ASSUME IInv, Next, NEW a \in Apps, NEW t \in Threads, own'[a][t] # own[a][t]
      PROVE  /\ Handler(a, t)
             /\ ~Live(own[a][t])
             /\ Live(own[a][t])'
             /\ \A u \in Threads : own'[a][t] \notin Reach(u)
  <2>1. TypeOK /\ Created /\ made \in Nat
    BY <1>1, LoopAssumption DEF IInv, TypeOK, Loops
  <2>2. PICK b \in Apps, u \in Threads : Handler(b, u)
    BY <1>1 DEF Next, App, Others, HandlerReturns, AsyncHandler, AsyncHandlerReturns,
       ForeignRun, ForeignRunEnds, ForeignSet, ForeignClose, ConsumerRun, ConsumerEnds
  <2>3. PICK l \in 1..MaxLoops : ThreadLoop(b, u, l)
    BY <2>2 DEF Handler
  <2>4. ~Live(own[b][u]) /\ NewLoop(l) /\ Keep(b, u, l)
    BY <1>1, <2>3 DEF ThreadLoop
  <2>5. a = b /\ t = u /\ own'[a][t] = l
    BY <1>1, <2>1, <2>4 DEF TypeOK, Keep
  <2>6. l = made + 1 /\ l \notin closed /\ l # NoLoop /\ \A v \in Threads : l \notin Reach(v)
    BY <2>1, <2>4 DEF NewLoop, Created, NoLoop
  <2>7. closed' = closed
    BY <2>2 DEF Handler
  <2> QED
    BY <2>2, <2>4, <2>5, <2>6, <2>7 DEF Live
<1>2. UNCHANGED vars => \A a \in Apps, t \in Threads : own'[a][t] = own[a][t]
  BY DEF vars
<1>3. IInv /\ [Next]_vars =>
        \A a \in Apps, t \in Threads :
          own'[a][t] # own[a][t] =>
            /\ Handler(a, t)
            /\ ~Live(own[a][t])
            /\ Live(own[a][t])'
            /\ \A u \in Threads : own'[a][t] \notin Reach(u)
  BY <1>1, <1>2
<1> QED
  BY <1>3, Inductive, PTL DEF Spec
=============================================================================
