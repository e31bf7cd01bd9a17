------------------------------ MODULE EventLoop ------------------------------
(***************************************************************************)
(* The way into an invocation (fastsqs/app.py): handler() on a persistent  *)
(* loop per app and thread, async_handler() on whatever loop is running,   *)
(* and the other users of event loops in the same process: asyncio.run()   *)
(* elsewhere, an ASGI adapter that looks up the thread's registered loop,  *)
(* and code that closes or replaces that loop between two invocations.     *)
(*                                                                         *)
(* A thread runs one loop at a time and between two actions of a thread    *)
(* the other threads run; a batch is the time its loop runs.               *)
(***************************************************************************)
EXTENDS Naturals

CONSTANTS
  Apps,      \* FastSQS instances
  Threads,   \* threads of the sandbox
  MaxLoops   \* bound: event loops created

ASSUME LoopAssumption == MaxLoops \in Nat

NoLoop == 0
Idle == [by |-> "nobody", loop |-> NoLoop]

VARIABLES
  own,         \* per app and thread: self._loops.loop
  registered,  \* per thread: the loop asyncio.get_event_loop() finds
  running,     \* per thread: the loop that runs, and on whose behalf
  closed,      \* the loops that were closed
  made         \* number of loops created so far

vars == <<own, registered, running, closed, made>>

Live(l) == l # NoLoop /\ l \notin closed

Init ==
  /\ own = [a \in Apps |-> [t \in Threads |-> NoLoop]]
  /\ registered = [t \in Threads |-> NoLoop]
  /\ running = [t \in Threads |-> Idle]
  /\ closed = {}
  /\ made = 0

\* asyncio.new_event_loop().
NewLoop(l) == made < MaxLoops /\ l = made + 1 /\ made' = l

Run(t, l, by) == running' = [running EXCEPT ![t] = [by |-> by, loop |-> l]]

-----------------------------------------------------------------------------
(* FastSQS.                                                                *)

\* Mutant: one loop per app, kept on self instead of in a threading.local.
KeepOnSelf(a, t, l) == own' = [own EXCEPT ![a] = [u \in Threads |-> l]]

Keep(a, t, l) == own' = [own EXCEPT ![a][t] = l]

\* Mutant: the registered loop is taken over, whoever made it.
ThreadLoopAdopted(a, t, l) ==
  \/ Live(own[a][t]) /\ l = own[a][t] /\ UNCHANGED <<own, made>>
  \/ /\ ~Live(own[a][t]) /\ Live(registered[t]) /\ l = registered[t]
     /\ Keep(a, t, l) /\ UNCHANGED made
  \/ ~Live(own[a][t]) /\ ~Live(registered[t]) /\ NewLoop(l) /\ Keep(a, t, l)

\* _thread_loop: the loop of this app and thread, a new one if it was closed.
ThreadLoop(a, t, l) ==
  \/ Live(own[a][t]) /\ l = own[a][t] /\ UNCHANGED <<own, made>>
  \/ ~Live(own[a][t]) /\ NewLoop(l) /\ Keep(a, t, l)

\* Mutant: the loop is registered only when it is created.
RegisterOnce(a, t, l) ==
  registered' = IF l = own[a][t] THEN registered ELSE [registered EXCEPT ![t] = l]

Register(a, t, l) == registered' = [registered EXCEPT ![t] = l]

\* handler() outside a running loop.  Inside one it raises RuntimeError before
\* it touches anything (app.py:150-158), which is no step here.
Handler(a, t) ==
  /\ running[t] = Idle
  /\ \E l \in 1..MaxLoops :
       /\ ThreadLoop(a, t, l)
       /\ Register(a, t, l)
       /\ Run(t, l, "handler")
  /\ UNCHANGED closed

\* run_until_complete returns the reply or raises what _handle_event raised:
\* the loop stays open and registered.
HandlerReturns(t) ==
  /\ running[t].by = "handler"
  /\ running' = [running EXCEPT ![t] = Idle]
  /\ UNCHANGED <<own, registered, closed, made>>

\* async_handler() is awaited inside a foreign loop, which keeps running.
AsyncHandler(t) ==
  /\ running[t].by = "foreign"
  /\ Run(t, running[t].loop, "async_handler")
  /\ UNCHANGED <<own, registered, closed, made>>

AsyncHandlerReturns(t) ==
  /\ running[t].by = "async_handler"
  /\ Run(t, running[t].loop, "foreign")
  /\ UNCHANGED <<own, registered, closed, made>>

-----------------------------------------------------------------------------
(* Everybody else in the process.                                          *)

\* asyncio.run(): a new loop is registered and runs.
ForeignRun(t) ==
  /\ running[t] = Idle
  /\ \E l \in 1..MaxLoops :
       /\ NewLoop(l)
       /\ registered' = [registered EXCEPT ![t] = l]
       /\ Run(t, l, "foreign")
  /\ UNCHANGED <<own, closed>>

\* It closes its loop and leaves the thread without a registered one.
ForeignRunEnds(t) ==
  /\ running[t].by = "foreign"
  /\ running' = [running EXCEPT ![t] = Idle]
  /\ closed' = closed \cup {running[t].loop}
  /\ registered' = [registered EXCEPT ![t] = NoLoop]
  /\ UNCHANGED <<own, made>>

\* set_event_loop() with a loop of one's own.
ForeignSet(t) ==
  /\ running[t] = Idle
  /\ \E l \in 1..MaxLoops : NewLoop(l) /\ registered' = [registered EXCEPT ![t] = l]
  /\ UNCHANGED <<own, running, closed>>

\* Somebody closes the loop get_event_loop() gave him, perhaps an app's own.
ForeignClose(t) ==
  /\ running[t] = Idle
  /\ Live(registered[t])
  /\ closed' = closed \cup {registered[t]}
  /\ UNCHANGED <<own, registered, running, made>>

\* A consumer (an ASGI adapter) runs on the registered loop.
ConsumerRun(t) ==
  /\ running[t] = Idle
  /\ Live(registered[t])
  /\ Run(t, registered[t], "consumer")
  /\ UNCHANGED <<own, registered, closed, made>>

ConsumerEnds(t) ==
  /\ running[t].by = "consumer"
  /\ running' = [running EXCEPT ![t] = Idle]
  /\ UNCHANGED <<own, registered, closed, made>>

-----------------------------------------------------------------------------
App(t) ==
  \/ \E a \in Apps : Handler(a, t)
  \/ HandlerReturns(t) \/ AsyncHandler(t) \/ AsyncHandlerReturns(t)

Others(t) ==
  \/ ForeignRun(t) \/ ForeignRunEnds(t) \/ ForeignSet(t) \/ ForeignClose(t)
  \/ ConsumerRun(t) \/ ConsumerEnds(t)

Next == \E t \in Threads : App(t) \/ Others(t)

Spec == Init /\ [][Next]_vars

-----------------------------------------------------------------------------
(* Properties.                                                             *)

Loops == 0..MaxLoops

\* The state has its shape.
TypeOK ==
  /\ own \in [Apps -> [Threads -> Loops]]
  /\ registered \in [Threads -> Loops]
  /\ running \in [Threads ->
       [by : {"nobody", "handler", "async_handler", "foreign", "consumer"}, loop : Loops]]
  /\ closed \subseteq Loops
  /\ made \in Loops

\* The loops a thread may touch.
Reach(t) == ({own[a][t] : a \in Apps} \cup {registered[t], running[t].loop}) \ {NoLoop}

\* No loop is within reach of two threads: asyncio's loops are not thread-safe,
\* and two threads in handler() at once must not drive the same one
\* (app.py:66, test_each_thread_gets_its_own_loop).
LoopPerThread == \A t, u \in Threads : t # u => Reach(t) \cap Reach(u) = {}

\* What runs, runs on a loop that is open, whoever closed one in between, and
\* two apps of a thread never keep the same loop: closing or stopping one's
\* loop leaves the batches of the other alone (app.py:169-175).
BatchLoopSound ==
  \A t \in Threads :
    /\ running[t] # Idle => Live(running[t].loop)
    /\ \A a, b \in Apps : own[a][t] = own[b][t] /\ own[a][t] # NoLoop => a = b

\* A thread is left with an open registered loop when handler() returns: loop
\* consumers that run after it in the same process find one (app.py:163-166).
ConsumerFindsLoop ==
  [][\A t \in Threads :
       running[t].by = "handler" /\ running'[t] = Idle => Live(registered'[t])]_vars
=============================================================================
