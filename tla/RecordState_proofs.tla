-------------------------- MODULE RecordState_proofs -------------------------
(***************************************************************************)
(* Theorems of RecordState: when the idempotency layers of every record    *)
(* resolve one key, a claim is ended by the delivery that took it, and no  *)
(* delivery ends without its claims.  For any chains, records and stores.  *)
(***************************************************************************)
EXTENDS RecordState, TLAPS

\* The two names that IdempotencyMiddleware keeps in ctx.state.
Flag(r) == Get(state[r], "_idempotency_acquired")
Key(r) == Get(state[r], "idempotency_key")

Store(r, i) == chain(r)[i].store
KeyOf(r, i) == KeyAt(r, chain(r)[i])

\* The layers of r that hold a claim.
Held(r) == {i \in Dedups(r) : i <= entered[r] /\ KeyOf(r, i) # None}

Shape ==
  /\ message \in [Records -> Messages]
  /\ phase \in [Records -> {"before", "after", "done", "failed"}]
  /\ entered \in [Records -> Nat]
  /\ \A r \in Records : entered[r] <= Len(chain(r))
  /\ DOMAIN state = Records /\ state = [r \in Records |-> state[r]]
  /\ store \in [Stores -> [Keys -> {"free", "in_progress", "completed"}]]
  /\ holder \in [Stores -> [Keys -> Records \cup {None}]]

\* A record that has ended has unwound every layer.
Ended == \A r \in Records : ~InFlight(r) => entered[r] = 0

\* With the flag set, ctx.state has a key that some layer of the record resolves.
Flagged ==
  \A r \in Records :
    InFlight(r) /\ Flag(r) = TRUE => \E i \in Dedups(r) : Key(r) = KeyOf(r, i) /\ Key(r) # None

\* A layer that entered with a key has the claim.
Claims ==
  \A r \in Records : \A i \in Held(r) :
    /\ InFlight(r) /\ Flag(r) = TRUE
    /\ store[Store(r, i)][KeyOf(r, i)] = "in_progress"
    /\ holder[Store(r, i)][KeyOf(r, i)] = r

\* No two layers of a record have the same claim.
Distinct ==
  \A r \in Records : \A i, j \in Held(r) : Store(r, i) = Store(r, j) => i = j

\* A claim is one of a layer that entered.
Backed ==
  \A s \in Stores, k \in Keys :
    store[s][k] = "in_progress" =>
      \E r \in Records :
        holder[s][k] = r /\ \E i \in Held(r) : Store(r, i) = s /\ KeyOf(r, i) = k

IInv == Shape /\ Ended /\ Flagged /\ (AllAgree => Claims /\ Distinct /\ Backed)

-----------------------------------------------------------------------------
(* ctx.state.                                                              *)

\* What Get finds after a Put.
LEMMA GetPut ==
  ASSUME NEW st, NEW n, NEW v, NEW m
  PROVE  Get(Put(st, n, v), m) = IF m = n THEN v ELSE Get(st, m)
  BY DEF Get, Put

\* An empty state has nothing.
LEMMA GetEmpty ==
  ASSUME NEW n PROVE Get(<<>>, n) = None
  BY DEF Get

\* A layer writes no name of IdempotencyMiddleware but that middleware itself.
LEMMA OwnNames ==
  ASSUME Shape, NEW r \in Records, NEW i \in DOMAIN chain(r)
  PROVE  /\ chain(r)[i].kind = "timing" =>
              {chain(r)[i].start, chain(r)[i].ms} \cap Reserved = {}
         /\ chain(r)[i].kind = "tracing" => chain(r)[i].name \notin Reserved
<1>1. message[r] \in Messages
  BY DEF Shape
<1>2. Names(chain(r)[i]) \cap Reserved = {}
  BY <1>1, RecordStateAssumption DEF chain
<1>3. chain(r)[i].kind = "timing" => {chain(r)[i].start, chain(r)[i].ms} \cap Reserved = {}
  BY <1>2 DEF Names
<1>4. chain(r)[i].kind = "tracing" => {chain(r)[i].name} \cap Reserved = {}
  BY <1>2 DEF Names
<1> QED
  BY <1>3, <1>4

\* An idempotency layer resolves a key or nothing.
LEMMA Resolves ==
  ASSUME Shape, NEW r \in Records, NEW i \in Dedups(r)
  PROVE  Store(r, i) \in Stores /\ KeyOf(r, i) \in Keys \cup {None}
<1>1. message[r] \in Messages /\ i \in DOMAIN message[r].chain
  BY DEF Shape, Dedups, chain
<1>2. message[r].chain[i].kind = "idempotency"
  BY DEF Dedups, chain
<1>3. message[r].chain[i] \in Layers
  BY <1>1, RecordStateAssumption
<1>4. message[r].chain[i].store \in Stores
  BY <1>2, <1>3 DEF Layers, Timing, Logging, Tracing, Idempotency
<1>5. message[r].payload[message[r].chain[i].path] \in Keys \cup {None}
  BY <1>1, <1>2, RecordStateAssumption
<1> QED
  BY <1>4, <1>5 DEF Store, KeyOf, KeyAt, chain

\* The chain is as long as its domain says.
LEMMA ChainDomain ==
  ASSUME Shape, NEW r \in Records
  PROVE  Len(chain(r)) \in Nat /\ DOMAIN chain(r) = 1..Len(chain(r))
<1>1. chain(r) \in Seq(Layers)
  BY RecordStateAssumption DEF Shape, chain
<1> QED
  BY <1>1

\* A layer that is about to enter, or to be unwound, is one of the chain.
LEMMA LayerOf ==
  ASSUME Shape, NEW r \in Records
  PROVE  /\ entered[r] \in Nat /\ Len(chain(r)) \in Nat
         /\ entered[r] < Len(chain(r)) => entered[r] + 1 \in DOMAIN chain(r)
         /\ entered[r] > 0 => entered[r] \in DOMAIN chain(r)
<1>1. entered[r] \in Nat /\ entered[r] <= Len(chain(r))
  BY DEF Shape
<1> QED
  BY <1>1, ChainDomain

-----------------------------------------------------------------------------
(* Steps of one record.                                                    *)

\* What r holds is what IInv says of its ctx.state.
LEMMA KeyHeld ==
  ASSUME IInv, AllAgree, NEW r \in Records, InFlight(r), Flag(r) = TRUE, NEW i \in Dedups(r)
  PROVE  Key(r) = KeyOf(r, i) /\ Key(r) # None
<1>1. PICK j \in Dedups(r) : Key(r) = KeyOf(r, j) /\ Key(r) # None
  BY DEF IInv, Flagged
<1>2. KeyOf(r, i) = KeyOf(r, j)
  BY DEF AllAgree, Agrees, KeyOf
<1> QED
  BY <1>1, <1>2

\* A step of r that leaves the stores and the claims of r alone.
LEMMA Quiet ==
  ASSUME IInv, NEW r \in Records, Shape', message' = message, store' = store, holder' = holder,
         \A q \in Records \ {r} :
           phase'[q] = phase[q] /\ entered'[q] = entered[q] /\ state'[q] = state[q],
         InFlight(r)' \/ entered'[r] = 0,
         InFlight(r)' /\ Flag(r)' = TRUE =>
           \E i \in Dedups(r) : Key(r)' = KeyOf(r, i) /\ Key(r)' # None,
         AllAgree => Held(r)' = Held(r),
         AllAgree /\ Held(r) # {} => InFlight(r)' /\ Flag(r)' = TRUE
  PROVE  IInv'
<1>1. /\ AllAgree' = AllAgree
      /\ \A q : Dedups(q)' = Dedups(q)
      /\ \A q, i : Store(q, i)' = Store(q, i) /\ KeyOf(q, i)' = KeyOf(q, i)
  BY DEF AllAgree, Agrees, Dedups, Store, KeyOf, KeyAt, chain
<1>2. \A q \in Records \ {r} :
        /\ InFlight(q)' = InFlight(q) /\ Flag(q)' = Flag(q) /\ Key(q)' = Key(q)
        /\ Held(q)' = Held(q)
  BY <1>1 DEF InFlight, Flag, Key, Held
<1>3. Ended'
  BY <1>2 DEF IInv, Ended
<1>4. Flagged'
  BY <1>1, <1>2 DEF IInv, Flagged
<1>5. ASSUME AllAgree' PROVE Claims' /\ Distinct' /\ Backed'
  <2>1. Claims /\ Distinct /\ Backed /\ \A q \in Records : Held(q)' = Held(q)
    BY <1>1, <1>2, <1>5 DEF IInv
  <2>2. Claims'
    BY <1>1, <1>2, <1>5, <2>1 DEF Claims
  <2>3. Distinct'
    BY <1>1, <2>1 DEF Distinct
  <2>4. Backed'
    BY <1>1, <2>1 DEF Backed
  <2> QED
    BY <2>2, <2>3, <2>4
<1> QED
  BY <1>3, <1>4, <1>5 DEF IInv

\* A before hook completes, and it took no claim.
LEMMA EnterQuiet ==
  ASSUME IInv, NEW r \in Records, NEW st, Enter(r, st), phase[r] = "before",
         entered[r] < Len(chain(r)),
         UNCHANGED <<message, store, holder>>,
         Get(st, "_idempotency_acquired") = Flag(r), Get(st, "idempotency_key") = Key(r),
         Layer(r).kind = "idempotency" => KeyAt(r, Layer(r)) = None
  PROVE  IInv'
<1>1. Shape /\ entered[r] \in Nat /\ entered[r] + 1 \in DOMAIN chain(r)
  BY LayerOf DEF IInv
<1>2. /\ state'[r] = st /\ entered'[r] = entered[r] + 1 /\ phase' = phase
      /\ \A q \in Records \ {r} : entered'[q] = entered[q] /\ state'[q] = state[q]
      /\ DOMAIN state' = Records /\ state' = [q \in Records |-> state'[q]]
  BY <1>1 DEF Enter, Shape
<1>3. entered' \in [Records -> Nat]
  BY <1>1 DEF Enter, Shape
<1>4. Shape'
  <2>1. \A q : chain(q)' = chain(q)
    BY DEF chain
  <2>2. entered'[r] <= Len(chain(r))
    BY <1>1, <1>2, LayerOf
  <2>3. \A q \in Records : entered'[q] <= Len(chain(q))
    BY <1>1, <1>2, <2>2 DEF Shape
  <2> QED
    BY <1>1, <1>2, <1>3, <2>1, <2>3 DEF Shape
<1>5. InFlight(r) /\ InFlight(r)' /\ Flag(r)' = Flag(r) /\ Key(r)' = Key(r)
  BY <1>2 DEF InFlight, Flag, Key
<1>6. Held(r)' = Held(r)
  <2>1. Dedups(r)' = Dedups(r) /\ \A i : KeyOf(r, i)' = KeyOf(r, i)
    BY DEF Dedups, KeyOf, KeyAt, chain
  <2>2. entered[r] + 1 \in Dedups(r) => KeyOf(r, entered[r] + 1) = None
    BY DEF Dedups, KeyOf, Layer
  <2>3. Dedups(r) \subseteq Nat
    BY <1>1, ChainDomain DEF Dedups
  <2>4. \A i \in Nat : i <= entered'[r] <=> (i <= entered[r] \/ i = entered[r] + 1)
    BY <1>1, <1>2
  <2> QED
    BY <2>1, <2>2, <2>3, <2>4 DEF Held
<1>7. InFlight(r) /\ Flag(r) = TRUE =>
        \E i \in Dedups(r) : Key(r) = KeyOf(r, i) /\ Key(r) # None
  BY DEF IInv, Flagged
<1>8. AllAgree /\ Held(r) # {} => Flag(r) = TRUE
  BY DEF IInv, Claims
<1>9. \A q \in Records \ {r} :
        phase'[q] = phase[q] /\ entered'[q] = entered[q] /\ state'[q] = state[q]
  BY <1>2
<1>10. InFlight(r)' /\ Flag(r)' = TRUE =>
         \E i \in Dedups(r) : Key(r)' = KeyOf(r, i) /\ Key(r)' # None
  BY <1>5, <1>7 
<1>11. AllAgree /\ Held(r) # {} => InFlight(r)' /\ Flag(r)' = TRUE
  BY <1>5, <1>8
<1> QED
  BY <1>4, <1>5, <1>6, <1>9, <1>10, <1>11, Quiet

\* The chain ends, or a before hook raises, with the flag as it was.
LEMMA AbortQuiet ==
  ASSUME IInv, NEW r \in Records, NEW st, NEW error, Abort(r, st, error), phase[r] = "before",
         UNCHANGED <<message, store, holder>>,
         Get(st, "_idempotency_acquired") = Flag(r),
         \/ Get(st, "idempotency_key") = Key(r)
         \/ \E i \in Dedups(r) :
              Get(st, "idempotency_key") = KeyOf(r, i) /\ KeyOf(r, i) # None
  PROVE  IInv'
<1>1. /\ state'[r] = st /\ entered' = entered /\ phase'[r] = "after"
      /\ \A q \in Records \ {r} : phase'[q] = phase[q] /\ state'[q] = state[q]
      /\ DOMAIN state' = Records /\ state' = [q \in Records |-> state'[q]]
  BY DEF IInv, Abort, Shape
<1>2. phase' \in [Records -> {"before", "after", "done", "failed"}]
  BY DEF IInv, Abort, Shape
<1>3. Shape'
  BY <1>1, <1>2 DEF IInv, Shape, chain
<1>4. InFlight(r) /\ InFlight(r)' /\ Flag(r)' = Flag(r)
      /\ Key(r)' = Get(st, "idempotency_key")
  BY <1>1 DEF InFlight, Flag, Key
<1>5. Held(r)' = Held(r)
  BY <1>1 DEF Held, Dedups, KeyOf, KeyAt, chain
<1>6. InFlight(r) /\ Flag(r) = TRUE =>
        \E i \in Dedups(r) : Key(r) = KeyOf(r, i) /\ Key(r) # None
  BY DEF IInv, Flagged
<1>7. AllAgree /\ Held(r) # {} => Flag(r) = TRUE
  BY DEF IInv, Claims
<1>8. InFlight(r)' /\ Flag(r)' = TRUE =>
        \E i \in Dedups(r) : Key(r)' = KeyOf(r, i) /\ Key(r)' # None
  BY <1>4, <1>6
<1>9. \A q \in Records \ {r} :
        phase'[q] = phase[q] /\ entered'[q] = entered[q] /\ state'[q] = state[q]
  BY <1>1
<1>10. AllAgree /\ Held(r) # {} => InFlight(r)' /\ Flag(r)' = TRUE
  BY <1>4, <1>7
<1> QED
  BY <1>3, <1>4, <1>5, <1>8, <1>9, <1>10, Quiet

\* A layer is unwound that holds no claim.
LEMMA LeaveQuiet ==
  ASSUME IInv, NEW r \in Records, NEW st, Leave(r, st), phase[r] = "after", entered[r] > 0,
         UNCHANGED <<store, holder>>,
         Get(st, "_idempotency_acquired") = Flag(r), Get(st, "idempotency_key") = Key(r),
         chain(r)[entered[r]].kind = "idempotency" => Flag(r) # TRUE
  PROVE  IInv'
<1>1. Shape /\ entered[r] \in Nat /\ entered[r] \in DOMAIN chain(r)
  BY LayerOf DEF IInv
<1>2. /\ state'[r] = st /\ entered'[r] = entered[r] - 1 /\ phase' = phase
      /\ message' = message
      /\ \A q \in Records \ {r} : entered'[q] = entered[q] /\ state'[q] = state[q]
      /\ DOMAIN state' = Records /\ state' = [q \in Records |-> state'[q]]
  BY <1>1 DEF Leave, Shape, here
<1>3. entered' \in [Records -> Nat]
  BY <1>1 DEF Leave, Shape
<1>4. Shape'
  <2>1. \A q : chain(q)' = chain(q)
    BY <1>2 DEF chain
  <2>2. \A q \in Records : entered'[q] <= Len(chain(q))
    BY <1>1, <1>2, LayerOf DEF Shape
  <2> QED
    BY <1>1, <1>2, <1>3, <2>1, <2>2 DEF Shape
<1>5. InFlight(r) /\ InFlight(r)' /\ Flag(r)' = Flag(r) /\ Key(r)' = Key(r)
  BY <1>2 DEF InFlight, Flag, Key
<1>6. AllAgree /\ Held(r) # {} => Flag(r) = TRUE
  BY DEF IInv, Claims
<1>7. AllAgree => Held(r)' = Held(r)
  <2> SUFFICES ASSUME AllAgree PROVE Held(r)' = Held(r)
    OBVIOUS
  <2>1. Dedups(r)' = Dedups(r) /\ \A i : KeyOf(r, i)' = KeyOf(r, i)
    BY <1>2 DEF Dedups, KeyOf, KeyAt, chain
  <2>2. entered[r] \notin Held(r)
    BY <1>6 DEF Held, Dedups
  <2>3. Dedups(r) \subseteq Nat
    BY <1>1, ChainDomain DEF Dedups
  <2>4. \A i \in Nat : i <= entered'[r] <=> (i <= entered[r] /\ i # entered[r])
    BY <1>1, <1>2
  <2> QED
    BY <2>1, <2>2, <2>3, <2>4 DEF Held
<1>8. InFlight(r) /\ Flag(r) = TRUE =>
        \E i \in Dedups(r) : Key(r) = KeyOf(r, i) /\ Key(r) # None
  BY DEF IInv, Flagged
<1>9. \A q \in Records \ {r} :
        phase'[q] = phase[q] /\ entered'[q] = entered[q] /\ state'[q] = state[q]
  BY <1>2
<1>10. InFlight(r)' /\ Flag(r)' = TRUE =>
         \E i \in Dedups(r) : Key(r)' = KeyOf(r, i) /\ Key(r)' # None
  BY <1>5, <1>8
<1>11. AllAgree /\ Held(r) # {} => InFlight(r)' /\ Flag(r)' = TRUE
  BY <1>5, <1>6
<1>12. message' = message
  BY <1>2
<1> QED
  BY <1>4, <1>5, <1>7, <1>9, <1>10, <1>11, <1>12, Quiet

-----------------------------------------------------------------------------
(* The two steps that change a claim.                                      *)

\* The claim of IdempotencyBefore, of a free entry.
LEMMA ClaimTaken ==
  ASSUME IInv, NEW r \in Records, NEW st, Enter(r, st), phase[r] = "before",
         entered[r] < Len(chain(r)), Layer(r).kind = "idempotency",
         NEW s, NEW k, s = Layer(r).store, k = KeyAt(r, Layer(r)), k # None, store[s][k] = "free",
         Get(st, "_idempotency_acquired") = TRUE, Get(st, "idempotency_key") = k,
         message' = message,
         store' = [store EXCEPT ![s][k] = "in_progress"], holder' = [holder EXCEPT ![s][k] = r]
  PROVE  IInv'
<1> DEFINE e == entered[r] + 1
<1>1. Shape /\ entered[r] \in Nat /\ e \in DOMAIN chain(r)
  BY LayerOf DEF IInv
<1>2. e \in Dedups(r) /\ s = Store(r, e) /\ k = KeyOf(r, e)
  BY <1>1 DEF Dedups, Store, KeyOf, Layer
<1>3. s \in Stores /\ k \in Keys
  BY <1>1, <1>2, Resolves
<1>4. /\ \A q : chain(q)' = chain(q)
      /\ AllAgree' = AllAgree
      /\ \A q : Dedups(q)' = Dedups(q)
      /\ \A q, i : Store(q, i)' = Store(q, i) /\ KeyOf(q, i)' = KeyOf(q, i)
  BY DEF AllAgree, Agrees, Dedups, Store, KeyOf, KeyAt, chain
<1>5. /\ state'[r] = st /\ entered'[r] = e /\ phase' = phase
      /\ \A q \in Records \ {r} : entered'[q] = entered[q] /\ state'[q] = state[q]
      /\ DOMAIN state' = Records /\ state' = [q \in Records |-> state'[q]]
  BY <1>1 DEF Enter, Shape
<1>6. /\ store'[s][k] = "in_progress" /\ holder'[s][k] = r
      /\ \A t \in Stores, l \in Keys :
           t # s \/ l # k => store'[t][l] = store[t][l] /\ holder'[t][l] = holder[t][l]
      /\ store' \in [Stores -> [Keys -> {"free", "in_progress", "completed"}]]
      /\ holder' \in [Stores -> [Keys -> Records \cup {None}]]
  BY <1>1, <1>3 DEF Shape
<1>7. Shape'
  <2>1. entered' \in [Records -> Nat]
    BY <1>1 DEF Enter, Shape
  <2>2. entered'[r] <= Len(chain(r))
    BY <1>1, <1>5, LayerOf
  <2>3. \A q \in Records : entered'[q] <= Len(chain(q))
    BY <1>1, <1>5, <2>2 DEF Shape
  <2> QED
    BY <1>1, <1>4, <1>5, <1>6, <2>1, <2>3 DEF Shape
<1>8. /\ InFlight(r) /\ InFlight(r)' /\ Flag(r)' = TRUE /\ Key(r)' = k
      /\ \A q \in Records : InFlight(q)' = InFlight(q)
      /\ \A q \in Records \ {r} :
           Flag(q)' = Flag(q) /\ Key(q)' = Key(q) /\ Held(q)' = Held(q)
  BY <1>4, <1>5 DEF InFlight, Flag, Key, Held
<1>9. Held(r)' = Held(r) \cup {e}
  <2>1. Dedups(r) \subseteq Nat
    BY <1>1, ChainDomain DEF Dedups
  <2>2. \A i \in Nat : i <= entered'[r] <=> (i <= entered[r] \/ i = e)
    BY <1>1, <1>5
  <2> QED
    BY <1>2, <1>4, <2>1, <2>2 DEF Held
<1>10. Ended'
  BY <1>5, <1>8 DEF IInv, Ended
<1>11. Flagged'
  BY <1>2, <1>4, <1>8 DEF IInv, Flagged
<1>12. ASSUME AllAgree PROVE Claims' /\ Distinct' /\ Backed'
  <2>1. Claims /\ Distinct /\ Backed
    BY <1>12 DEF IInv
  <2>2. \A q \in Records : \A i \in Held(q) :
          /\ Store(q, i) \in Stores /\ KeyOf(q, i) \in Keys
          /\ Store(q, i) # s \/ KeyOf(q, i) # k
    BY <1>1, <2>1, Resolves DEF Held, Claims
  <2>3. Claims'
    <3> SUFFICES ASSUME NEW q \in Records, NEW i \in Held(q)'
                 PROVE  /\ InFlight(q)' /\ Flag(q)' = TRUE
                        /\ store'[Store(q, i)'][KeyOf(q, i)'] = "in_progress"
                        /\ holder'[Store(q, i)'][KeyOf(q, i)'] = q
      BY DEF Claims
    <3>1. CASE i \in Held(q)
      BY <1>4, <1>6, <1>8, <2>1, <2>2, <3>1 DEF Claims
    <3>2. CASE q = r /\ i = e
      BY <1>2, <1>4, <1>6, <1>8, <3>2
    <3> QED
      BY <1>8, <1>9, <3>1, <3>2
  <2>4. \A i \in Held(r) : Store(r, i) # s
    BY <1>2, <1>12, <2>2 DEF Held, AllAgree, Agrees, KeyOf
  <2>5. Distinct'
    <3> SUFFICES ASSUME NEW q \in Records, NEW i \in Held(q)', NEW j \in Held(q)',
                        Store(q, i) = Store(q, j)
                 PROVE  i = j
      BY <1>4 DEF Distinct
    <3>1. CASE i \in Held(q) /\ j \in Held(q)
      BY <2>1, <3>1 DEF Distinct
    <3> QED
      BY <1>2, <1>8, <1>9, <2>4, <3>1
  <2>6. Backed'
    <3> SUFFICES ASSUME NEW t \in Stores, NEW l \in Keys, store'[t][l] = "in_progress"
                 PROVE  \E q \in Records :
                          /\ holder'[t][l] = q
                          /\ \E i \in Held(q)' : Store(q, i) = t /\ KeyOf(q, i) = l
      BY <1>4 DEF Backed
    <3>1. CASE t = s /\ l = k
      BY <1>2, <1>6, <1>9, <3>1
    <3>2. CASE t # s \/ l # k
      <4>1. store[t][l] = "in_progress" /\ holder'[t][l] = holder[t][l]
        BY <1>6, <3>2
      <4>2. PICK q \in Records : holder[t][l] = q /\ \E i \in Held(q) : Store(q, i) = t /\ KeyOf(q, i) = l
        BY <2>1, <4>1 DEF Backed
      <4>3. Held(q) \subseteq Held(q)'
        BY <1>8, <1>9
      <4> QED
        BY <4>1, <4>2, <4>3
    <3> QED
      BY <3>1, <3>2
  <2> QED
    BY <2>3, <2>5, <2>6
<1> QED
  BY <1>4, <1>7, <1>10, <1>11, <1>12 DEF IInv

\* The completion or the release by IdempotencyAfter.
LEMMA ClaimEnded ==
  ASSUME IInv, NEW r \in Records, Leave(r, state[r]), phase[r] = "after", entered[r] > 0,
         chain(r)[entered[r]].kind = "idempotency", Flag(r) = TRUE,
         NEW v \in {"completed", "free"},
         store' = [store EXCEPT ![Store(r, entered[r])][Key(r)] = v], holder' = holder
  PROVE  /\ IInv'
         /\ AllAgree => entered[r] \in Held(r) /\ Key(r) = KeyOf(r, entered[r])
<1> DEFINE e == entered[r]
           s == Store(r, e)
           k == Key(r)
<1>1. Shape /\ e \in Nat /\ e \in DOMAIN chain(r)
  BY LayerOf DEF IInv
<1>2. e \in Dedups(r) /\ InFlight(r)
  BY <1>1 DEF Dedups, InFlight
<1>3. s \in Stores
  BY <1>1, <1>2, Resolves
<1>4. /\ message' = message
      /\ \A q : chain(q)' = chain(q)
      /\ AllAgree' = AllAgree
      /\ \A q : Dedups(q)' = Dedups(q)
      /\ \A q, i : Store(q, i)' = Store(q, i) /\ KeyOf(q, i)' = KeyOf(q, i)
  BY DEF Leave, here, AllAgree, Agrees, Dedups, Store, KeyOf, KeyAt, chain
<1>5. /\ entered'[r] = e - 1 /\ phase' = phase /\ state' = state
      /\ \A q \in Records \ {r} : entered'[q] = entered[q]
  BY <1>1 DEF Leave, Shape
<1>6. Shape'
  <2>1. entered' \in [Records -> Nat]
    BY <1>1 DEF Leave, Shape
  <2>2. entered'[r] <= Len(chain(r))
    BY <1>1, <1>5, LayerOf
  <2>3. \A q \in Records : entered'[q] <= Len(chain(q))
    BY <1>1, <1>5, <2>2 DEF Shape
  <2>4. store' \in [Stores -> [Keys -> {"free", "in_progress", "completed"}]]
    BY <1>1, <1>3 DEF Shape
  <2> QED
    BY <1>1, <1>4, <1>5, <2>1, <2>3, <2>4 DEF Shape
<1>7. /\ \A q \in Records :
           InFlight(q)' = InFlight(q) /\ Flag(q)' = Flag(q) /\ Key(q)' = Key(q)
      /\ \A q \in Records \ {r} : Held(q)' = Held(q)
  BY <1>4, <1>5 DEF InFlight, Flag, Key, Held
<1>8. Held(r)' = Held(r) \ {e}
  <2>1. Dedups(r) \subseteq Nat
    BY <1>1, ChainDomain DEF Dedups
  <2>2. \A i \in Nat : i <= entered'[r] <=> (i <= entered[r] /\ i # e)
    BY <1>1, <1>5
  <2> QED
    BY <1>4, <2>1, <2>2 DEF Held
<1>9. Ended'
  BY <1>2, <1>5, <1>7 DEF IInv, Ended
<1>10. Flagged'
  BY <1>4, <1>7 DEF IInv, Flagged
<1>11. ASSUME AllAgree PROVE e \in Held(r) /\ k = KeyOf(r, e)
  <2>1. Key(r) = KeyOf(r, e) /\ Key(r) # None
    BY <1>2, <1>11, KeyHeld
  <2> QED
    BY <1>1, <1>2, <2>1 DEF Held
<1>12. ASSUME AllAgree PROVE Claims' /\ Distinct' /\ Backed'
  <2>1. Claims /\ Distinct /\ Backed /\ e \in Held(r) /\ k = KeyOf(r, e)
    BY <1>11, <1>12 DEF IInv
  <2>2. k \in Keys
    BY <1>1, <1>2, <2>1, Resolves DEF Held
  <2>3. /\ store'[s][k] = v
        /\ \A t \in Stores, l \in Keys : t # s \/ l # k => store'[t][l] = store[t][l]
    BY <1>1, <1>3, <2>2 DEF Shape
  <2>4. \A q \in Records : \A i \in Held(q) :
          /\ Store(q, i) \in Stores /\ KeyOf(q, i) \in Keys
          /\ q # r \/ i # e => Store(q, i) # s \/ KeyOf(q, i) # k
    BY <1>1, <2>1, Resolves DEF Held, Claims, Distinct
  <2>5. \A q \in Records : \A i \in Held(q)' : i \in Held(q) /\ (q # r \/ i # e)
    BY <1>7, <1>8
  <2>6. Claims'
    BY <1>4, <1>7, <2>1, <2>3, <2>4, <2>5 DEF Claims
  <2>7. Distinct'
    BY <1>4, <2>1, <2>5 DEF Distinct
  <2>8. Backed'
    <3> SUFFICES ASSUME NEW t \in Stores, NEW l \in Keys, store'[t][l] = "in_progress"
                 PROVE  \E q \in Records :
                          /\ holder[t][l] = q
                          /\ \E i \in Held(q)' : Store(q, i) = t /\ KeyOf(q, i) = l
      BY <1>4 DEF Backed
    <3>1. (t # s \/ l # k) /\ store[t][l] = "in_progress"
      BY <2>3
    <3>2. PICK q \in Records : holder[t][l] = q /\ \E i \in Held(q) : Store(q, i) = t /\ KeyOf(q, i) = l
      BY <2>1, <3>1 DEF Backed
    <3>3. PICK i \in Held(q) : Store(q, i) = t /\ KeyOf(q, i) = l
      BY <3>2
    <3>4. i \in Held(q)'
      BY <1>7, <1>8, <2>1, <3>1, <3>3
    <3> QED
      BY <3>2, <3>3, <3>4
  <2> QED
    BY <2>6, <2>7, <2>8
<1> QED
  BY <1>4, <1>6, <1>9, <1>10, <1>11, <1>12 DEF IInv

-----------------------------------------------------------------------------
(* The steps.                                                              *)

LEMMA BeforeHookKeeps ==
  ASSUME IInv, NEW r \in Records, BeforeHook(r)
  PROVE  IInv'
<1> DEFINE layer == Layer(r)
<1>1. Shape
  BY DEF IInv
<1>2. phase[r] = "before" /\ entered[r] < Len(chain(r))
  BY DEF BeforeHook, TimingBefore, LoggingBefore, TracingBefore, IdempotencyKeyless,
         IdempotencyBefore, AtBefore
<1>3. entered[r] + 1 \in DOMAIN chain(r)
  BY <1>1, <1>2, LayerOf
<1>4. /\ layer.kind = "timing" => layer.start \notin Reserved
      /\ layer.kind = "tracing" => layer.name \notin Reserved
  BY <1>1, <1>3, OwnNames DEF Layer
<1>5. CASE TimingBefore(r)
  <2>1. layer.kind = "timing" /\ Enter(r, Put(state[r], layer.start, clock))
    BY <1>5 DEF TimingBefore, AtBefore, Layer
  <2>2. /\ Get(Put(state[r], layer.start, clock), "_idempotency_acquired") = Flag(r)
        /\ Get(Put(state[r], layer.start, clock), "idempotency_key") = Key(r)
    BY <1>4, <2>1, GetPut DEF Reserved, Flag, Key
  <2>3. message' = message /\ store' = store /\ holder' = holder
    BY <1>5 DEF TimingBefore, here, stores
  <2> QED
    BY <1>2, <2>1, <2>2, <2>3, EnterQuiet
<1>6. CASE LoggingBefore(r)
  <2>1. layer.kind = "logging"
    BY <1>6 DEF LoggingBefore, AtBefore, Layer
  <2>2. message' = message /\ store' = store /\ holder' = holder
    BY <1>6 DEF LoggingBefore, here, stores
  <2>3. CASE Enter(r, state[r])
    BY <1>2, <2>1, <2>2, <2>3, EnterQuiet DEF Flag, Key
  <2>4. CASE Abort(r, state[r], "error")
    BY <1>2, <2>2, <2>4, AbortQuiet DEF Flag, Key
  <2> QED
    BY <1>6, <2>3, <2>4 DEF LoggingBefore
<1>7. CASE TracingBefore(r)
  <2>1. /\ layer.kind = "tracing"
        /\ message' = message /\ store' = store /\ holder' = holder
    BY <1>7 DEF TracingBefore, AtBefore, Layer, here, stores
  <2>2. PICK trace : Enter(r, IF trace = None THEN state[r] ELSE Put(state[r], layer.name, trace))
    BY <1>7 DEF TracingBefore
  <2> DEFINE st == IF trace = None THEN state[r] ELSE Put(state[r], layer.name, trace)
  <2>3. Get(st, "_idempotency_acquired") = Flag(r) /\ Get(st, "idempotency_key") = Key(r)
    BY <1>4, <2>1, GetPut DEF Reserved, Flag, Key
  <2> QED
    BY <1>2, <2>1, <2>2, <2>3, EnterQuiet
<1>8. CASE IdempotencyKeyless(r)
  <2>1. /\ layer.kind = "idempotency" /\ KeyAt(r, layer) = None
        /\ message' = message /\ store' = store /\ holder' = holder
    BY <1>8 DEF IdempotencyKeyless, AtBefore, Layer, here, stores
  <2>2. CASE Enter(r, state[r])
    BY <1>2, <2>1, <2>2, EnterQuiet DEF Flag, Key
  <2>3. CASE Abort(r, state[r], "error")
    BY <1>2, <2>1, <2>3, AbortQuiet DEF Flag, Key
  <2> QED
    BY <1>8, <2>2, <2>3 DEF IdempotencyKeyless
<1>9. CASE IdempotencyBefore(r)
  <2> DEFINE s == layer.store
             k == KeyAt(r, layer)
             st == Put(state[r], "idempotency_key", k)
             claimed == Put(st, "_idempotency_acquired", TRUE)
  <2>1. layer.kind = "idempotency" /\ k # None /\ message' = message
    BY <1>9 DEF IdempotencyBefore, AtBefore, Layer, here
  <2>2. /\ Get(st, "_idempotency_acquired") = Flag(r) /\ Get(st, "idempotency_key") = k
        /\ Get(claimed, "_idempotency_acquired") = TRUE /\ Get(claimed, "idempotency_key") = k
    <3>1. \A n : Get(st, n) = IF n = "idempotency_key" THEN k ELSE Get(state[r], n)
      BY GetPut
    <3>2. \A w, v, n : Get(Put(w, "_idempotency_acquired", v), n) =
                         IF n = "_idempotency_acquired" THEN v ELSE Get(w, n)
      BY GetPut
    <3>3. \A w, v : /\ Get(Put(w, "_idempotency_acquired", v), "_idempotency_acquired") = v
                    /\ Get(Put(w, "_idempotency_acquired", v), "idempotency_key") =
                         Get(w, "idempotency_key")
      BY <3>2
    <3>4. /\ Get(claimed, "_idempotency_acquired") = TRUE
          /\ Get(claimed, "idempotency_key") = Get(st, "idempotency_key")
      BY <3>3
    <3> HIDE DEF st, claimed
    <3> QED
      BY <3>1, <3>4 DEF Flag
  <2>3. CASE /\ store[s][k] = "free" /\ Enter(r, claimed)
             /\ store' = [store EXCEPT ![s][k] = "in_progress"]
             /\ holder' = [holder EXCEPT ![s][k] = r]
    BY <1>2, <2>1, <2>2, <2>3, ClaimTaken
  <2>4. ASSUME NEW error, Abort(r, st, error), UNCHANGED stores
        PROVE  IInv'
    <3>1. store' = store /\ holder' = holder
      BY <2>4 DEF stores
    <3>2. \E i \in Dedups(r) : k = KeyOf(r, i) /\ KeyOf(r, i) # None
      BY <1>3, <2>1 DEF Dedups, KeyOf, Layer
    <3>3. \E i \in Dedups(r) : Get(st, "idempotency_key") = KeyOf(r, i) /\ KeyOf(r, i) # None
      BY <2>2, <3>2
    <3> QED
      BY <1>2, <2>1, <2>2, <2>4, <3>1, <3>3, AbortQuiet
  <2> QED
    BY <1>9, <2>3, <2>4 DEF IdempotencyBefore
<1> QED
  BY <1>5, <1>6, <1>7, <1>8, <1>9 DEF BeforeHook

LEMMA HandlerKeeps ==
  ASSUME IInv, NEW r \in Records, Handler(r)
  PROVE  IInv'
<1>1. PICK outcome : Abort(r, state[r], outcome)
  BY DEF Handler
<1>2. phase[r] = "before" /\ message' = message /\ store' = store /\ holder' = holder
  BY DEF Handler, here, stores
<1> QED
  BY <1>1, <1>2, AbortQuiet DEF Flag, Key

LEMMA AfterHookKeeps ==
  ASSUME IInv, NEW r \in Records, AfterHook(r)
  PROVE  IInv'
<1> DEFINE layer == chain(r)[entered[r]]
<1>1. phase[r] = "after" /\ entered[r] > 0
  BY DEF AfterHook, TimingAfter, LoggingAfter, TracingAfter, IdempotencyAfter, AtAfter
<1>2. entered[r] \in DOMAIN chain(r) /\ Shape
  BY <1>1, LayerOf DEF IInv
<1>3. layer.kind = "timing" => layer.ms \notin Reserved
  BY <1>2, OwnNames
<1>4. CASE TimingAfter(r)
  <2>1. PICK spent : Leave(r, Put(state[r], layer.ms, spent))
    BY <1>4 DEF TimingAfter
  <2>2. layer.kind = "timing" /\ store' = store /\ holder' = holder
    BY <1>4 DEF TimingAfter, AtAfter, stores
  <2>3. /\ Get(Put(state[r], layer.ms, spent), "_idempotency_acquired") = Flag(r)
        /\ Get(Put(state[r], layer.ms, spent), "idempotency_key") = Key(r)
    BY <1>3, <2>2, GetPut DEF Reserved, Flag, Key
  <2> QED
    BY <1>1, <2>1, <2>2, <2>3, LeaveQuiet
<1>5. CASE LoggingAfter(r) \/ TracingAfter(r)
  <2>1. Leave(r, state[r]) /\ store' = store /\ holder' = holder
    BY <1>5 DEF LoggingAfter, TracingAfter, stores
  <2>2. layer.kind # "idempotency"
    BY <1>5 DEF LoggingAfter, TracingAfter, AtAfter
  <2> QED
    BY <1>1, <2>1, <2>2, LeaveQuiet DEF Flag, Key
<1>6. CASE IdempotencyAfter(r)
  <2>1. layer.kind = "idempotency" /\ Leave(r, state[r]) /\ holder' = holder
    BY <1>6 DEF IdempotencyAfter, AtAfter
  <2>2. CASE Flag(r) = TRUE
    <3>1. store' = [store EXCEPT ![Store(r, entered[r])][Key(r)] =
                      IF Succeeded(r) THEN "completed" ELSE "free"]
      BY <1>6, <2>2 DEF IdempotencyAfter, Store, Key, Flag
    <3> QED
      BY <1>1, <2>1, <2>2, <3>1, ClaimEnded
  <2>3. CASE Flag(r) # TRUE
    <3>1. store' = store
      BY <1>6, <2>3 DEF IdempotencyAfter, Flag
    <3> QED
      BY <1>1, <2>1, <2>3, <3>1, LeaveQuiet DEF Flag, Key
  <2> QED
    BY <2>2, <2>3
<1> QED
  BY <1>4, <1>5, <1>6 DEF AfterHook

LEMMA RecordEndsKeeps ==
  ASSUME IInv, NEW r \in Records, RecordEnds(r)
  PROVE  IInv'
<1>1. /\ message' = message /\ entered' = entered /\ state' = state
      /\ store' = store /\ holder' = holder /\ entered[r] = 0
      /\ InFlight(r)
      /\ \A q \in Records \ {r} : phase'[q] = phase[q]
  BY DEF RecordEnds, here, stores, InFlight, IInv, Shape
<1>2. phase' \in [Records -> {"before", "after", "done", "failed"}]
  BY DEF RecordEnds, IInv, Shape
<1>3. Shape'
  BY <1>1, <1>2 DEF IInv, Shape, chain
<1>4. Held(r) = {} /\ Held(r)' = Held(r)
  <2>1. Dedups(r) \subseteq Nat \ {0}
    BY ChainDomain DEF Dedups, IInv
  <2>2. Held(r) = {}
    BY <1>1, <2>1 DEF Held
  <2> QED
    BY <1>1, <2>2 DEF Held, Dedups, KeyOf, KeyAt, chain
<1>5. InFlight(r)' /\ Flag(r)' = TRUE =>
        \E i \in Dedups(r) : Key(r)' = KeyOf(r, i) /\ Key(r)' # None
  BY <1>1 DEF Flag, Key, IInv, Flagged
<1> QED
  BY <1>1, <1>3, <1>4, <1>5, Quiet

\* The new Context has no flag.
LEMMA RedeliverKeeps ==
  ASSUME IInv, NEW r \in Records, Redeliver(r)
  PROVE  IInv'
<1>1. /\ message' = message /\ entered' = entered
      /\ store' = store /\ holder' = holder /\ state'[r] = <<>>
      /\ DOMAIN state' = Records /\ state' = [q \in Records |-> state'[q]]
      /\ \A q \in Records \ {r} : phase'[q] = phase[q] /\ state'[q] = state[q]
  BY DEF Redeliver, stores, IInv, Shape
<1>2. entered[r] = 0
  BY DEF Redeliver, IInv, Ended, InFlight
<1>3. phase' \in [Records -> {"before", "after", "done", "failed"}]
  BY DEF Redeliver, IInv, Shape
<1>4. Shape'
  BY <1>1, <1>3 DEF IInv, Shape, chain
<1>5. Held(r) = {} /\ Held(r)' = Held(r)
  <2>1. Dedups(r) \subseteq Nat \ {0}
    BY ChainDomain DEF Dedups, IInv
  <2>2. Held(r) = {}
    BY <1>2, <2>1 DEF Held
  <2> QED
    BY <1>1, <2>2 DEF Held, Dedups, KeyOf, KeyAt, chain
<1>6. Flag(r)' # TRUE
  <2>1. Flag(r)' = None
    BY <1>1, GetEmpty DEF Flag
  <2> QED
    BY <2>1, RecordStateAssumption
<1>7. entered'[r] = 0
      /\ \A q \in Records \ {r} :
           phase'[q] = phase[q] /\ entered'[q] = entered[q] /\ state'[q] = state[q]
  BY <1>1, <1>2
<1> QED
  BY <1>1, <1>4, <1>5, <1>6, <1>7, Quiet

LEMMA StutterKeeps ==
  ASSUME IInv, UNCHANGED <<message, phase, entered, state, store, holder>>
  PROVE  IInv'
<1>1. /\ AllAgree' = AllAgree
      /\ \A q : /\ InFlight(q)' = InFlight(q) /\ Flag(q)' = Flag(q) /\ Key(q)' = Key(q)
               /\ Dedups(q)' = Dedups(q) /\ Held(q)' = Held(q)
      /\ \A q, i : Store(q, i)' = Store(q, i) /\ KeyOf(q, i)' = KeyOf(q, i)
  BY DEF AllAgree, Agrees, InFlight, Flag, Key, Held, Dedups, Store, KeyOf, KeyAt, chain
<1>2. Shape' /\ Ended' /\ Flagged'
  BY <1>1 DEF IInv, Shape, Ended, Flagged, chain
<1>3. Claims' = Claims /\ Distinct' = Distinct /\ Backed' = Backed
  BY <1>1 DEF Claims, Distinct, Backed
<1> QED
  BY <1>1, <1>2, <1>3 DEF IInv

-----------------------------------------------------------------------------
(* Theorems.                                                               *)

LEMMA InitInductive == Init => IInv
<1> SUFFICES ASSUME Init PROVE IInv
  OBVIOUS
<1>1. Shape
  <2>1. \A r \in Records : Len(message[r].chain) \in Nat
    <3> SUFFICES ASSUME NEW r \in Records PROVE Len(message[r].chain) \in Nat
      OBVIOUS
    <3>1. message[r].chain \in Seq(Layers)
      BY RecordStateAssumption DEF Init
    <3> QED
      BY <3>1
  <2> QED
    BY <2>1 DEF Init, Shape, chain
<1>2. \A r \in Records : Held(r) = {} /\ Flag(r) # TRUE
  <2> SUFFICES ASSUME NEW r \in Records PROVE Held(r) = {} /\ Flag(r) # TRUE
    OBVIOUS
  <2>1. Dedups(r) \subseteq Nat \ {0} /\ entered[r] = 0
    BY <1>1, ChainDomain DEF Dedups, Init
  <2>2. Flag(r) = None
    BY GetEmpty DEF Init, Flag
  <2>3. Flag(r) # TRUE
    BY <2>2, RecordStateAssumption
  <2>4. Held(r) = {}
    BY <2>1 DEF Held
  <2> QED
    BY <2>3, <2>4
<1>3. Ended /\ Flagged /\ Claims /\ Distinct
  BY <1>2 DEF Init, Ended, Flagged, Claims, Distinct
<1>4. Backed
  BY DEF Init, Backed
<1> QED
  BY <1>1, <1>3, <1>4 DEF IInv

\* The invariant holds of every reachable state: whatever the chains, the
\* records, the stores and the order of the hooks of different records.
THEOREM Inductive == Spec => []IInv
<1>1. IInv /\ [Next]_vars => IInv'
  <2> SUFFICES ASSUME IInv, [Next]_vars PROVE IInv'
    OBVIOUS
  <2>1. ASSUME NEW r \in Records,
               BeforeHook(r) \/ Handler(r) \/ AfterHook(r) \/ RecordEnds(r) \/ Redeliver(r)
        PROVE  IInv'
    BY <2>1, BeforeHookKeeps, HandlerKeeps, AfterHookKeeps, RecordEndsKeeps, RedeliverKeeps
  <2>2. CASE Tick
    BY <2>2, StutterKeeps DEF Tick, here, stores
  <2>3. CASE UNCHANGED vars
    BY <2>3, StutterKeeps DEF vars
  <2> QED
    BY <2>1, <2>2, <2>3 DEF Next, Done
<1> QED
  BY <1>1, InitInductive, PTL DEF Spec

\* ClaimsSettled: an entry in progress is a claim of a delivery that is still
\* in flight, when the layers of every record resolve one key.
THEOREM ClaimsEnd == Spec => []ClaimsSettled
<1>1. IInv => ClaimsSettled
  <2> SUFFICES ASSUME IInv, AllAgree, NEW s \in Stores, NEW k \in Keys,
                      store[s][k] = "in_progress"
               PROVE  InFlight(holder[s][k])
    BY DEF ClaimsSettled, ClaimsReleased
  <2>1. PICK r \in Records : holder[s][k] = r /\ \E i \in Held(r) : TRUE
    BY DEF IInv, Backed
  <2>2. InFlight(r)
    BY <2>1 DEF IInv, Claims
  <2> QED
    BY <2>1, <2>2
<1> QED
  BY <1>1, Inductive, PTL

\* OnlyOwnClaimsEnd: a claim is ended by no step but the one that unwinds a
\* layer of the record that took it.
THEOREM OnlyHolderEnds == Spec => OnlyOwnClaimsEnd
<1> DEFINE Ends ==
      AllAgree => \A s \in Stores, k \in Keys :
        (store[s][k] = "in_progress" /\ store'[s][k] # "in_progress") =>
          entered'[holder[s][k]] = entered[holder[s][k]] - 1
<1>1. IInv /\ [Next]_vars => [Ends]_vars
  <2> SUFFICES ASSUME IInv, [Next]_vars, AllAgree, NEW s \in Stores, NEW k \in Keys,
                      store[s][k] = "in_progress", store'[s][k] # "in_progress"
               PROVE  entered'[holder[s][k]] = entered[holder[s][k]] - 1
    OBVIOUS
  <2>1. store \in [Stores -> [Keys -> {"free", "in_progress", "completed"}]]
        /\ entered \in [Records -> Nat]
    BY DEF IInv, Shape
  <2>2. store' # store
    OBVIOUS
  <2>3. ASSUME NEW r \in Records, IdempotencyBefore(r) PROVE FALSE
    <3>1. PICK t, l : store[t][l] = "free" /\ store' = [store EXCEPT ![t][l] = "in_progress"]
      BY <2>2, <2>3 DEF IdempotencyBefore, stores
    <3> QED
      BY <2>1, <3>1
  <2>4. PICK r \in Records : IdempotencyAfter(r)
    BY <2>2, <2>3 DEF Next, BeforeHook, AfterHook, TimingBefore, LoggingBefore, TracingBefore,
         IdempotencyKeyless, Handler, TimingAfter, LoggingAfter, TracingAfter, RecordEnds,
         Redeliver, Tick, Done, stores, vars
  <2>5. /\ phase[r] = "after" /\ entered[r] > 0 /\ chain(r)[entered[r]].kind = "idempotency"
        /\ Leave(r, state[r]) /\ holder' = holder
    BY <2>4 DEF IdempotencyAfter, AtAfter
  <2>6. PICK v \in {"completed", "free"} :
          Flag(r) = TRUE /\ store' = [store EXCEPT ![Store(r, entered[r])][Key(r)] = v]
    BY <2>2, <2>4 DEF IdempotencyAfter, Store, Key, Flag
  <2>7. entered[r] \in Held(r) /\ Key(r) = KeyOf(r, entered[r])
    BY <2>5, <2>6, ClaimEnded
  <2>8. s = Store(r, entered[r]) /\ k = Key(r)
    BY <2>1, <2>6
  <2>9. holder[s][k] = r
    BY <2>7, <2>8 DEF IInv, Claims
  <2> QED
    BY <2>1, <2>5, <2>9 DEF Leave
<1> QED
  BY <1>1, Inductive, PTL DEF Spec, OnlyOwnClaimsEnd

\* Layer j of r repeats the claim of a layer around it: same store, same key.
Repeats(r, j) ==
  \E i \in Dedups(r) :
    i < j /\ Store(r, i) = Store(r, j) /\ KeyOf(r, i) = KeyOf(r, j)

\* Such a layer is never entered, so the handler is never reached.
RepeatedLayerStops ==
  \A r \in Records : \A j \in Dedups(r) :
    Repeats(r, j) /\ KeyOf(r, j) # None =>
      entered[r] < j /\ (phase[r] = "before" => entered[r] < Len(chain(r)))

\* Two idempotency layers on one store and one key refuse their record at every
\* delivery, by the claim of the outer one (idempotency.py:162): when the layers of
\* each record resolve one key, no interleaving gets such a record to its handler.
THEOREM RepeatedLayersRefuse == Spec => [](AllAgree => RepeatedLayerStops)
<1>1. IInv => (AllAgree => RepeatedLayerStops)
  <2> SUFFICES ASSUME IInv, AllAgree, NEW r \in Records, NEW j \in Dedups(r),
                      Repeats(r, j), KeyOf(r, j) # None
               PROVE  entered[r] < j /\ entered[r] < Len(chain(r))
    BY DEF RepeatedLayerStops
  <2>1. PICK i \in Dedups(r) :
          i < j /\ Store(r, i) = Store(r, j) /\ KeyOf(r, i) = KeyOf(r, j)
    BY DEF Repeats
  <2>2. /\ i \in 1..Len(chain(r)) /\ j \in 1..Len(chain(r)) /\ Len(chain(r)) \in Nat
        /\ entered[r] \in Nat
    BY ChainDomain, LayerOf DEF Dedups, IInv
  <2>3. ASSUME j <= entered[r] PROVE FALSE
    <3>1. i \in Held(r) /\ j \in Held(r)
      BY <2>1, <2>2, <2>3 DEF Held
    <3>2. i = j
      BY <2>1, <3>1 DEF IInv, Distinct
    <3> QED
      BY <2>1, <2>2, <3>2
  <2> QED
    BY <2>2, <2>3
<1> QED
  BY <1>1, Inductive, PTL
=============================================================================
