------------------------- MODULE RecordValues_proofs -------------------------
(***************************************************************************)
(* Theorems of RecordState about the values that layers leave to each      *)
(* other in ctx.state: the durations that are measured and logged.  For    *)
(* any chains whose names are apart, any records and any clock.            *)
(***************************************************************************)
EXTENDS RecordState_proofs

\* The names of a chain are apart: nothing but a TimingMiddleware writes a
\* start time or "duration_ms", and none of them both.
Apart(ch) ==
  \A i, j \in DOMAIN ch :
    /\ ch[i].kind = "timing" =>
         /\ ch[i].start # "duration_ms"
         /\ ch[j].kind = "timing" => ch[i].start # ch[j].ms
         /\ ch[j].kind = "tracing" => ch[i].start # ch[j].name
    /\ ch[i].kind = "tracing" => ch[i].name # "duration_ms"

NamesApart == \A m \in Messages : Apart(m.chain)

Timers(r) == {i \in DOMAIN chain(r) : chain(r)[i].kind = "timing"}
Start(r, i) == chain(r)[i].start

\* The layers that left a duration under the name LoggingMiddleware reads.
Durations(r) == {j \in DOMAIN took[r] : chain(r)[j].ms = "duration_ms"}

\* The timers inside layer i of r that entered and write that name.
Inside(r, i) == {j \in DOMAIN began[r] : j > i /\ chain(r)[j].ms = "duration_ms"}

\* j is outside every other layer in S.
Nearest(j, S) == \A k \in S : j <= k

\* Which timers began and which are over.
Extent(r) ==
  /\ DOMAIN took[r] \subseteq DOMAIN began[r]
  /\ DOMAIN began[r] \subseteq Timers(r)
  /\ InFlight(r) => \A i \in Timers(r) : i <= entered[r] => i \in DOMAIN began[r]
  /\ phase[r] = "before" =>
       /\ \A i \in DOMAIN began[r] : i <= entered[r]
       /\ DOMAIN took[r] = {} /\ DOMAIN logged[r] = {}
  /\ phase[r] = "after" =>
       /\ \A i \in DOMAIN began[r] : i \in DOMAIN took[r] <=> i > entered[r]
       /\ \A i \in DOMAIN logged[r] : i > entered[r]
  /\ DOMAIN logged[r] \subseteq DOMAIN chain(r)

\* ctx.state has under a timer's name the start of the innermost timer that
\* shares it.
StartKept(r) ==
  InFlight(r) =>
    \A i \in DOMAIN began[r] :
      /\ Get(state[r], Start(r, i)) \in Nat
      /\ began[r][i] <= Get(state[r], Start(r, i))
      /\ \/ Get(state[r], Start(r, i)) = began[r][i]
         \/ \E j \in DOMAIN began[r] : j > i /\ Start(r, j) = Start(r, i)

\* ctx.state has the duration of the outermost timer that is over.
DurationKept(r) ==
  InFlight(r) =>
    \/ Durations(r) = {} /\ Get(state[r], "duration_ms") = None
    \/ \E j \in Durations(r) : Nearest(j, Durations(r)) /\ Get(state[r], "duration_ms") = took[r][j].stored

Own(r) ==
  \A i \in DOMAIN took[r] :
    /\ took[r][i].stored <= took[r][i].own
    /\ \/ took[r][i].stored = took[r][i].own
       \/ \E j \in DOMAIN chain(r) :
            j > i /\ chain(r)[j].kind = "timing" /\ Start(r, j) = Start(r, i)

Logged(r) ==
  \A i \in DOMAIN logged[r] :
    \/ Inside(r, i) = {} /\ logged[r][i] = None
    \/ \E j \in Inside(r, i) \cap DOMAIN took[r] :
         Nearest(j, Inside(r, i)) /\ logged[r][i] = took[r][j].stored

\* The history variables, and the clock.
Past ==
  /\ began = [r \in Records |-> began[r]]
  /\ took = [r \in Records |-> took[r]]
  /\ logged = [r \in Records |-> logged[r]]
  /\ clock \in Nat
  /\ \A r \in Records : \A i \in DOMAIN began[r] : began[r][i] \in Nat /\ began[r][i] <= clock

Values(r) ==
  Extent(r) /\ StartKept(r) /\ DurationKept(r) /\ Own(r) /\ Logged(r)

VInv == Past /\ \A r \in Records : Values(r)

-----------------------------------------------------------------------------
(* Facts.                                                                  *)

\* The names of two layers of one record.
LEMMA ApartOf ==
  ASSUME NamesApart, Shape, NEW r \in Records, NEW i \in DOMAIN chain(r)
  PROVE  /\ chain(r)[i].kind = "timing" =>
              /\ chain(r)[i].start # "duration_ms"
              /\ \A j \in DOMAIN chain(r) :
                   /\ chain(r)[j].kind = "timing" => chain(r)[i].start # chain(r)[j].ms
                   /\ chain(r)[j].kind = "tracing" => chain(r)[i].start # chain(r)[j].name
         /\ chain(r)[i].kind = "tracing" => chain(r)[i].name # "duration_ms"
<1>1. Apart(chain(r))
  BY DEF NamesApart, Shape, chain
<1> QED
  BY <1>1 DEF Apart

\* A timer writes neither name of IdempotencyMiddleware.
LEMMA StartNotReserved ==
  ASSUME Shape, NEW r \in Records, NEW i \in Timers(r)
  PROVE  Start(r, i) \notin Reserved
  BY OwnNames DEF Timers, Start

\* What a record has to do with a step of another one.
LEMMA ValuesFrame ==
  ASSUME NEW q, Values(q), message' = message, phase'[q] = phase[q], entered'[q] = entered[q],
         state'[q] = state[q], began'[q] = began[q], took'[q] = took[q], logged'[q] = logged[q]
  PROVE  Values(q)'
<1>1. /\ chain(q)' = chain(q) /\ InFlight(q)' = InFlight(q)
      /\ Timers(q)' = Timers(q) /\ Durations(q)' = Durations(q)
      /\ \A i : Start(q, i)' = Start(q, i) /\ Inside(q, i)' = Inside(q, i)
  BY DEF chain, InFlight, Timers, Start, Durations, Inside
<1>2. Extent(q)' /\ StartKept(q)'
  BY <1>1 DEF Values, Extent, StartKept
<1>3. DurationKept(q)' /\ Own(q)' /\ Logged(q)'
  BY <1>1 DEF Values, DurationKept, Own, Logged
<1> QED
  BY <1>2, <1>3 DEF Values

\* ctx.state may change in the names that no one of these values has.
SameNames(r, st) ==
  /\ \A i \in Timers(r) : Get(st, Start(r, i)) = Get(state[r], Start(r, i))
  /\ Get(st, "duration_ms") = Get(state[r], "duration_ms")

\* A before hook other than the timer's completes.
LEMMA EnterValues ==
  ASSUME Shape, NEW r \in Records, Values(r), NEW st, Enter(r, st), phase[r] = "before",
         entered[r] + 1 \notin Timers(r), UNCHANGED <<message, observed>>,
         SameNames(r, st)
  PROVE  Values(r)'
<1>1. /\ state'[r] = st /\ entered'[r] = entered[r] + 1 /\ phase' = phase
      /\ began' = began /\ took' = took /\ logged' = logged /\ entered[r] \in Nat
  BY DEF Enter, Shape, observed
<1>2. /\ chain(r)' = chain(r) /\ InFlight(r)' /\ InFlight(r)
      /\ Timers(r)' = Timers(r) /\ Durations(r)' = Durations(r)
      /\ \A i : Start(r, i)' = Start(r, i) /\ Inside(r, i)' = Inside(r, i)
  BY <1>1 DEF chain, InFlight, Timers, Start, Durations, Inside
<1>3. Timers(r) \subseteq Nat
  BY ChainDomain DEF Timers
<1>4. \A i \in Timers(r) : i <= entered'[r] => i <= entered[r]
  BY <1>1, <1>3
<1>5. \A i \in Timers(r) : i <= entered[r] => i <= entered'[r]
  BY <1>1, <1>3
<1>6. Extent(r)'
  BY <1>1, <1>2, <1>4, <1>5 DEF Values, Extent
<1>7. StartKept(r)'
  BY <1>1, <1>2 DEF Values, StartKept, SameNames, Extent
<1>8. DurationKept(r)'
  BY <1>1, <1>2 DEF Values, DurationKept, SameNames
<1>9. Own(r)' /\ Logged(r)'
  BY <1>1, <1>2 DEF Values, Own, Logged
<1> QED
  BY <1>6, <1>7, <1>8, <1>9 DEF Values

\* The chain ends or is cut short: unwinding begins.
LEMMA AbortValues ==
  ASSUME Shape, NEW r \in Records, Values(r), NEW st, NEW error, Abort(r, st, error),
         phase[r] = "before", UNCHANGED <<message, observed>>,
         SameNames(r, st)
  PROVE  Values(r)'
<1>1. /\ state'[r] = st /\ entered' = entered /\ phase'[r] = "after"
      /\ began' = began /\ took' = took /\ logged' = logged /\ entered[r] \in Nat
  BY DEF Abort, Shape, observed
<1>2. /\ chain(r)' = chain(r) /\ InFlight(r)' /\ InFlight(r)
      /\ Timers(r)' = Timers(r) /\ Durations(r)' = Durations(r)
      /\ \A i : Start(r, i)' = Start(r, i) /\ Inside(r, i)' = Inside(r, i)
  BY <1>1 DEF chain, InFlight, Timers, Start, Durations, Inside
<1>3. Timers(r) \subseteq Nat
  BY ChainDomain DEF Timers
<1>4. \A i \in DOMAIN began[r] : ~(i > entered[r]) /\ i \notin DOMAIN took[r]
  BY <1>1, <1>3 DEF Values, Extent
<1>5. Extent(r)'
  BY <1>1, <1>2, <1>4 DEF Values, Extent
<1>6. StartKept(r)'
  BY <1>1, <1>2 DEF Values, StartKept, SameNames, Extent
<1>7. DurationKept(r)'
  BY <1>1, <1>2 DEF Values, DurationKept, SameNames
<1>8. Own(r)' /\ Logged(r)'
  BY <1>1, <1>2 DEF Values, Own, Logged
<1> QED
  BY <1>5, <1>6, <1>7, <1>8 DEF Values

-----------------------------------------------------------------------------
(* The hooks that measure, and the unwinding.                              *)

LEMMA TimingBeforeValues ==
  ASSUME NamesApart, Shape, Past, NEW r \in Records, Values(r), TimingBefore(r)
  PROVE  Values(r)' /\ Past'
<1> DEFINE i0 == entered[r] + 1
           name == Start(r, i0)
<1>1. /\ phase[r] = "before" /\ entered[r] \in Nat /\ i0 \in DOMAIN chain(r)
      /\ chain(r)[i0].kind = "timing" /\ Layer(r).start = name
  BY LayerOf DEF TimingBefore, AtBefore, Layer, Start
<1>2. i0 \in Timers(r) /\ Timers(r) \subseteq Nat
  BY <1>1, ChainDomain DEF Timers
<1>3. /\ state'[r] = Put(state[r], name, clock) /\ entered'[r] = entered[r] + 1
      /\ phase' = phase /\ began'[r] = Put(began[r], i0, clock)
      /\ began' = [q \in Records |-> began'[q]]
      /\ \A q \in Records \ {r} : began'[q] = began[q]
      /\ took' = took /\ logged' = logged /\ message' = message /\ clock' = clock
  BY <1>1 DEF TimingBefore, Enter, Shape, Past, here
<1>4. /\ chain(r)' = chain(r) /\ InFlight(r)' /\ InFlight(r)
      /\ Timers(r)' = Timers(r) /\ Durations(r)' = Durations(r)
      /\ \A i : Start(r, i)' = Start(r, i)
  BY <1>1, <1>3 DEF chain, InFlight, Timers, Start, Durations
<1>5. /\ DOMAIN began'[r] = DOMAIN began[r] \cup {i0} /\ began'[r][i0] = clock
      /\ \A i \in DOMAIN began[r] : i # i0 => began'[r][i] = began[r][i]
  BY <1>3 DEF Put
<1>6. /\ DOMAIN took[r] = {} /\ DOMAIN logged[r] = {}
      /\ \A i \in DOMAIN began[r] : i \in Timers(r) /\ i <= entered[r] /\ i < i0
  BY <1>1, <1>2 DEF Values, Extent
<1>7. Past'
  BY <1>3, <1>5, <1>6 DEF Past
<1>8. Extent(r)'
  <2>1. \A i \in Timers(r) : i <= entered'[r] => i <= entered[r] \/ i = i0
    BY <1>1, <1>2, <1>3
  <2>2. \A i \in Timers(r) : i <= entered[r] => i <= entered'[r]
    BY <1>1, <1>2, <1>3
  <2>3. i0 <= entered'[r]
    BY <1>1, <1>3
  <2> HIDE DEF i0
  <2> QED
    BY <1>1, <1>2, <1>3, <1>4, <1>5, <1>6, <2>1, <2>2, <2>3 DEF Values, Extent
<1>9. \A n : Get(state'[r], n) = IF n = name THEN clock ELSE Get(state[r], n)
  BY <1>3, GetPut
<1>10. StartKept(r)'
  <2> SUFFICES ASSUME NEW i \in DOMAIN began'[r]
               PROVE  /\ Get(state'[r], Start(r, i)) \in Nat
                      /\ began'[r][i] <= Get(state'[r], Start(r, i))
                      /\ \/ Get(state'[r], Start(r, i)) = began'[r][i]
                         \/ \E j \in DOMAIN began'[r] : j > i /\ Start(r, j) = Start(r, i)
    BY <1>4 DEF StartKept
  <2>1. clock \in Nat
    BY DEF Past
  <2>2. CASE i = i0
    BY <1>5, <1>9, <2>1, <2>2
  <2>3. CASE i # i0 /\ Start(r, i) = name
    <3>1. i \in DOMAIN began[r] /\ began[r][i] <= clock
      BY <1>5, <2>3 DEF Past
    <3>2. i0 > i
      BY <1>1, <1>2, <1>6, <3>1
    <3> QED
      BY <1>5, <1>9, <2>1, <2>3, <3>1, <3>2
  <2>4. CASE i # i0 /\ Start(r, i) # name
    BY <1>4, <1>5, <1>9, <2>4 DEF Values, StartKept
  <2> QED
    BY <2>2, <2>3, <2>4
<1>11. name # "duration_ms"
  BY <1>1, ApartOf DEF Start
<1>12. Durations(r) = {}
  BY <1>6 DEF Durations
<1>13. Get(state'[r], "duration_ms") = Get(state[r], "duration_ms")
  BY <1>9, <1>11
<1>14. DurationKept(r)'
  BY <1>4, <1>12, <1>13 DEF Values, DurationKept
<1>15. Own(r)' /\ Logged(r)'
  BY <1>3, <1>4, <1>6 DEF Own, Logged
<1> QED
  BY <1>7, <1>8, <1>10, <1>14, <1>15 DEF Values

LEMMA TimingAfterValues ==
  ASSUME NamesApart, Shape, Past, NEW r \in Records, Values(r), TimingAfter(r)
  PROVE  Values(r)' /\ Past'
<1> DEFINE i0 == entered[r]
           kept == Get(state[r], Start(r, i0))
           name == chain(r)[i0].ms
<1>1. /\ phase[r] = "after" /\ i0 \in Nat /\ i0 \in DOMAIN chain(r)
      /\ chain(r)[i0].kind = "timing"
  BY LayerOf DEF TimingAfter, AtAfter
<1>2. i0 \in Timers(r) /\ Timers(r) \subseteq Nat
  BY <1>1, ChainDomain DEF Timers
<1>3. /\ state'[r] = Put(state[r], name, clock - kept) /\ entered'[r] = i0 - 1
      /\ phase' = phase /\ began' = began /\ logged' = logged /\ message' = message
      /\ took'[r] = Put(took[r], i0, [stored |-> clock - kept, own |-> clock - began[r][i0]])
      /\ took' = [q \in Records |-> took'[q]]
      /\ \A q \in Records \ {r} : took'[q] = took[q]
      /\ clock' = clock
  BY <1>1 DEF TimingAfter, Leave, Shape, Past, here, Start
<1>4. /\ chain(r)' = chain(r) /\ InFlight(r)' /\ InFlight(r)
      /\ Timers(r)' = Timers(r)
      /\ \A i : Start(r, i)' = Start(r, i) /\ Inside(r, i)' = Inside(r, i)
  BY <1>1, <1>3 DEF chain, InFlight, Timers, Start, Inside
<1>5. /\ DOMAIN took'[r] = DOMAIN took[r] \cup {i0}
      /\ took'[r][i0] = [stored |-> clock - kept, own |-> clock - began[r][i0]]
      /\ \A i \in DOMAIN took[r] : i # i0 => took'[r][i] = took[r][i]
  BY <1>3 DEF Put
<1>6. /\ i0 \in DOMAIN began[r] /\ DOMAIN began[r] \subseteq Timers(r)
      /\ \A i \in DOMAIN took[r] : i \in Timers(r) /\ i > i0
      /\ \A i \in DOMAIN logged[r] : i > i0
  BY <1>1, <1>2, <1>4 DEF Values, Extent
<1>7. Past'
  BY <1>3 DEF Past
<1>8. Extent(r)'
  <2>1. \A i \in Timers(r) : i > entered'[r] <=> (i > entered[r] \/ i = i0)
    BY <1>1, <1>2, <1>3
  <2>2. \A i \in Timers(r) : i <= entered'[r] => i <= entered[r]
    BY <1>1, <1>2, <1>3
  <2>3. DOMAIN logged[r] \subseteq Nat
    BY ChainDomain DEF Values, Extent
  <2>4. \A i \in DOMAIN logged[r] : i > entered'[r]
    BY <1>1, <1>3, <1>6, <2>3
  <2> HIDE DEF i0
  <2> QED
    BY <1>1, <1>2, <1>3, <1>4, <1>5, <1>6, <2>1, <2>2, <2>4 DEF Values, Extent
<1>9. \A n : Get(state'[r], n) = IF n = name THEN clock - kept ELSE Get(state[r], n)
  BY <1>3, GetPut
<1>10. StartKept(r)'
  <2>1. \A i \in DOMAIN began[r] : Start(r, i) # name
    BY <1>1, <1>6, ApartOf DEF Start, Timers
  <2>2. \A i \in DOMAIN began[r] : Get(state'[r], Start(r, i)) = Get(state[r], Start(r, i))
    BY <1>9, <2>1
  <2> QED
    BY <1>3, <1>4, <2>2 DEF Values, StartKept
<1>11. /\ kept \in Nat /\ began[r][i0] \in Nat /\ clock \in Nat /\ began[r][i0] <= kept
       /\ \/ kept = began[r][i0]
          \/ \E j \in DOMAIN began[r] : j > i0 /\ Start(r, j) = Start(r, i0)
  BY <1>4, <1>6 DEF Values, StartKept, Past
<1>12. Own(r)'
  <2> SUFFICES ASSUME NEW i \in DOMAIN took'[r]
               PROVE  /\ took'[r][i].stored <= took'[r][i].own
                      /\ \/ took'[r][i].stored = took'[r][i].own
                         \/ \E j \in DOMAIN chain(r) :
                              /\ j > i /\ chain(r)[j].kind = "timing"
                              /\ Start(r, j) = Start(r, i)
    BY <1>4 DEF Own
  <2>1. CASE i = i0
    <3>1. took'[r][i].stored = clock - kept /\ took'[r][i].own = clock - began[r][i0]
      BY <1>5, <2>1
    <3>2. \A j \in DOMAIN began[r] : j \in DOMAIN chain(r) /\ chain(r)[j].kind = "timing"
      BY <1>6 DEF Timers
    <3> QED
      BY <1>11, <2>1, <3>1, <3>2
  <2>2. CASE i # i0
    BY <1>5, <2>2 DEF Values, Own
  <2> QED
    BY <2>1, <2>2
<1>13. DurationKept(r)'
  <2>1. CASE name = "duration_ms"
    <3>1. i0 \in Durations(r)' /\ Nearest(i0, Durations(r)')
      BY <1>1, <1>2, <1>4, <1>5, <1>6, <2>1 DEF Durations, Nearest
    <3>2. Get(state'[r], "duration_ms") = took'[r][i0].stored
      BY <1>5, <1>9, <2>1
    <3> QED
      BY <3>1, <3>2 DEF DurationKept, Nearest
  <2>2. CASE name # "duration_ms"
    <3>1. Durations(r)' = Durations(r)
      BY <1>4, <1>5, <2>2 DEF Durations
    <3>2. Get(state'[r], "duration_ms") = Get(state[r], "duration_ms")
      BY <1>9, <2>2
    <3>3. \A j \in Durations(r) : took'[r][j] = took[r][j]
      BY <1>2, <1>5, <1>6 DEF Durations
    <3> QED
      BY <1>4, <3>1, <3>2, <3>3 DEF Values, DurationKept, Nearest
  <2> QED
    BY <2>1, <2>2
<1>14. Logged(r)'
  <2> SUFFICES ASSUME NEW i \in DOMAIN logged[r]
               PROVE  \/ Inside(r, i) = {} /\ logged[r][i] = None
                      \/ \E j \in Inside(r, i) \cap DOMAIN took'[r] :
                           Nearest(j, Inside(r, i)) /\ logged[r][i] = took'[r][j].stored
    BY <1>3, <1>4 DEF Logged, Nearest
  <2>1. CASE Inside(r, i) = {} /\ logged[r][i] = None
    BY <2>1
  <2>2. CASE \E j \in Inside(r, i) \cap DOMAIN took[r] :
               Nearest(j, Inside(r, i)) /\ logged[r][i] = took[r][j].stored
    <3>1. PICK j \in Inside(r, i) \cap DOMAIN took[r] :
                 Nearest(j, Inside(r, i)) /\ logged[r][i] = took[r][j].stored
      BY <2>2
    <3>2. j > i0 /\ j \in Nat
      BY <1>2, <1>6, <3>1
    <3>3. j \in DOMAIN took'[r] /\ took'[r][j] = took[r][j]
      BY <1>1, <1>5, <3>1, <3>2
    <3> QED
      BY <3>1, <3>3
  <2> QED
    BY <2>1, <2>2 DEF Values, Logged
<1> QED
  BY <1>7, <1>8, <1>10, <1>12, <1>13, <1>14 DEF Values

LEMMA LoggingAfterValues ==
  ASSUME Shape, Past, NEW r \in Records, Values(r), LoggingAfter(r)
  PROVE  Values(r)' /\ Past'
<1> DEFINE i0 == entered[r]
           read == Get(state[r], "duration_ms")
<1>1. /\ phase[r] = "after" /\ i0 \in Nat /\ i0 \in DOMAIN chain(r)
      /\ chain(r)[i0].kind = "logging"
  BY LayerOf DEF LoggingAfter, AtAfter
<1>2. i0 \notin Timers(r) /\ Timers(r) \subseteq Nat
  BY <1>1, ChainDomain DEF Timers
<1>3. /\ state'[r] = state[r] /\ entered'[r] = i0 - 1
      /\ phase' = phase /\ began' = began /\ took' = took /\ message' = message
      /\ logged'[r] = Put(logged[r], i0, read)
      /\ logged' = [q \in Records |-> logged'[q]]
      /\ clock' = clock
  BY <1>1 DEF LoggingAfter, Leave, Shape, Past, here
<1>4. /\ chain(r)' = chain(r) /\ InFlight(r)' /\ InFlight(r)
      /\ Timers(r)' = Timers(r) /\ Durations(r)' = Durations(r)
      /\ \A i : Start(r, i)' = Start(r, i) /\ Inside(r, i)' = Inside(r, i)
  BY <1>1, <1>3 DEF chain, InFlight, Timers, Start, Inside, Durations
<1>5. /\ DOMAIN logged'[r] = DOMAIN logged[r] \cup {i0}
      /\ logged'[r][i0] = read
      /\ \A i \in DOMAIN logged[r] : i # i0 => logged'[r][i] = logged[r][i]
  BY <1>3 DEF Put
<1>6. /\ DOMAIN took[r] \subseteq DOMAIN began[r] /\ DOMAIN began[r] \subseteq Timers(r)
      /\ \A i \in DOMAIN began[r] : i \in DOMAIN took[r] <=> i > i0
      /\ \A i \in DOMAIN logged[r] : i > i0 /\ i \in Nat
  BY <1>1, ChainDomain DEF Values, Extent
<1>7. Past'
  BY <1>3 DEF Past
<1>8. Extent(r)'
  <2>1. \A i \in Timers(r) : i > entered'[r] <=> i > entered[r]
    BY <1>1, <1>2, <1>3
  <2>2. \A i \in Timers(r) : i <= entered'[r] => i <= entered[r]
    BY <1>1, <1>2, <1>3
  <2>3. \A i \in DOMAIN logged'[r] : i > entered'[r]
    BY <1>1, <1>3, <1>5, <1>6
  <2> HIDE DEF i0
  <2> QED
    BY <1>1, <1>2, <1>3, <1>4, <1>5, <1>6, <2>1, <2>2, <2>3 DEF Values, Extent
<1>9. Inside(r, i0) = Durations(r)
  BY <1>6 DEF Inside, Durations
<1>10. Logged(r)'
  <2> SUFFICES ASSUME NEW i \in DOMAIN logged'[r]
               PROVE  \/ Inside(r, i) = {} /\ logged'[r][i] = None
                      \/ \E j \in Inside(r, i) \cap DOMAIN took[r] :
                           Nearest(j, Inside(r, i)) /\ logged'[r][i] = took[r][j].stored
    BY <1>3, <1>4 DEF Logged, Nearest
  <2>1. CASE i = i0
    <3>1. Durations(r) \subseteq DOMAIN took[r]
      BY DEF Durations
    <3> QED
      BY <1>4, <1>5, <1>9, <2>1, <3>1 DEF Values, DurationKept
  <2>2. CASE i # i0
    BY <1>5, <2>2 DEF Values, Logged
  <2> QED
    BY <2>1, <2>2
<1>11. StartKept(r)' /\ DurationKept(r)'
  BY <1>3, <1>4 DEF Values, StartKept, DurationKept, Nearest
<1>12. Own(r)'
  BY <1>3, <1>4 DEF Values, Own
<1> QED
  BY <1>7, <1>8, <1>10, <1>11, <1>12 DEF Values

\* A layer that neither measures nor logs is unwound.
LEMMA LeaveValues ==
  ASSUME Shape, NEW r \in Records, Values(r), phase[r] = "after", entered[r] > 0,
         entered[r] \notin Timers(r), Leave(r, state[r]), UNCHANGED observed
  PROVE  Values(r)'
<1>1. entered[r] \in Nat /\ Timers(r) \subseteq Nat
  BY LayerOf, ChainDomain DEF Timers
<1>2. /\ state'[r] = state[r] /\ entered'[r] = entered[r] - 1
      /\ phase' = phase /\ message' = message
      /\ began' = began /\ took' = took /\ logged' = logged
  BY DEF Leave, Shape, here, observed
<1>3. /\ chain(r)' = chain(r) /\ InFlight(r)' /\ InFlight(r)
      /\ Timers(r)' = Timers(r) /\ Durations(r)' = Durations(r)
      /\ \A i : Start(r, i)' = Start(r, i) /\ Inside(r, i)' = Inside(r, i)
  BY <1>2 DEF chain, InFlight, Timers, Start, Inside, Durations
<1>4. \A i \in Timers(r) : i > entered'[r] <=> i > entered[r]
  BY <1>1, <1>2
<1>5. \A i \in Timers(r) : i <= entered'[r] => i <= entered[r]
  BY <1>1, <1>2
<1>6. \A i \in DOMAIN logged[r] : i > entered'[r]
  <2>1. DOMAIN logged[r] \subseteq Nat /\ \A i \in DOMAIN logged[r] : i > entered[r]
    BY ChainDomain DEF Values, Extent
  <2> QED
    BY <1>1, <1>2, <2>1
<1>7. Extent(r)'
  BY <1>2, <1>3, <1>4, <1>5, <1>6 DEF Values, Extent
<1>8. StartKept(r)' /\ DurationKept(r)'
  BY <1>2, <1>3 DEF Values, StartKept, DurationKept, Nearest
<1>9. Own(r)' /\ Logged(r)'
  BY <1>2, <1>3 DEF Values, Own, Logged, Nearest
<1> QED
  BY <1>7, <1>8, <1>9 DEF Values

-----------------------------------------------------------------------------
(* The steps.                                                              *)

\* What a layer other than a timer writes.
LEMMA SamePut ==
  ASSUME NEW r \in Records, NEW st, SameNames(r, st), NEW n, NEW v,
         n # "duration_ms", \A i \in Timers(r) : Start(r, i) # n
  PROVE  SameNames(r, Put(st, n, v))
  BY GetPut DEF SameNames

LEMMA BeforeHookValues ==
  ASSUME NamesApart, Shape, Past, NEW r \in Records, Values(r), BeforeHook(r)
  PROVE  Values(r)' /\ Past'
<1> DEFINE layer == Layer(r)
<1>1. /\ phase[r] = "before" /\ entered[r] \in Nat /\ entered[r] + 1 \in DOMAIN chain(r)
  BY LayerOf DEF BeforeHook, TimingBefore, LoggingBefore, TracingBefore, IdempotencyKeyless,
         IdempotencyBefore, AtBefore
<1>2. SameNames(r, state[r])
  BY DEF SameNames
<1>3. CASE TimingBefore(r)
  BY <1>3, TimingBeforeValues
<1>4. ASSUME ~TimingBefore(r)
      PROVE  /\ layer.kind # "timing" /\ entered[r] + 1 \notin Timers(r)
             /\ Past' /\ UNCHANGED <<message, observed>>
  <2>1. layer.kind # "timing" /\ UNCHANGED <<here, clock, observed>>
    BY <1>4 DEF BeforeHook, LoggingBefore, TracingBefore, IdempotencyKeyless,
      IdempotencyBefore, AtBefore, Layer
  <2> QED
    BY <2>1 DEF Timers, Layer, Past, here, observed
<1>5. CASE LoggingBefore(r) \/ IdempotencyKeyless(r)
  <2>1. ~TimingBefore(r)
    BY <1>5 DEF LoggingBefore, IdempotencyKeyless, TimingBefore, AtBefore
  <2>2. Enter(r, state[r]) \/ Abort(r, state[r], "error")
    BY <1>5 DEF LoggingBefore, IdempotencyKeyless
  <2> QED
    BY <1>1, <1>2, <1>4, <2>1, <2>2, EnterValues, AbortValues
<1>6. CASE TracingBefore(r)
  <2>1. ~TimingBefore(r) /\ layer.kind = "tracing"
    BY <1>6 DEF TracingBefore, TimingBefore, AtBefore, Layer
  <2> DEFINE parsed == Parse(Preferred(message[r], "traceparent"),
                             Preferred(message[r], "tracestate"))
             st == IF parsed = None THEN state[r] ELSE Put(state[r], layer.name, parsed)
  <2>2. Enter(r, st)
    BY <1>6 DEF TracingBefore
  <2>3. layer.name # "duration_ms" /\ \A i \in Timers(r) : Start(r, i) # layer.name
    BY <1>1, <2>1, ApartOf DEF Layer, Timers, Start
  <2>4. SameNames(r, st)
    BY <1>2, <2>3, SamePut
  <2> QED
    BY <1>1, <1>4, <2>1, <2>2, <2>4, EnterValues
<1>7. CASE IdempotencyBefore(r)
  <2> DEFINE st == Put(state[r], "idempotency_key", KeyAt(r, layer))
             claimed == Put(st, "_idempotency_acquired", TRUE)
  <2>1. ~TimingBefore(r)
    BY <1>7 DEF IdempotencyBefore, TimingBefore, AtBefore
  <2>2. Enter(r, claimed) \/ \E error : Abort(r, st, error)
    BY <1>7 DEF IdempotencyBefore
  <2>3. \A i \in Timers(r) : Start(r, i) \notin {"idempotency_key", "_idempotency_acquired"}
    BY StartNotReserved DEF Reserved
  <2>4. SameNames(r, st)
    BY <1>2, <2>3, SamePut
  <2>5. SameNames(r, claimed)
    <3> HIDE DEF st
    <3> QED
      BY <2>3, <2>4, SamePut
  <2> HIDE DEF st, claimed
  <2> QED
    BY <1>1, <1>4, <2>1, <2>2, <2>4, <2>5, EnterValues, AbortValues
<1> QED
  BY <1>3, <1>5, <1>6, <1>7 DEF BeforeHook

LEMMA AfterHookValues ==
  ASSUME NamesApart, Shape, Past, NEW r \in Records, Values(r), AfterHook(r)
  PROVE  Values(r)' /\ Past'
<1>1. CASE TimingAfter(r)
  BY <1>1, TimingAfterValues
<1>2. CASE LoggingAfter(r)
  BY <1>2, LoggingAfterValues
<1>3. CASE TracingAfter(r) \/ IdempotencyAfter(r)
  <2>1. /\ phase[r] = "after" /\ entered[r] > 0 /\ entered[r] \notin Timers(r)
        /\ Leave(r, state[r]) /\ UNCHANGED observed
    BY <1>3 DEF TracingAfter, IdempotencyAfter, AtAfter, Timers
  <2>2. Past'
    BY <2>1 DEF Past, Leave, observed
  <2> QED
    BY <2>1, <2>2, LeaveValues
<1> QED
  BY <1>1, <1>2, <1>3 DEF AfterHook

LEMMA HandlerValues ==
  ASSUME Shape, Past, NEW r \in Records, Values(r), Handler(r)
  PROVE  Values(r)' /\ Past'
<1>1. SameNames(r, state[r])
  BY DEF SameNames
<1>2. PICK outcome : Abort(r, state[r], outcome)
  BY DEF Handler
<1>3. phase[r] = "before" /\ UNCHANGED <<message, observed>> /\ Past'
  BY DEF Handler, here, observed, Past
<1> QED
  BY <1>1, <1>2, <1>3, AbortValues

LEMMA RecordEndsValues ==
  ASSUME Shape, Past, NEW r \in Records, Values(r), RecordEnds(r)
  PROVE  Values(r)' /\ Past'
<1>1. /\ entered' = entered /\ state' = state /\ message' = message
      /\ began' = began /\ took' = took /\ logged' = logged /\ clock' = clock
      /\ phase'[r] \in {"done", "failed"}
  BY DEF RecordEnds, Shape, here, observed
<1>2. /\ chain(r)' = chain(r) /\ ~InFlight(r)' /\ Timers(r)' = Timers(r)
      /\ \A i : Start(r, i)' = Start(r, i) /\ Inside(r, i)' = Inside(r, i)
  BY <1>1 DEF chain, InFlight, Timers, Start, Inside
<1>3. Extent(r)' /\ StartKept(r)' /\ DurationKept(r)'
  BY <1>1, <1>2 DEF Values, Extent, StartKept, DurationKept
<1>4. Own(r)' /\ Logged(r)'
  BY <1>1, <1>2 DEF Values, Own, Logged, Nearest
<1> QED
  BY <1>1, <1>3, <1>4 DEF Values, Past

LEMMA NothingMeasured ==
  ASSUME Shape, NEW r \in Records, phase[r] = "before", entered[r] = 0, state[r] = <<>>,
         began[r] = <<>>, took[r] = <<>>, logged[r] = <<>>
  PROVE  Values(r)
<1>1. DOMAIN <<>> = {}
  OBVIOUS
<1>2. \A i \in Timers(r) : ~(i <= 0)
  BY ChainDomain DEF Timers
<1>3. Extent(r) /\ StartKept(r) /\ Own(r) /\ Logged(r)
  BY <1>1, <1>2 DEF Extent, StartKept, Own, Logged
<1>4. DurationKept(r)
  BY <1>1, GetEmpty DEF DurationKept, Durations
<1> QED
  BY <1>3, <1>4 DEF Values

LEMMA RedeliverValues ==
  ASSUME IInv, Past, NEW r \in Records, Redeliver(r)
  PROVE  Values(r)' /\ Past'
<1>1. Shape /\ entered[r] = 0
  BY DEF IInv, Ended, InFlight, Redeliver
<1>2. /\ phase'[r] = "before" /\ entered' = entered /\ message' = message /\ clock' = clock
      /\ state'[r] = <<>> /\ began'[r] = <<>> /\ took'[r] = <<>> /\ logged'[r] = <<>>
      /\ began' = [q \in Records |-> began'[q]] /\ took' = [q \in Records |-> took'[q]]
      /\ logged' = [q \in Records |-> logged'[q]]
      /\ \A q \in Records \ {r} : began'[q] = began[q]
  BY <1>1 DEF Redeliver, Shape, Past
<1>3. Shape'
  BY RedeliverKeeps DEF IInv
<1>4. DOMAIN <<>> = {}
  OBVIOUS
<1>5. Past'
  BY <1>2, <1>4 DEF Past
<1>6. (phase[r] = "before" /\ entered[r] = 0 /\ state[r] = <<>>
        /\ began[r] = <<>> /\ took[r] = <<>> /\ logged[r] = <<>>)'
  BY <1>1, <1>2
<1>7. \A i \in Timers(r)' : ~(i <= 0)
  BY <1>1, <1>2, ChainDomain DEF Timers, chain
<1>8. Extent(r)' /\ StartKept(r)' /\ Own(r)' /\ Logged(r)'
  BY <1>4, <1>6, <1>7 DEF Extent, StartKept, Own, Logged
<1>9. DurationKept(r)'
  BY <1>4, <1>6, GetEmpty DEF DurationKept, Durations
<1> QED
  BY <1>5, <1>8, <1>9 DEF Values

RecordNext(r) == BeforeHook(r) \/ Handler(r) \/ AfterHook(r) \/ RecordEnds(r) \/ Redeliver(r)

\* A step of one record leaves the others alone.
LEMMA OthersAlone ==
  ASSUME Shape, Past, NEW r \in Records, RecordNext(r), NEW q \in Records, q # r
  PROVE  /\ message' = message /\ phase'[q] = phase[q] /\ entered'[q] = entered[q]
         /\ state'[q] = state[q] /\ began'[q] = began[q] /\ took'[q] = took[q]
         /\ logged'[q] = logged[q]
<1>1. CASE BeforeHook(r) \/ Handler(r)
  BY <1>1 DEF BeforeHook, TimingBefore, LoggingBefore, TracingBefore, IdempotencyKeyless,
    IdempotencyBefore, Handler, Enter, Abort, Shape, Past, here, observed
<1>2. CASE AfterHook(r)
  BY <1>2 DEF AfterHook, TimingAfter, LoggingAfter, TracingAfter, IdempotencyAfter, Leave,
    Shape, Past, here, observed
<1>3. CASE RecordEnds(r) \/ Redeliver(r)
  BY <1>3 DEF RecordEnds, Redeliver, Shape, Past, here, observed
<1> QED
  BY <1>1, <1>2, <1>3 DEF RecordNext

\* The values of ctx.state, and what was read from it, are always as VInv
\* says, if the names of every chain are apart.
THEOREM ValuesKept ==
  ASSUME NamesApart
  PROVE  Spec => []VInv
<1>1. Init => VInv
  <2> SUFFICES ASSUME Init PROVE VInv
    OBVIOUS
  <2>1. Shape
    BY InitInductive DEF IInv
  <2>2. \A r \in Records : Values(r)
    BY <2>1, NothingMeasured DEF Init
  <2>3. DOMAIN <<>> = {}
    OBVIOUS
  <2>4. Past
    BY <2>3 DEF Init, Past
  <2> QED
    BY <2>2, <2>4 DEF VInv
<1>2. IInv /\ VInv /\ [Next]_vars => VInv'
  <2> SUFFICES ASSUME IInv, VInv, [Next]_vars PROVE VInv'
    OBVIOUS
  <2>0. Shape /\ Past /\ \A r \in Records : Values(r)
    BY DEF IInv, VInv
  <2>1. ASSUME NEW r \in Records, RecordNext(r) PROVE VInv'
    <3>1. Values(r)' /\ Past'
      BY <2>0, <2>1, BeforeHookValues, AfterHookValues, HandlerValues, RecordEndsValues,
        RedeliverValues DEF RecordNext
    <3>2. ASSUME NEW q \in Records, q # r PROVE Values(q)'
      <4>1. Values(q)
        BY <2>0
      <4> QED
        BY <2>0, <2>1, <3>2, <4>1, OthersAlone, ValuesFrame
    <3> QED
      BY <3>1, <3>2 DEF VInv
  <2>2. CASE Tick \/ UNCHANGED vars
    <3>1. /\ message' = message /\ phase' = phase /\ entered' = entered /\ state' = state
          /\ began' = began /\ took' = took /\ logged' = logged
          /\ clock' = clock + 1 \/ clock' = clock
      BY <2>2 DEF Tick, vars, here, observed
    <3>2. \A q \in Records : Values(q)'
      BY <2>0, <3>1, ValuesFrame
    <3>3. Past'
      BY <2>0, <3>1 DEF Past
    <3> QED
      BY <3>2, <3>3 DEF VInv
  <2> QED
    BY <2>1, <2>2 DEF Next, Done, RecordNext
<1> QED
  BY <1>1, <1>2, Inductive, PTL DEF Spec

\* A TimingMiddleware stores its own duration, unless one inside it shares
\* its start key, and never more: for any chains and any clock.
THEOREM DurationsAreOwn ==
  ASSUME NamesApart
  PROVE  Spec => []DurationOwn
<1>1. VInv => DurationOwn
  BY DEF VInv, Values, Own, Start, DurationOwn
<1> QED
  BY <1>1, ValuesKept, PTL

\* LoggingMiddleware logs the duration of the nearest timer inside it that
\* entered in this delivery, and none when there is none.
THEOREM LogsNearestDuration ==
  ASSUME NamesApart
  PROVE  Spec => []LoggedDuration
<1>1. IInv /\ VInv => LoggedDuration
  <2> SUFFICES ASSUME IInv, VInv, NEW r \in Records, NEW i \in DOMAIN logged[r]
               PROVE  IF Inside(r, i) = {} THEN logged[r][i] = None
                      ELSE LET nearest == CHOOSE j \in Inside(r, i) :
                                            \A k \in Inside(r, i) : j <= k
                           IN  logged[r][i] = took[r][nearest].stored
    BY DEF LoggedDuration, Inside
  <2>1. Values(r)
    BY DEF VInv
  <2>2. CASE Inside(r, i) = {}
    BY <2>1, <2>2 DEF Values, Logged
  <2>3. CASE Inside(r, i) # {}
    <3>1. PICK j \in Inside(r, i) :
                 /\ \A k \in Inside(r, i) : j <= k
                 /\ logged[r][i] = took[r][j].stored
      BY <2>1, <2>3 DEF Values, Logged, Nearest
    <3>2. Inside(r, i) \subseteq Nat
      BY <2>1, ChainDomain DEF IInv, Values, Extent, Timers, Inside
    <3>3. \A l \in Inside(r, i) : (\A k \in Inside(r, i) : l <= k) => l = j
      BY <3>1, <3>2
    <3> QED
      BY <2>3, <3>1, <3>3
  <2> QED
    BY <2>2, <2>3
<1> QED
  BY <1>1, Inductive, ValuesKept, PTL
=============================================================================
