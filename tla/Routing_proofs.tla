---------------------------- MODULE Routing_proofs ---------------------------
(***************************************************************************)
(* Theorems of Routing: the registries stay sound whatever the order of    *)
(* the registrations, and a handler's path and middlewares are those of    *)
(* the routers on the way to it.  For any routers, classes and values.     *)
(***************************************************************************)
EXTENDS Routing, WellFoundedInduction, TLAPS

\* ctx.route_path and the inherited middlewares, while a message is dispatched,
\* against the routers entered.
Trail ==
  /\ outcome = None => path = <<>> /\ chain = <<>> /\ walk = <<>>
  /\ outcome = Pending =>
       /\ walk = Append(path, at)
       /\ Len(chain) <= Len(path)
       /\ \A i \in 1..Len(chain) : chain[i] = path[i + (Len(path) - Len(chain))]
       /\ \A i \in 1..Len(path) :
            i > Len(path) - Len(chain) <=> \A j \in i..Len(path) : path[j] \in Inherit

\* No value has a key-value handler and a class of that primary type.
OneStylePerValue == \A r \in Routers : Primaries(r) \cap keyed[r] = {}

\* The registries.
Registries == OneStylePerValue /\ LookupSound

IInv == TypeOK /\ Registries /\ Trail /\ PathOfClaimant /\ MiddlewaresNested

-----------------------------------------------------------------------------
(* Sequences of routers.                                                   *)

LEMMA PrefixIf ==
  ASSUME NEW S, NEW s \in Seq(S), NEW t \in Seq(S), Len(s) <= Len(t),
         \A i \in 1..Len(s) : s[i] = t[i]
  PROVE  IsPrefix(s, t)
<1>1. SubSeq(s, 1, Len(s)) = SubSeq(t, 1, Len(s))
  OBVIOUS
<1> QED
  BY <1>1 DEF IsPrefix

LEMMA SuffixIf ==
  ASSUME NEW S, NEW s \in Seq(S), NEW t \in Seq(S), Len(s) <= Len(t),
         \A i \in 1..Len(s) : s[i] = t[i + (Len(t) - Len(s))]
  PROVE  IsSuffix(s, t)
<1>1. /\ Reverse(s) \in Seq(S) /\ Len(Reverse(s)) = Len(s)
      /\ Reverse(t) \in Seq(S) /\ Len(Reverse(t)) = Len(t)
  BY DEF Reverse
<1>2. \A i \in 1..Len(s) : Reverse(s)[i] = Reverse(t)[i]
  <2> SUFFICES ASSUME NEW i \in 1..Len(s) PROVE Reverse(s)[i] = Reverse(t)[i]
    OBVIOUS
  <2>1. Reverse(s)[i] = s[(Len(s) - i) + 1] /\ Reverse(t)[i] = t[(Len(t) - i) + 1]
    BY DEF Reverse
  <2>2. (Len(s) - i) + 1 \in 1..Len(s)
    OBVIOUS
  <2>3. ((Len(s) - i) + 1) + (Len(t) - Len(s)) = (Len(t) - i) + 1
    OBVIOUS
  <2> QED
    BY <2>1, <2>2, <2>3
<1> QED
  BY <1>1, <1>2, PrefixIf DEF IsSuffix

\* A sequence is a prefix of itself, and of itself with one more.
LEMMA PrefixOfAppend ==
  ASSUME NEW S, NEW s \in Seq(S), NEW x \in S
  PROVE  IsPrefix(s, Append(s, x)) /\ IsPrefix(s, s) /\ IsPrefix(<<>>, s)
<1>1. /\ Append(s, x) \in Seq(S) /\ Len(s) <= Len(Append(s, x))
      /\ \A i \in 1..Len(s) : s[i] = Append(s, x)[i]
  OBVIOUS
<1>2. IsPrefix(s, Append(s, x))
  BY <1>1, PrefixIf
<1>3. IsPrefix(s, s)
  BY PrefixIf
<1>4. IsPrefix(<<>>, s)
  BY DEF IsPrefix
<1> QED
  BY <1>2, <1>3, <1>4

-----------------------------------------------------------------------------
(* Registration.                                                           *)

\* A class is registered under a value that no handler has, and with variants
\* that no class has.
LEMMA RouteModelKeeps ==
  ASSUME TypeOK, Registries, NEW r \in Routers, NEW t \in Types, RouteModel(r, t)
  PROVE  TypeOK' /\ Registries'
<1>1. /\ models' = [models EXCEPT ![r] = @ \cup {t}]
      /\ Primary[t] \notin Primaries(r) \cup keyed[r]
      /\ UNCHANGED <<keyed, nested, default, included, msg, at, queue, chain, path, walk, outcome>>
  BY DEF RouteModel, Entries, notDispatched
<1>2. PICK new \in SUBSET NewVariants(r, t) : lookup' = [lookup EXCEPT ![r] = @ \cup new]
  <2>1. CASE lookup' = lookup
    <3>1. lookup' = [lookup EXCEPT ![r] = @ \cup {}]
      BY <2>1 DEF TypeOK
    <3> QED
      BY <3>1
  <2> QED
    BY <2>1 DEF RouteModel
<1>3. Primary[t] \in Values /\ Variants[t] \subseteq Values
  BY RoutingAssumption
<1>4. new \subseteq [variant : Values, primary : Values]
  BY <1>3 DEF NewVariants
<1>5. /\ models'[r] = models[r] \cup {t} /\ lookup'[r] = lookup[r] \cup new
      /\ \A q \in Routers \ {r} : models'[q] = models[q] /\ lookup'[q] = lookup[q]
      /\ models' \in [Routers -> SUBSET Types]
      /\ lookup' \in [Routers -> SUBSET [variant : Values, primary : Values]]
  BY <1>1, <1>2, <1>4 DEF TypeOK
<1>6. TypeOK'
  BY <1>1, <1>5 DEF TypeOK
<1>7. /\ Primaries(r)' = Primaries(r) \cup {Primary[t]}
      /\ \A q \in Routers \ {r} : Primaries(q)' = Primaries(q)
  BY <1>5 DEF Primaries
<1>8. OneStylePerValue'
  BY <1>1, <1>7 DEF Registries, OneStylePerValue
<1>9. LookupSound'
  <2>1. \A e \in new : e.primary = Primary[t] /\ \A f \in lookup[r] : f.variant # e.variant
    BY DEF NewVariants
  <2>2. \A e, f \in new : e.variant = f.variant => e = f
    BY <2>1, <1>4
  <2> QED
    BY <1>5, <1>7, <2>1, <2>2 DEF Registries, LookupSound
<1> QED
  BY <1>6, <1>8, <1>9 DEF Registries

LEMMA RouteValueKeeps ==
  ASSUME TypeOK, Registries, NEW r \in Routers, NEW v \in Values, RouteValue(r, v)
  PROVE  TypeOK' /\ Registries'
<1>1. /\ keyed' = [keyed EXCEPT ![r] = @ \cup {v}] /\ v \notin Primaries(r)
      /\ UNCHANGED <<models, lookup, nested, default, included,
                     msg, at, queue, chain, path, walk, outcome>>
  BY DEF RouteValue, notDispatched
<1>2. /\ keyed' \in [Routers -> SUBSET Values] /\ keyed'[r] = keyed[r] \cup {v}
      /\ \A q \in Routers \ {r} : keyed'[q] = keyed[q]
  BY <1>1 DEF TypeOK
<1>3. \A q : Primaries(q)' = Primaries(q)
  BY <1>1 DEF Primaries
<1>4. TypeOK'
  BY <1>1, <1>2 DEF TypeOK
<1>5. OneStylePerValue'
  BY <1>1, <1>2, <1>3 DEF Registries, OneStylePerValue
<1>6. LookupSound'
  BY <1>1, <1>3 DEF Registries, LookupSound
<1> QED
  BY <1>4, <1>5, <1>6 DEF Registries

\* Steps that leave the handlers of the registries alone.
LEMMA SameRegistries ==
  ASSUME Registries, UNCHANGED <<models, lookup, keyed>>
  PROVE  Registries'
<1>1. \A q : Primaries(q)' = Primaries(q)
  BY DEF Primaries
<1> QED
  BY <1>1 DEF Registries, OneStylePerValue, LookupSound

LEMMA RegisterKeeps ==
  ASSUME TypeOK, Registries, Register
  PROVE  TypeOK' /\ Registries' /\ UNCHANGED <<at, chain, path, walk, outcome>>
<1>1. PICK r \in Routers :
        \/ \E t \in Types : RouteModel(r, t)
        \/ \E v \in Values : RouteValue(r, v) \/ \E s \in Routers : Subrouter(r, v, s)
        \/ SetDefault(r) \/ IncludeRouter(r)
  BY DEF Register
<1>2. UNCHANGED <<at, chain, path, walk, outcome>>
  BY <1>1 DEF RouteModel, RouteValue, Subrouter, SetDefault, IncludeRouter, notDispatched
<1>3. ASSUME NEW v \in Values, NEW s \in Routers, Subrouter(r, v, s)
      PROVE  TypeOK' /\ Registries'
  <2>1. nested' \in [Routers -> SUBSET [value : Values, router : Routers]]
    BY <1>3 DEF Subrouter, TypeOK
  <2> QED
    BY <1>3, <2>1, SameRegistries DEF Subrouter, notDispatched, TypeOK
<1>4. CASE SetDefault(r)
  BY <1>4, SameRegistries DEF SetDefault, notDispatched, TypeOK
<1>5. CASE IncludeRouter(r)
  <2>1. included' \in Seq(Routers)
    BY <1>5 DEF IncludeRouter, TypeOK
  <2> QED
    BY <1>5, <2>1, SameRegistries DEF IncludeRouter, notDispatched, TypeOK
<1> QED
  BY <1>1, <1>2, <1>3, <1>4, <1>5, RouteModelKeeps, RouteValueKeeps

-----------------------------------------------------------------------------
(* Dispatch.                                                               *)

\* None and Pending are different outcomes, and no result.
LEMMA Kinds ==
  /\ None # Pending
  /\ Pending.kind = "pending" /\ None.kind = "none"
  BY DEF None, Pending

\* What RegisterKeeps leaves alone is all that the dispatch properties read.
LEMMA SameDispatch ==
  ASSUME Trail, PathOfClaimant, MiddlewaresNested, UNCHANGED <<at, chain, path, walk, outcome>>
  PROVE  Trail' /\ PathOfClaimant' /\ MiddlewaresNested'
<1>1. None' = None /\ Pending' = Pending
  BY DEF None, Pending
<1> QED
  BY <1>1 DEF Trail, PathOfClaimant, MiddlewaresNested, IsPrefix, IsSuffix

\* The router that claims the message runs the handler.
LEMMA HandledKeeps ==
  ASSUME TypeOK, Trail, outcome = Pending,
         NEW kind \in {"model", "value", "default"}, NEW added, added \in {<<>>, <<at>>},
         Handled(kind, added)
  PROVE  TypeOK' /\ Trail' /\ PathOfClaimant' /\ MiddlewaresNested'
<1> DEFINE mws == Append(chain, at)
<1>1. /\ outcome' = [kind |-> kind, router |-> at, middlewares |-> mws]
      /\ path' = path \o added
      /\ UNCHANGED <<models, lookup, keyed, nested, default, included, msg, at, queue, chain, walk>>
  BY DEF Handled, registry
<1>2. /\ path \in Seq(Routers) /\ chain \in Seq(Routers) /\ at \in Routers /\ walk \in Seq(Routers)
      /\ walk = Append(path, at)
      /\ Len(chain) <= Len(path)
      /\ \A i \in 1..Len(chain) : chain[i] = path[i + (Len(path) - Len(chain))]
      /\ \A i \in 1..Len(path) :
           i > Len(path) - Len(chain) <=> \A j \in i..Len(path) : path[j] \in Inherit
  BY DEF TypeOK, Trail
<1>3. outcome'.kind = kind /\ outcome'.middlewares = mws
  BY <1>1
<1>4. path' = path \/ path' = walk
  <2>1. path \o <<>> = path /\ path \o <<at>> = Append(path, at)
    BY <1>2
  <2> QED
    BY <1>1, <1>2, <2>1
<1>5. TypeOK'
  BY <1>1, <1>2, <1>3, <1>4 DEF TypeOK
<1>6. Trail'
  BY <1>3, Kinds DEF Trail, None, Pending
<1>7. PathOfClaimant'
  <2>1. IsPrefix(path, walk) /\ IsPrefix(walk, walk)
    BY <1>2, PrefixOfAppend
  <2> QED
    BY <1>1, <1>4, <2>1 DEF PathOfClaimant
<1>8. IsSuffix(mws, walk)
  <2>1. mws \in Seq(Routers) /\ Len(mws) = Len(chain) + 1 /\ Len(walk) = Len(path) + 1
    BY <1>2
  <2>2. ASSUME NEW i \in 1..Len(mws) PROVE mws[i] = walk[i + (Len(walk) - Len(mws))]
    <3>1. CASE i = Len(mws)
      BY <1>2, <2>1, <3>1
    <3>2. CASE i # Len(mws)
      <4>1. i \in 1..Len(chain) /\ mws[i] = chain[i]
        BY <1>2, <2>1, <3>2
      <4>2. Len(walk) - Len(mws) = Len(path) - Len(chain)
        BY <1>2, <2>1
      <4>3. i + (Len(path) - Len(chain)) \in 1..Len(path)
        BY <1>2, <4>1
      <4>4. walk[i + (Len(path) - Len(chain))] = path[i + (Len(path) - Len(chain))]
        BY <1>2, <4>3
      <4> QED
        BY <1>2, <4>1, <4>2, <4>4
    <3> QED
      BY <3>1, <3>2
  <2>3. Len(mws) <= Len(walk)
    BY <1>2, <2>1
  <2> HIDE DEF mws
  <2> QED
    BY <1>2, <2>1, <2>2, <2>3, SuffixIf
<1>9. ASSUME NEW i \in 1..Len(walk)
      PROVE  i > Len(walk) - Len(mws) <=> \A j \in i..(Len(walk) - 1) : walk[j] \in Inherit
  <2>1. /\ Len(mws) = Len(chain) + 1 /\ Len(walk) = Len(path) + 1
        /\ \A j \in 1..Len(path) : walk[j] = path[j]
    BY <1>2
  <2>2. Len(walk) - Len(mws) = Len(path) - Len(chain) /\ Len(walk) - 1 = Len(path)
    BY <1>2, <2>1
  <2> HIDE DEF mws
  <2>3. CASE i = Len(walk)
    BY <1>2, <2>1, <2>2, <2>3
  <2>4. CASE i # Len(walk)
    <3>1. i \in 1..Len(path)
      BY <1>2, <2>1, <2>4
    <3>2. (\A j \in i..Len(path) : path[j] \in Inherit)
            <=> (\A j \in i..Len(path) : walk[j] \in Inherit)
      BY <2>1, <3>1
    <3> QED
      BY <1>2, <2>2, <3>1, <3>2
  <2> QED
    BY <2>3, <2>4
<1>10. MiddlewaresNested'
  <2> HIDE DEF mws
  <2>1. walk' = walk
    BY <1>1
  <2> QED
    BY <1>3, <1>8, <1>9, <2>1 DEF MiddlewaresNested
<1> QED
  BY <1>5, <1>6, <1>7, <1>10

\* A subrouter takes over.
LEMMA NestedKeeps ==
  ASSUME TypeOK, Trail, DispatchNested
  PROVE  TypeOK' /\ Trail' /\ PathOfClaimant' /\ MiddlewaresNested'
<1>1. PICK s \in Subrouters :
        /\ at' = s
        /\ chain' = IF at \in Inherit THEN Append(chain, at) ELSE <<>>
        /\ path' = Append(path, at)
        /\ walk' = Append(walk, s)
  BY DEF DispatchNested
<1>2. /\ outcome = Pending
      /\ UNCHANGED <<models, lookup, keyed, nested, default, included, msg, queue, outcome>>
  BY DEF DispatchNested, registry
<1>3. /\ path \in Seq(Routers) /\ chain \in Seq(Routers) /\ at \in Routers /\ walk \in Seq(Routers)
      /\ walk = Append(path, at)
      /\ Len(chain) <= Len(path)
      /\ \A i \in 1..Len(chain) : chain[i] = path[i + (Len(path) - Len(chain))]
      /\ \A i \in 1..Len(path) :
           i > Len(path) - Len(chain) <=> \A j \in i..Len(path) : path[j] \in Inherit
  BY <1>2 DEF TypeOK, Trail
<1>4. s \in Routers
  BY <1>3 DEF Subrouters, TypeOK
<1>5. /\ path' \in Seq(Routers) /\ chain' \in Seq(Routers) /\ walk' \in Seq(Routers)
      /\ Len(path') = Len(path) + 1
  BY <1>1, <1>3, <1>4
<1>6. TypeOK'
  BY <1>1, <1>2, <1>4, <1>5 DEF TypeOK
<1>7. Trail'
  <2>1. walk' = Append(path', at')
    BY <1>1, <1>3
  <2>2. path'[Len(path')] = at /\ \A j \in 1..Len(path) : path'[j] = path[j]
    BY <1>1, <1>3, <1>5
  <2>3. CASE at \in Inherit
    <3>1. chain' = Append(chain, at) /\ Len(chain') = Len(chain) + 1
      BY <1>1, <1>3, <2>3
    <3>2. ASSUME NEW i \in 1..Len(chain') PROVE chain'[i] = path'[i + (Len(path') - Len(chain'))]
      <4>1. Len(path') - Len(chain') = Len(path) - Len(chain)
        BY <1>3, <1>5, <3>1
      <4>2. CASE i = Len(chain')
        <5>1. chain'[i] = at
          BY <1>3, <3>1, <4>2
        <5>2. i + (Len(path) - Len(chain)) = Len(path) + 1
          BY <1>3, <3>1, <4>2
        <5>3. path'[Len(path) + 1] = at
          BY <1>1, <1>3
        <5> QED
          BY <4>1, <5>1, <5>2, <5>3
      <4>3. CASE i # Len(chain')
        <5>1. i \in 1..Len(chain) /\ chain'[i] = chain[i]
          BY <1>3, <3>1, <4>3
        <5>2. i + (Len(path) - Len(chain)) \in 1..Len(path)
          BY <1>3, <5>1
        <5>3. path'[i + (Len(path) - Len(chain))] = path[i + (Len(path) - Len(chain))]
          BY <1>1, <1>3, <5>2
        <5> QED
          BY <1>3, <4>1, <5>1, <5>3
      <4> QED
        BY <4>2, <4>3
    <3>3. Len(chain') <= Len(path') /\ Len(path') - Len(chain') = Len(path) - Len(chain)
      BY <1>3, <1>5, <3>1
    <3>4. ASSUME NEW i \in 1..Len(path')
          PROVE  i > Len(path') - Len(chain') <=> \A j \in i..Len(path') : path'[j] \in Inherit
      <4>1. CASE i = Len(path')
        BY <1>3, <1>5, <2>3, <2>2, <3>1, <3>3, <4>1
      <4>2. CASE i # Len(path')
        <5>1. i \in 1..Len(path)
          BY <1>5, <4>2
        <5>2. (\A j \in i..Len(path) : path[j] \in Inherit)
                <=> (\A j \in i..Len(path') : path'[j] \in Inherit)
          <6>1. Len(path) \in Nat /\ Len(path') = Len(path) + 1
            BY <1>3, <1>5
          <6>2. i..Len(path') = (i..Len(path)) \cup {Len(path')} /\ i..Len(path) \subseteq 1..Len(path)
            BY <5>1, <6>1
          <6> QED
            BY <2>3, <2>2, <6>2
        <5> QED
          BY <1>3, <3>3, <5>1, <5>2
      <4> QED
        BY <4>1, <4>2
    <3> QED
      BY <1>2, <2>1, <3>2, <3>3, <3>4, Kinds DEF Trail, None, Pending
  <2>4. CASE at \notin Inherit
    <3>1. chain' = <<>> /\ Len(chain') = 0
      BY <1>1, <2>4
    <3>2. Len(chain') <= Len(path') /\ \A i \in 1..Len(chain') : FALSE
      BY <1>3, <1>5, <3>1
    <3>3. \A i \in 1..Len(path') :
            ~(i > Len(path') - Len(chain')) /\ ~(\A j \in i..Len(path') : path'[j] \in Inherit)
      BY <1>3, <1>5, <2>4, <2>2, <3>1
    <3> QED
      BY <1>2, <2>1, <3>1, <3>2, <3>3, Kinds DEF Trail, None, Pending
  <2> QED
    BY <2>3, <2>4
<1>8. PathOfClaimant'
  <2>1. path' = walk
    BY <1>1, <1>3
  <2>2. IsPrefix(walk, Append(walk, s))
    BY <1>3, <1>4, PrefixOfAppend
  <2> QED
    BY <1>1, <2>1, <2>2 DEF PathOfClaimant
<1>9. MiddlewaresNested'
  BY <1>2, Kinds DEF MiddlewaresNested, Pending
<1> QED
  BY <1>6, <1>7, <1>8, <1>9

\* A top-level router is asked, with nothing left from another one.
LEMMA FreshKeeps ==
  ASSUME TypeOK, NEW r \in Routers, at' = r, walk' = <<r>>, chain' = <<>>, path' = <<>>,
         outcome' = Pending, queue' \in Seq(Routers), msg' \in [Routers -> Values \cup {Null}],
         UNCHANGED registry
  PROVE  TypeOK' /\ Trail' /\ PathOfClaimant' /\ MiddlewaresNested'
<1>1. <<r>> \in Seq(Routers) /\ <<>> \in Seq(Routers) /\ <<r>> = Append(<<>>, r)
  OBVIOUS
<1>2. TypeOK'
  BY <1>1, Kinds DEF TypeOK, registry
<1>3. Trail'
  BY <1>1, Kinds DEF Trail, None, Pending
<1>4. PathOfClaimant'
  BY <1>1, PrefixOfAppend DEF PathOfClaimant
<1>5. MiddlewaresNested'
  BY Kinds DEF MiddlewaresNested, Pending
<1> QED
  BY <1>2, <1>3, <1>4, <1>5

\* No handler runs.
LEMMA UnhandledKeeps ==
  ASSUME TypeOK, PathOfClaimant, NEW kind \in {"notfound", "recursion"},
         outcome' = [None EXCEPT !.kind = kind], path' = path \/ path' = <<>>,
         UNCHANGED <<registry, msg, at, queue, chain, walk>>
  PROVE  TypeOK' /\ Trail' /\ PathOfClaimant' /\ MiddlewaresNested'
<1>1. outcome'.kind = kind
  BY DEF None
<1>2. TypeOK'
  <2>1. path' \in Seq(Routers)
    <3>1. path \in Seq(Routers) /\ <<>> \in Seq(Routers)
      BY DEF TypeOK
    <3> QED
      BY <3>1
  <2>2. UNCHANGED <<models, lookup, keyed, nested, default, included>>
    BY DEF registry
  <2>3. outcome'.kind \in {"none", "pending", "model", "value", "default", "notfound", "recursion"}
    BY <1>1
  <2> QED
    BY <2>1, <2>2, <2>3 DEF TypeOK
<1>3. Trail'
  BY <1>1, Kinds DEF Trail, None, Pending
<1>4. PathOfClaimant'
  BY PrefixOfAppend DEF PathOfClaimant, TypeOK
<1>5. MiddlewaresNested'
  BY <1>1 DEF MiddlewaresNested
<1> QED
  BY <1>2, <1>3, <1>4, <1>5

LEMMA DispatchKeeps ==
  ASSUME IInv, Dispatch
  PROVE  TypeOK' /\ Trail' /\ PathOfClaimant' /\ MiddlewaresNested' /\ UNCHANGED registry
<1>1. outcome = Pending /\ UNCHANGED registry
  BY DEF Dispatch, DispatchModel, DispatchValue, DispatchDefault, DispatchNested, DispatchCycle,
         TryNext, NotFound, NoMatchHere, Handled
<1>2. CASE DispatchModel \/ DispatchValue \/ DispatchDefault
  <2>1. PICK kind \in {"model", "value", "default"}, added \in {<<>>, <<at>>} :
          Handled(kind, added)
    BY <1>2 DEF DispatchModel, DispatchValue, DispatchDefault
  <2> QED
    BY <1>1, <2>1, HandledKeeps DEF IInv
<1>3. CASE DispatchNested
  BY <1>1, <1>3, NestedKeeps DEF IInv
<1>4. CASE DispatchCycle
  BY <1>1, <1>4, UnhandledKeeps DEF DispatchCycle, IInv
<1>5. CASE TryNext
  <2>1. Head(queue) \in Routers /\ Tail(queue) \in Seq(Routers)
    BY <1>5 DEF TryNext, IInv, TypeOK
  <2> QED
    BY <1>1, <1>5, <2>1, FreshKeeps DEF TryNext, IInv, TypeOK
<1>6. CASE NotFound
  BY <1>1, <1>6, UnhandledKeeps DEF NotFound, IInv
<1> QED
  BY <1>1, <1>2, <1>3, <1>4, <1>5, <1>6 DEF Dispatch

\* The invariant holds of every reachable state.
THEOREM Inductive == Spec => []IInv
<1>1. Init => IInv
  <2> SUFFICES ASSUME Init PROVE IInv
    OBVIOUS
  <2>1. TypeOK
    BY RoutingAssumption, Kinds DEF Init, TypeOK
  <2>2. Registries
    BY DEF Init, Registries, OneStylePerValue, LookupSound
  <2>3. Trail
    BY Kinds DEF Init, Trail
  <2>4. PathOfClaimant
    BY DEF Init, PathOfClaimant, IsPrefix
  <2>5. MiddlewaresNested
    BY Kinds DEF Init, MiddlewaresNested
  <2> QED
    BY <2>1, <2>2, <2>3, <2>4, <2>5 DEF IInv
<1>2. IInv /\ [Next]_vars => IInv'
  <2> SUFFICES ASSUME IInv, [Next]_vars PROVE IInv'
    OBVIOUS
  <2>1. CASE Register
    BY <2>1, RegisterKeeps, SameDispatch DEF IInv
  <2>2. CASE Receive
    <3>1. path = <<>> /\ chain = <<>>
      BY <2>2 DEF Receive, IInv, Trail
    <3>2. TypeOK' /\ Trail' /\ PathOfClaimant' /\ MiddlewaresNested'
      BY <2>2, <3>1, FreshKeeps, RoutingAssumption DEF Receive, IInv, TypeOK
    <3> QED
      BY <2>2, <3>2, SameRegistries DEF Receive, registry, IInv
  <2>3. CASE Dispatch
    <3>1. TypeOK' /\ Trail' /\ PathOfClaimant' /\ MiddlewaresNested' /\ UNCHANGED registry
      BY <2>3, DispatchKeeps
    <3> QED
      BY <3>1, SameRegistries DEF registry, IInv
  <2>4. CASE UNCHANGED vars
    <3>1. TypeOK'
      BY <2>4 DEF vars, IInv, TypeOK
    <3> QED
      BY <2>4, <3>1, SameDispatch, SameRegistries DEF vars, IInv
  <2> QED
    BY <2>1, <2>2, <2>3, <2>4 DEF Next, Done
<1> QED
  BY <1>1, <1>2, PTL DEF Spec

-----------------------------------------------------------------------------
(* Theorems.                                                               *)

\* A router with a key-value handler for the message runs something else exactly
\* if the handler is shadowed.
LEMMA HandlerShadowed ==
  ASSUME TypeOK, Registries, DispatchModel \/ DispatchValue \/ DispatchDefault,
         Value \in keyed[at]
  PROVE  DispatchValue <=> ~Shadowed(at, Value)
<1>1. Value # Null /\ at \in Routers /\ Value \notin Primaries(at) /\ ~DispatchDefault
  BY RoutingAssumption DEF TypeOK, Registries, OneStylePerValue, DispatchDefault, Matched, Entries
<1>2. ASSUME DispatchModel PROVE Shadowed(at, Value)
  <2>1. PICK t \in ModelsFound : TRUE
    BY <1>2 DEF DispatchModel
  <2>2. /\ Value \notin NonString /\ t \in models[at]
        /\ [variant |-> Value, primary |-> Primary[t]] \in lookup[at]
    BY <1>1, <2>1 DEF ModelsFound
  <2>3. Primary[t] # Value
    BY <1>1, <2>2 DEF Primaries
  <2> QED
    BY <2>2, <2>3 DEF Shadowed
<1>3. ASSUME DispatchValue PROVE ~Shadowed(at, Value)
  <2>1. ModelsFound = {} /\ Subrouters = {}
    BY <1>3 DEF DispatchValue
  <2>2. \A e \in nested[at] : e.value # Value
    BY <2>1 DEF Subrouters
  <2>3. ASSUME Value \notin NonString, NEW e \in lookup[at], e.variant = Value PROVE FALSE
    <3>1. PICK t \in models[at] : e.primary = Primary[t]
      BY <1>1 DEF Registries, LookupSound, Primaries
    <3>2. e = [variant |-> Value, primary |-> Primary[t]]
      BY <1>1, <2>3, <3>1 DEF TypeOK
    <3> QED
      BY <1>1, <2>1, <2>3, <3>1, <3>2 DEF ModelsFound
  <2> QED
    BY <2>2, <2>3 DEF Shadowed
<1>4. DispatchModel => ~DispatchValue
  BY DEF DispatchModel, DispatchValue
<1> QED
  BY <1>1, <1>2, <1>3, <1>4

\* ShadowingConfined: in whatever order the routes are registered, only a class
\* under another of its names, or a subrouter, takes a key-value handler's
\* messages.
THEOREM ShadowingIsConfined == Spec => []ShadowingConfined
<1>1. Init => ShadowingConfined
  BY DEF Init, ShadowingConfined, None
<1>2. IInv /\ ShadowingConfined /\ [Next]_vars => ShadowingConfined'
  <2> SUFFICES ASSUME IInv, ShadowingConfined, [Next]_vars PROVE ShadowingConfined'
    OBVIOUS
  <2>1. CASE Register
    <3>1. outcome' = None
      BY <2>1 DEF Register, RouteModel, RouteValue, Subrouter, SetDefault, IncludeRouter,
         notDispatched, Registering
    <3> QED
      BY <3>1, Kinds DEF ShadowingConfined
  <2>2. CASE DispatchModel \/ DispatchValue \/ DispatchDefault
    <3>1. /\ UNCHANGED <<keyed, lookup, nested, msg>>
          /\ outcome'.router = at /\ outcome'.kind \in {"model", "value", "default"}
          /\ outcome'.kind = "value" <=> DispatchValue
      BY <2>2 DEF DispatchModel, DispatchValue, DispatchDefault, Handled, registry
    <3>2. Value \in keyed[at] => (DispatchValue <=> ~Shadowed(at, Value))
      BY <2>2, HandlerShadowed DEF IInv
    <3> QED
      BY <3>1, <3>2 DEF ShadowingConfined, Shadowed, Value
  <2>3. CASE Receive \/ DispatchNested \/ DispatchCycle \/ TryNext \/ NotFound
    <3>1. outcome'.kind \in {"pending", "notfound", "recursion"}
      BY <2>3, Kinds DEF Receive, DispatchNested, DispatchCycle, TryNext, NotFound,
         NoMatchHere, None
    <3> QED
      BY <3>1 DEF ShadowingConfined
  <2>4. CASE UNCHANGED vars
    BY <2>4 DEF vars, ShadowingConfined, Shadowed
  <2> QED
    BY <2>1, <2>2, <2>3, <2>4 DEF Next, Dispatch, Done
<1> QED
  BY <1>1, <1>2, Inductive, PTL DEF Spec

\* LookupSound: a variant leads to one registered class, after any sequence of
\* registrations, the rejected ones included.
THEOREM LookupNeverFails == Spec => []LookupSound
<1>1. IInv => LookupSound
  BY DEF IInv, Registries
<1> QED
  BY <1>1, Inductive, PTL

\* PathOfClaimant: ctx.route_path holds segments of the routers on the way to
\* the claimant only.
THEOREM PathIsOwn == Spec => []PathOfClaimant
<1>1. IInv => PathOfClaimant
  BY DEF IInv
<1> QED
  BY <1>1, Inductive, PTL

\* MiddlewaresNested: a handler runs in the middlewares of its own router and of
\* those around it up to the first that does not inherit, for any nesting.
THEOREM MiddlewaresAreOwn == Spec => []MiddlewaresNested
<1>1. IInv => MiddlewaresNested
  BY DEF IInv
<1> QED
  BY <1>1, Inductive, PTL
-----------------------------------------------------------------------------
(* The search for a route.                                                 *)

\* An entry of a router holds one subrouter.
OneSubrouter ==
  \A r \in Routers : \A e, f \in nested[r] : e.value = f.value => e = f

\* r has nothing for the message but a subrouter, s.
PassesOn(r, s) ==
  /\ ~HasRoute(r)
  /\ [value |-> msg[r], router |-> s] \in nested[r]

\* Asked as a top-level router, r does not handle the message.
Declined(r) == r \notin Claims /\ (msg[r] \notin Entries(r) => r \notin default)

\* While a message is dispatched, each router entered has passed it on to the
\* next, and each top-level router is still to be asked, is being asked, or
\* has declined.
Searching ==
  outcome = Pending =>
    /\ \A i \in 1..(Len(walk) - 1) : PassesOn(walk[i], walk[i + 1])
    /\ \A r \in Range(included) \cup {Main} :
         r \in Range(queue) \/ r = walk[1] \/ Declined(r)

Search == OneSubrouter /\ Searching /\ NotFoundOnlyWithoutRoute

\* No router of a set that declines claims the message.
LEMMA DecliningSet ==
  ASSUME NEW D \in SUBSET Routers, Declines(D), NEW r \in D
  PROVE  r \notin Claims
BY DEF Claims

\* What a router does with the message depends on the registries only.
LEMMA SameClaims ==
  ASSUME UNCHANGED <<registry, msg>>
  PROVE  /\ Claims' = Claims
         /\ \A r, s : PassesOn(r, s)' <=> PassesOn(r, s)
         /\ \A r : Declined(r)' <=> Declined(r)
         /\ OneSubrouter' <=> OneSubrouter
<1>1. UNCHANGED <<models, lookup, keyed, nested, default, included, msg>>
  BY DEF registry
<1>2. \A r : HasRoute(r)' <=> HasRoute(r)
  BY <1>1 DEF HasRoute, Primaries
<1>3. \A D : Declines(D)' <=> Declines(D)
  BY <1>1, <1>2 DEF Declines
<1>4. Claims' = Claims
  BY <1>3 DEF Claims
<1>5. \A r : Entries(r)' = Entries(r)
  BY <1>1 DEF Entries
<1>6. \A r, s : PassesOn(r, s)' <=> PassesOn(r, s)
  BY <1>1, <1>2 DEF PassesOn
<1>7. \A r : Declined(r)' <=> Declined(r)
  BY <1>1, <1>4, <1>5 DEF Declined
<1>8. OneSubrouter' <=> OneSubrouter
  BY <1>1 DEF OneSubrouter
<1> QED
  BY <1>4, <1>6, <1>7, <1>8

\* A router that dispatch finds no route in has none.
LEMMA NothingFound ==
  ASSUME TypeOK, LookupSound, ModelsFound = {}, Subrouters # {} \/ Value \notin keyed[at]
  PROVE  ~HasRoute(at)
<1>1. at \in Routers /\ Primaries(at) \subseteq Values /\ Null \notin Values
  BY RoutingAssumption DEF TypeOK, Primaries
<1>2. ASSUME Value \in Primaries(at), Value \notin NonString PROVE FALSE
  <2>1. PICK t \in models[at] : Primary[t] = Value
    BY <1>2 DEF Primaries
  <2>2. t \in ModelsFound
    BY <1>1, <1>2, <2>1 DEF ModelsFound
  <2> QED
    BY <2>2
<1>3. ASSUME NEW e \in lookup[at], e.variant = Value, Value \notin NonString PROVE FALSE
  <2>1. e \in [variant : Values, primary : Values]
    BY <1>1 DEF TypeOK
  <2>2. PICK t \in models[at] : Primary[t] = e.primary
    BY <1>1 DEF LookupSound, Primaries
  <2>3. e = [variant |-> Value, primary |-> Primary[t]]
    BY <1>3, <2>1, <2>2
  <2>4. t \in ModelsFound
    BY <1>1, <1>2, <1>3, <2>1, <2>3 DEF ModelsFound
  <2> QED
    BY <2>4
<1>4. ASSUME Value \in keyed[at], \A e \in nested[at] : e.value # Value PROVE FALSE
  BY <1>4 DEF Subrouters
<1> QED
  BY <1>2, <1>3, <1>4 DEF HasRoute, Value

\* When the router at the end of the walk finds no route, the walk is a set
\* that declines, and the top-level router at its start has declined.
LEMMA WalkDeclines ==
  ASSUME TypeOK, LookupSound, Trail, Search, NoMatchHere
  PROVE  walk # <<>> /\ Declined(walk[1])
<1>1. /\ outcome = Pending /\ ModelsFound = {} /\ Value \notin Entries(at) /\ at \notin default
      /\ path \in Seq(Routers) /\ walk \in Seq(Routers) /\ at \in Routers
      /\ walk = Append(path, at)
  BY DEF NoMatchHere, Matched, Trail, TypeOK
<1>2. Len(walk) \in Nat \ {0} /\ walk[Len(walk)] = at
  BY <1>1
<1>3. \A i \in 1..(Len(walk) - 1) : PassesOn(walk[i], walk[i + 1])
  BY <1>1 DEF Search, Searching
<1> DEFINE D == {walk[i] : i \in 1..Len(walk)}
<1>4. D \in SUBSET Routers
  BY <1>1
<1>5. ASSUME NEW r \in D
      PROVE  ~HasRoute(r) /\ \A e \in nested[r] : e.value = msg[r] => e.router \in D
  <2>1. PICK i \in 1..Len(walk) : r = walk[i]
    OBVIOUS
  <2>2. CASE i = Len(walk)
    <3>1. r = at /\ ~HasRoute(at)
      BY <1>1, <1>2, <2>1, <2>2, NothingFound DEF Entries
    <3> QED
      BY <1>1, <3>1 DEF Entries, Value
  <2>3. CASE i # Len(walk)
    <3>1. i \in 1..(Len(walk) - 1) /\ i + 1 \in 1..Len(walk)
      BY <1>2, <2>3
    <3>2. PassesOn(r, walk[i + 1]) /\ walk[i + 1] \in D
      BY <1>3, <2>1, <3>1
    <3>3. \A e \in nested[r] : e.value = msg[r] => e.router = walk[i + 1]
      BY <1>4, <3>2 DEF PassesOn, Search, OneSubrouter
    <3> QED
      BY <3>2, <3>3 DEF PassesOn
  <2> QED
    BY <2>2, <2>3
<1>6. walk[1] \in D
  BY <1>2
<1>7. walk[1] \notin Claims
  <2>1. Declines(D)
    BY <1>5 DEF Declines
  <2> QED
    BY <1>4, <1>6, <2>1, DecliningSet
<1>8. msg[walk[1]] \notin Entries(walk[1]) => walk[1] \notin default
  <2>1. CASE Len(walk) = 1
    BY <1>1, <1>2, <2>1 DEF Value
  <2>2. CASE Len(walk) # 1
    <3>1. Len(walk) \in Nat /\ Len(walk) > 1
      BY <1>2, <2>2
    <3>2. PassesOn(walk[1], walk[1 + 1])
      <4>1. 1 \in 1..(Len(walk) - 1)
        BY <3>1
      <4> QED
        BY <1>3, <4>1
    <3> QED
      BY <3>2 DEF PassesOn, Entries
  <2> QED
    BY <2>1, <2>2
<1> QED
  BY <1>2, <1>7, <1>8 DEF Declined

\* Registration keeps one subrouter per entry: a second one replaces the first.
LEMMA RegisterKeepsSearch ==
  ASSUME TypeOK, Search, Register
  PROVE  Search'
<1>1. PICK r \in Routers :
        \/ \E t \in Types : RouteModel(r, t)
        \/ \E v \in Values : RouteValue(r, v) \/ \E s \in Routers : Subrouter(r, v, s)
        \/ SetDefault(r) \/ IncludeRouter(r)
  BY DEF Register
<1>2. outcome' = None
  BY <1>1 DEF RouteModel, RouteValue, Subrouter, SetDefault, IncludeRouter, notDispatched, Registering
<1>3. Searching' /\ NotFoundOnlyWithoutRoute'
  BY <1>2, Kinds DEF Searching, NotFoundOnlyWithoutRoute, Pending, None
<1>4. OneSubrouter'
  <2>1. CASE nested' = nested
    BY <2>1 DEF Search, OneSubrouter
  <2>2. ASSUME NEW v \in Values, NEW s \in Routers, Subrouter(r, v, s)
        PROVE  OneSubrouter'
    <3>1. /\ nested'[r] = {e \in nested[r] : e.value # v} \cup {[value |-> v, router |-> s]}
          /\ \A q \in Routers \ {r} : nested'[q] = nested[q]
      BY <2>2 DEF Subrouter, TypeOK
    <3> QED
      BY <3>1 DEF Search, OneSubrouter
  <2> QED
    BY <1>1, <2>1, <2>2 DEF RouteModel, RouteValue, SetDefault, IncludeRouter
<1> QED
  BY <1>3, <1>4 DEF Search

\* The main router is asked first, the included ones are queued.
LEMMA ReceiveKeepsSearch ==
  ASSUME Search, Receive
  PROVE  Search'
<1>1. /\ outcome' = Pending /\ walk' = <<Main>> /\ queue' = included
      /\ UNCHANGED <<models, lookup, keyed, nested, default, included>>
  BY DEF Receive, registry
<1>2. Len(walk') = 1 /\ walk'[1] = Main
  BY <1>1
<1>3. Searching'
  BY <1>1, <1>2 DEF Searching
<1>4. OneSubrouter'
  BY <1>1 DEF Search, OneSubrouter
<1>5. NotFoundOnlyWithoutRoute'
  BY <1>1, Kinds DEF NotFoundOnlyWithoutRoute, Pending
<1> QED
  BY <1>3, <1>4, <1>5 DEF Search

\* The router entered passes the message on.
LEMMA NestedKeepsSearch ==
  ASSUME IInv, Search, DispatchNested
  PROVE  Search'
<1>1. PICK s \in Subrouters : at' = s /\ walk' = Append(walk, s)
  BY DEF DispatchNested
<1>2. /\ outcome = Pending /\ outcome' = Pending /\ ModelsFound = {}
      /\ UNCHANGED <<registry, msg, queue>>
  BY DEF DispatchNested, Pending
<1>3. /\ path \in Seq(Routers) /\ walk \in Seq(Routers) /\ at \in Routers
      /\ walk = Append(path, at)
  BY <1>2 DEF IInv, TypeOK, Trail
<1>4. walk[Len(walk)] = at /\ Len(walk) \in Nat \ {0}
  BY <1>3
<1>5. [value |-> Value, router |-> s] \in nested[at]
  <2>1. PICK e \in nested[at] : e.value = Value /\ s = e.router
    BY <1>1 DEF Subrouters
  <2>2. e \in [value : Values, router : Routers]
    BY <1>3 DEF IInv, TypeOK
  <2> QED
    BY <2>1, <2>2
<1>6. PassesOn(at, s)
  <2>1. ~HasRoute(at)
    BY <1>1, <1>2, NothingFound DEF IInv, Registries
  <2> QED
    BY <1>5, <2>1 DEF PassesOn, Value
<1>7. s \in Routers
  BY <1>3, <1>5 DEF IInv, TypeOK
<1>8. /\ Len(walk') = Len(walk) + 1 /\ walk'[1] = walk[1] /\ walk'[Len(walk) + 1] = s
      /\ \A i \in 1..Len(walk) : walk'[i] = walk[i]
  BY <1>1, <1>3, <1>4, <1>7
<1>9. ASSUME NEW i \in 1..(Len(walk') - 1) PROVE PassesOn(walk'[i], walk'[i + 1])
  <2>1. CASE i = Len(walk)
    BY <1>4, <1>6, <1>8, <2>1
  <2>2. CASE i # Len(walk)
    <3>1. i \in 1..(Len(walk) - 1) /\ i + 1 \in 1..Len(walk)
      BY <1>4, <1>8, <2>2
    <3>2. PassesOn(walk[i], walk[i + 1])
      BY <1>2, <3>1 DEF Search, Searching
    <3> QED
      BY <1>8, <3>1, <3>2
  <2> QED
    BY <2>1, <2>2
<1>10. Searching'
  <2>1. included' = included
    BY <1>2 DEF registry
  <2>2. \A r \in Range(included) \cup {Main} : r \in Range(queue) \/ r = walk[1] \/ Declined(r)
    BY <1>2 DEF Search, Searching
  <2>3. (\A i \in 1..(Len(walk) - 1) : PassesOn(walk[i], walk[i + 1]))'
    BY <1>2, <1>9, SameClaims
  <2>4. (\A r \in Range(included) \cup {Main} : r \in Range(queue) \/ r = walk[1] \/ Declined(r))'
    BY <1>2, <1>8, <2>1, <2>2, SameClaims
  <2> QED
    BY <2>3, <2>4 DEF Searching
<1>11. NotFoundOnlyWithoutRoute'
  BY <1>2, Kinds DEF NotFoundOnlyWithoutRoute
<1> QED
  BY <1>2, <1>10, <1>11, SameClaims DEF Search

\* A top-level router has declined; the next one is asked.
LEMMA TryNextKeepsSearch ==
  ASSUME IInv, Search, TryNext
  PROVE  Search'
<1>1. /\ NoMatchHere /\ queue # <<>> /\ queue' = Tail(queue) /\ walk' = <<Head(queue)>>
      /\ outcome = Pending /\ outcome' = Pending
      /\ UNCHANGED <<registry, msg>>
  BY DEF TryNext, NoMatchHere, Pending
<1>2. Declined(walk[1])
  BY <1>1, WalkDeclines DEF IInv, Registries
<1>3. Len(walk') = 1 /\ walk'[1] = Head(queue)
  BY <1>1
<1>4. \A r \in Range(queue) : r = Head(queue) \/ r \in Range(Tail(queue))
  <2>1. queue \in Seq(Routers)
    BY DEF IInv, TypeOK
  <2> SUFFICES ASSUME NEW i \in 1..Len(queue)
               PROVE  queue[i] = Head(queue) \/ queue[i] \in Range(Tail(queue))
    BY <2>1 DEF Range
  <2>2. CASE i # 1
    <3>1. i - 1 \in DOMAIN Tail(queue) /\ Tail(queue)[i - 1] = queue[i]
      BY <1>1, <2>1, <2>2
    <3> QED
      BY <3>1 DEF Range
  <2> QED
    BY <1>1, <2>1, <2>2
<1>5. \A r \in Range(included) \cup {Main} : r \in Range(queue) \/ r = walk[1] \/ Declined(r)
  BY <1>1 DEF Search, Searching
<1>6. \A r \in Range(included') \cup {Main} : r \in Range(queue') \/ r = walk'[1] \/ Declined(r)'
  <2>1. included' = included
    BY <1>1 DEF registry
  <2> QED
    BY <1>1, <1>2, <1>3, <1>4, <1>5, <2>1, SameClaims
<1>7. Searching'
  BY <1>3, <1>6 DEF Searching
<1>8. NotFoundOnlyWithoutRoute'
  BY <1>1, Kinds DEF NotFoundOnlyWithoutRoute
<1> QED
  BY <1>1, <1>7, <1>8, SameClaims DEF Search

\* The last router asked has declined.
LEMMA NotFoundKeepsSearch ==
  ASSUME IInv, Search, NotFound
  PROVE  Search'
<1>1. /\ NoMatchHere /\ queue = <<>> /\ outcome = Pending /\ outcome'.kind = "notfound"
      /\ UNCHANGED <<registry, msg>>
  BY DEF NotFound, NoMatchHere, None
<1>2. Declined(walk[1])
  BY <1>1, WalkDeclines DEF IInv, Registries
<1>3. \A r \in Range(included) \cup {Main} : Declined(r)
  <2>1. Range(queue) = {}
    BY <1>1 DEF Range
  <2> QED
    BY <1>1, <1>2, <2>1 DEF Search, Searching
<1>4. \A r \in Range(included') \cup {Main} : Declined(r)'
  BY <1>1, <1>3, SameClaims DEF registry
<1>5. NotFoundOnlyWithoutRoute'
  BY <1>4 DEF NotFoundOnlyWithoutRoute, Declined
<1>6. Searching'
  BY <1>1, Kinds DEF Searching, None, Pending
<1> QED
  BY <1>1, <1>5, <1>6, SameClaims DEF Search

\* A handler runs, or the recursion ends: nothing is claimed of the routes.
LEMMA EndKeepsSearch ==
  ASSUME Search, UNCHANGED <<registry, msg>>,
         outcome'.kind \in {"model", "value", "default", "recursion"}
  PROVE  Search'
<1>1. Searching' /\ NotFoundOnlyWithoutRoute'
  BY Kinds DEF Searching, NotFoundOnlyWithoutRoute, Pending, None
<1> QED
  BY <1>1, SameClaims DEF Search

LEMMA SearchGoesOn == Spec => []Search
<1>1. Init => Search
  BY Kinds DEF Init, Search, OneSubrouter, Searching, NotFoundOnlyWithoutRoute
<1>2. IInv /\ Search /\ [Next]_vars => Search'
  <2> SUFFICES ASSUME IInv, Search, [Next]_vars PROVE Search'
    OBVIOUS
  <2>1. CASE Register
    BY <2>1, RegisterKeepsSearch DEF IInv
  <2>2. CASE Receive
    BY <2>2, ReceiveKeepsSearch
  <2>3. CASE DispatchModel \/ DispatchValue \/ DispatchDefault
    <3>1. PICK kind \in {"model", "value", "default"}, added \in {<<>>, <<at>>} :
            Handled(kind, added)
      BY <2>3 DEF DispatchModel, DispatchValue, DispatchDefault
    <3>2. outcome'.kind = kind /\ UNCHANGED <<registry, msg>>
      BY <3>1 DEF Handled
    <3> QED
      BY <3>2, EndKeepsSearch
  <2>4. CASE DispatchNested
    BY <2>4, NestedKeepsSearch
  <2>5. CASE DispatchCycle
    <3>1. outcome'.kind = "recursion" /\ UNCHANGED <<registry, msg>>
      BY <2>5 DEF DispatchCycle, None
    <3> QED
      BY <3>1, EndKeepsSearch
  <2>6. CASE TryNext
    BY <2>6, TryNextKeepsSearch
  <2>7. CASE NotFound
    BY <2>7, NotFoundKeepsSearch
  <2>8. CASE UNCHANGED vars
    <3>1. UNCHANGED <<registry, msg, walk, queue, included, outcome>>
      BY <2>8 DEF vars, registry
    <3>2. Searching'
      BY <3>1, Kinds, SameClaims DEF Searching, Search, Pending, None
    <3>3. NotFoundOnlyWithoutRoute'
      BY <2>8, <3>1, SameClaims DEF NotFoundOnlyWithoutRoute, Search, Entries, vars
    <3> QED
      BY <3>1, <3>2, <3>3, SameClaims DEF Search
  <2> QED
    BY <2>1, <2>2, <2>3, <2>4, <2>5, <2>6, <2>7, <2>8 DEF Next, Dispatch, Done
<1> QED
  BY <1>1, <1>2, Inductive, PTL DEF Spec

\* A message is reported as without a handler after every top-level router,
\* and everything below it, has declined it, in any graph of routers.
THEOREM NoRouteMissed == Spec => []NotFoundOnlyWithoutRoute
<1>1. Search => NotFoundOnlyWithoutRoute
  BY DEF Search
<1> QED
  BY <1>1, SearchGoesOn, PTL

-----------------------------------------------------------------------------
(* The order in which the top-level routers are asked.                     *)

Asked == <<Main>> \o included

\* The place in that order of the router being asked.
Asking == (Len(included) + 1) - Len(queue)

\* The routers are asked one after the other, each after those before it have
\* declined.
InTurn ==
  /\ Asking \in 1..(Len(included) + 1)
  /\ walk[1] = Asked[Asking]
  /\ \A i \in 1..Len(queue) : queue[i] = Asked[Asking + i]
  /\ \A j \in 1..(Asking - 1) : Declined(Asked[j])

\* A handler with a route of its own is below the first router that claims.
FirstClaimant ==
  outcome # None =>
    /\ InTurn
    /\ outcome.kind \in {"model", "value"} => walk[1] \in Claims

LEMMA AskedItems ==
  ASSUME TypeOK
  PROVE  /\ Asked \in Seq(Routers) /\ Len(Asked) = Len(included) + 1
         /\ Asked[1] = Main
         /\ \A i \in 1..Len(included) : Asked[i + 1] = included[i]
<1>1. Main \in Routers /\ included \in Seq(Routers)
  BY RoutingAssumption DEF TypeOK
<1> QED
  BY <1>1 DEF Asked

\* A router that runs a handler has a route for the message.
LEMMA HandlerFound ==
  ASSUME TypeOK, DispatchModel \/ DispatchValue
  PROVE  HasRoute(at)
<1>1. CASE DispatchModel
  <2>1. PICK t \in ModelsFound : TRUE
    BY <1>1 DEF DispatchModel
  <2>2. t \in models[at] /\ Value \notin NonString
    BY <2>1 DEF ModelsFound
  <2>3. CASE Value \in Primaries(at)
    BY <2>2, <2>3 DEF HasRoute, Value
  <2>4. CASE Value \notin Primaries(at)
    <3>1. [variant |-> Value, primary |-> Primary[t]] \in lookup[at]
      BY <2>1, <2>4 DEF ModelsFound
    <3> QED
      BY <2>2, <3>1 DEF HasRoute, Value
  <2> QED
    BY <2>3, <2>4
<1>2. CASE DispatchValue
  BY <1>2 DEF DispatchValue, Subrouters, HasRoute, Value
<1> QED
  BY <1>1, <1>2

\* So has every router on the way down to it: the first one on the way that a
\* declining set leaves out would have been passed the message by one inside.
LEMMA WalkClaims ==
  ASSUME TypeOK, Trail, Searching, outcome = Pending, HasRoute(at)
  PROVE  walk[1] \in Claims
<1>1. /\ path \in Seq(Routers) /\ walk \in Seq(Routers) /\ at \in Routers
      /\ walk = Append(path, at)
      /\ \A i \in 1..(Len(walk) - 1) : PassesOn(walk[i], walk[i + 1])
  BY DEF TypeOK, Trail, Searching
<1>2. Len(walk) \in Nat \ {0} /\ walk[Len(walk)] = at
  BY <1>1
<1>3. ASSUME NEW D \in SUBSET Routers, Declines(D), walk[1] \in D PROVE FALSE
  <2> DEFINE S == {i \in 1..Len(walk) : walk[i] \notin D}
  <2> DEFINE R == OpToRel(<, Nat)
  <2>1. S \in SUBSET Nat /\ S # {}
    <3>1. at \notin D
      BY <1>3 DEF Declines
    <3> QED
      BY <1>2, <3>1
  <2>2. \A x, y \in Nat : <<y, x>> \in R <=> y < x
    BY DEF OpToRel
  <2>3. PICK i \in S : \A j \in S : <<j, i>> \notin R
    <3> HIDE DEF R, S
    <3>1. IsWellFoundedOn(R, Nat)
      BY NatLessThanWellFounded DEF R
    <3> QED
      BY <2>1, <3>1, WFMin
  <2>4. i \in 1..Len(walk) /\ i # 1 /\ walk[i] \notin D
    BY <1>3, <2>3
  <2>5. i - 1 \in 1..(Len(walk) - 1) /\ i - 1 \in Nat /\ i - 1 < i /\ (i - 1) + 1 = i
    BY <1>2, <2>4
  <2>6. walk[i - 1] \in D
    <3>1. <<i - 1, i>> \in R
      <4> HIDE DEF R
      <4>1. i \in Nat
        BY <1>2, <2>4
      <4> QED
        BY <2>2, <2>5, <4>1
    <3>2. i - 1 \notin S
      BY <2>3, <3>1
    <3>3. i - 1 \in 1..Len(walk)
      BY <1>2, <2>5
    <3> QED
      BY <3>2, <3>3
  <2>7. PassesOn(walk[i - 1], walk[i])
    BY <1>1, <2>5
  <2> HIDE DEF S, R
  <2> QED
    BY <1>3, <2>4, <2>6, <2>7 DEF PassesOn, Declines
<1>4. walk[1] \in Routers
  BY <1>1, <1>2
<1> QED
  BY <1>3, <1>4 DEF Claims

\* Who is asked does not change while one of them dispatches.
LEMMA SameTurn ==
  ASSUME InTurn, UNCHANGED <<registry, msg, queue>>, walk'[1] = walk[1]
  PROVE  InTurn'
<1>1. included' = included /\ Asked' = Asked /\ Asking' = Asking
  BY DEF registry, Asked, Asking
<1> QED
  BY <1>1, SameClaims DEF InTurn

LEMMA ReceiveInTurn ==
  ASSUME TypeOK, Receive
  PROVE  InTurn'
<1>1. /\ walk' = <<Main>> /\ queue' = included /\ included' = included
      /\ Len(included) \in Nat
  BY DEF Receive, registry, TypeOK
<1>2. Asked' = Asked /\ Asking' = 1 /\ walk'[1] = Main
  BY <1>1 DEF Asked, Asking
<1> QED
  BY <1>1, <1>2, AskedItems DEF InTurn

LEMMA TryNextInTurn ==
  ASSUME IInv, Search, InTurn, TryNext
  PROVE  InTurn'
<1>1. /\ NoMatchHere /\ queue # <<>> /\ queue' = Tail(queue) /\ walk'[1] = Head(queue)
      /\ UNCHANGED <<registry, msg>> /\ included' = included
      /\ queue \in Seq(Routers) /\ Len(included) \in Nat
  BY DEF TryNext, registry, IInv, TypeOK
<1>2. Declined(walk[1])
  BY <1>1, WalkDeclines DEF IInv, Registries
<1>3. /\ Len(queue) \in Nat \ {0} /\ Len(queue') = Len(queue) - 1 /\ walk'[1] = queue[1]
      /\ \A i \in 1..Len(queue') : queue'[i] = queue[i + 1]
  BY <1>1
<1>4. Asked' = Asked /\ Asking' = Asking + 1 /\ Asking \in Int
  BY <1>1, <1>3 DEF Asked, Asking
<1>5. /\ Asking \in 1..(Len(included) + 1)
      /\ walk[1] = Asked[Asking]
      /\ \A i \in 1..Len(queue) : queue[i] = Asked[Asking + i]
      /\ \A j \in 1..(Asking - 1) : Declined(Asked[j])
  BY DEF InTurn
<1>6. Asking' \in 1..(Len(included') + 1)
  BY <1>1, <1>3, <1>4, <1>5 DEF Asking
<1>7. walk'[1] = Asked'[Asking']
  <2>1. queue[1] = Asked[Asking + 1]
    BY <1>3, <1>5
  <2> QED
    BY <1>3, <1>4, <2>1
<1>8. \A i \in 1..Len(queue') : queue'[i] = Asked'[Asking' + i]
  <2> SUFFICES ASSUME NEW i \in 1..Len(queue') PROVE queue'[i] = Asked'[Asking' + i]
    OBVIOUS
  <2>1. i + 1 \in 1..Len(queue) /\ Asking + (i + 1) = (Asking + 1) + i
    BY <1>3, <1>4
  <2>2. queue[i + 1] = Asked[Asking + (i + 1)]
    BY <1>5, <2>1
  <2> QED
    BY <1>3, <1>4, <2>1, <2>2
<1>9. \A j \in 1..(Asking' - 1) : Declined(Asked[j])
  BY <1>2, <1>4, <1>5
<1> QED
  BY <1>1, <1>4, <1>6, <1>7, <1>8, <1>9, SameClaims DEF InTurn

\* A message is handled by the first top-level router that claims it: the main
\* router, then the included ones in the order of include_router.  Those asked
\* before it had neither a route of their own, nor below them, nor a default.
THEOREM FirstClaimantHandles == Spec => []FirstClaimant
<1>1. Init => FirstClaimant
  BY DEF Init, FirstClaimant
<1>2. IInv /\ Search /\ FirstClaimant /\ [Next]_vars => FirstClaimant'
  <2> SUFFICES ASSUME IInv, Search, FirstClaimant, [Next]_vars PROVE FirstClaimant'
    OBVIOUS
  <2>1. CASE Register
    <3>1. outcome' = None
      BY <2>1 DEF Register, RouteModel, RouteValue, Subrouter, SetDefault, IncludeRouter,
         notDispatched, Registering
    <3> QED
      BY <3>1 DEF FirstClaimant, None
  <2>2. CASE Receive
    <3>1. outcome'.kind = "pending"
      BY <2>2, Kinds DEF Receive
    <3> QED
      BY <2>2, <3>1, ReceiveInTurn DEF IInv, FirstClaimant
  <2>3. ASSUME outcome = Pending, UNCHANGED <<registry, msg, queue>>, walk'[1] = walk[1],
               outcome'.kind \in {"model", "value"} => walk[1] \in Claims
        PROVE  FirstClaimant'
    BY <2>3, Kinds, SameTurn, SameClaims DEF FirstClaimant
  <2>4. CASE DispatchModel \/ DispatchValue
    <3>1. outcome = Pending /\ walk[1] \in Claims
      <4>1. outcome = Pending /\ HasRoute(at)
        BY <2>4, HandlerFound DEF IInv, DispatchModel, DispatchValue
      <4> QED
        BY <4>1, WalkClaims DEF IInv, Search
    <3>2. UNCHANGED <<registry, msg, queue, walk>>
      BY <2>4 DEF DispatchModel, DispatchValue, Handled
    <3> QED
      BY <2>3, <3>1, <3>2
  <2>5. CASE DispatchDefault \/ DispatchCycle \/ NotFound
    <3>1. outcome = Pending /\ UNCHANGED <<registry, msg, queue, walk>>
      BY <2>5 DEF DispatchDefault, DispatchCycle, NotFound, NoMatchHere, Handled
    <3>2. outcome'.kind \in {"default", "recursion", "notfound"}
      BY <2>5 DEF DispatchDefault, DispatchCycle, NotFound, Handled, None
    <3> QED
      BY <2>3, <3>1, <3>2
  <2>6. CASE DispatchNested
    <3>1. PICK s \in Subrouters : walk' = Append(walk, s)
      BY <2>6 DEF DispatchNested
    <3>2. outcome = Pending /\ outcome' = Pending /\ UNCHANGED <<registry, msg, queue>>
      BY <2>6 DEF DispatchNested, Pending
    <3>3. walk'[1] = walk[1]
      <4>1. path \in Seq(Routers) /\ walk = Append(path, at) /\ at \in Routers
        BY <3>2 DEF IInv, TypeOK, Trail
      <4>2. s \in Routers
        BY <4>1, <3>1 DEF Subrouters, IInv, TypeOK
      <4> QED
        BY <3>1, <4>1, <4>2
    <3> QED
      BY <2>3, <3>2, <3>3, Kinds
  <2>7. CASE TryNext
    <3>1. outcome = Pending /\ outcome' = Pending
      BY <2>7 DEF TryNext, NoMatchHere, Pending
    <3>2. InTurn
      BY <3>1, Kinds DEF FirstClaimant
    <3> QED
      BY <2>7, <3>1, <3>2, Kinds, TryNextInTurn DEF FirstClaimant
  <2>8. CASE UNCHANGED vars
    <3>1. UNCHANGED <<registry, msg, queue, walk, outcome>> /\ None' = None
      BY <2>8 DEF vars, registry, None
    <3> QED
      BY <3>1, SameTurn, SameClaims DEF FirstClaimant
  <2> QED
    BY <2>1, <2>2, <2>4, <2>5, <2>6, <2>7, <2>8 DEF Next, Dispatch, Done
<1> QED
  BY <1>1, <1>2, Inductive, SearchGoesOn, PTL DEF Spec
=============================================================================
