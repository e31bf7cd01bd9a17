------------------------------ MODULE Routing -------------------------------
(***************************************************************************)
(* Registration of routes on SQSRouter (fastsqs/routing/router.py) and the *)
(* dispatch of one message: FastSQS asks its main router, then each        *)
(* included router, until one claims the message.                          *)
(*                                                                         *)
(* A message is the value each router's discriminator resolves to.  A      *)
(* middleware list is abstracted to its owner: a router's name stands for  *)
(* the middlewares added to that router.                                   *)
(***************************************************************************)
EXTENDS Sequences, FiniteSets, SequencesExt

CONSTANTS
  Routers,     \* SQSRouter instances; Main is FastSQS._main_router
  Main,
  Values,      \* discriminator values
  Null,        \* the discriminator is missing or null
  NonString,   \* the values that arrive as numbers, or falsy
  Types,       \* SQSEvent classes
  Primary,     \* Types -> Values, get_message_type()
  Variants,    \* Types -> SUBSET Values, get_message_type_variants()
  Flexible,    \* the routers with flexible_matching
  Inherit,     \* the routers with inherit_middlewares
  MayDefault,  \* the routers that may get a default handler
  MaxRoutes    \* bound: registrations before the message

ASSUME RoutingAssumption ==
  /\ Main \in Routers
  /\ Null \notin Values
  /\ NonString \subseteq Values
  /\ Primary \in [Types -> Values]
  /\ Variants \in [Types -> SUBSET Values]
  /\ Flexible \subseteq Routers /\ Inherit \subseteq Routers /\ MayDefault \subseteq Routers

VARIABLES
  models,    \* per router: _pydantic_routes, as the set of its event classes
  lookup,    \* per router: _route_lookup, as pairs [variant, primary]
  keyed,     \* per router: the values whose _RouteEntry has a handler
  nested,    \* per router: the subrouters of its entries, as pairs [value, router]
  default,   \* the routers with a default handler
  included,  \* FastSQS._routers
  msg,       \* the message: per router the value its discriminator finds
  at,        \* the router whose dispatch is running
  queue,     \* the top-level routers still to try
  chain,     \* parent_middlewares
  path,      \* ctx.route_path, as the routers that pushed a segment
  walk,      \* history: the routers entered since the top-level one
  outcome    \* which handler ran, or why none did

registry == <<models, lookup, keyed, nested, default, included>>
vars == <<models, lookup, keyed, nested, default, included, msg, at, queue, chain, path, walk, outcome>>

None == [kind |-> "none", router |-> Main, middlewares |-> <<>>]
Pending == [None EXCEPT !.kind = "pending"]

Primaries(r) == {Primary[t] : t \in models[r]}
Entries(r) == keyed[r] \cup {e.value : e \in nested[r]}

Registrations ==
  Cardinality(UNION {{<<r, e>> : e \in keyed[r]} : r \in Routers})
  + Cardinality(UNION {{<<r, t>> : t \in models[r]} : r \in Routers})
  + Cardinality(UNION {{<<r, e>> : e \in nested[r]} : r \in Routers})
  + Cardinality(default) + Len(included)

Init ==
  /\ models = [r \in Routers |-> {}]
  /\ lookup = [r \in Routers |-> {}]
  /\ keyed = [r \in Routers |-> {}]
  /\ nested = [r \in Routers |-> {}]
  /\ default = {}
  /\ included = <<>>
  /\ msg = [r \in Routers |-> Null]
  /\ at = Main
  /\ queue = <<>>
  /\ chain = <<>> /\ path = <<>> /\ walk = <<>>
  /\ outcome = None

-----------------------------------------------------------------------------
(* Registration, while the application's modules are imported.             *)

Registering == outcome = None /\ Registrations < MaxRoutes
notDispatched == <<msg, at, queue, chain, path, walk, outcome>>

\* Mutant: a variant another class has taken is entered again.
NewVariantsAll(r, t) == {[variant |-> v, primary |-> Primary[t]] : v \in Variants[t]}

\* The variants that no other class has taken.
NewVariants(r, t) ==
  {[variant |-> v, primary |-> Primary[t]] :
     v \in {w \in Variants[t] : \A e \in lookup[r] : e.variant # w}}

Collides(r, t) == \E e \in lookup[r] : e.variant \in Variants[t] /\ e.primary # Primary[t]

\* Mutant: the other registry is not asked.
RouteModelShadowing(r, t) ==
  /\ Registering
  /\ Primary[t] \notin Primaries(r)
  /\ models' = [models EXCEPT ![r] = @ \cup {t}]
  /\ UNCHANGED <<lookup, keyed, nested, default, included, notDispatched>>

\* route(EventClass).  A variant taken by another class raises ValueError in
\* the middle of the loop: the route itself stays registered, with the
\* variants entered so far.
RouteModel(r, t) ==
  /\ Registering
  /\ Primary[t] \notin Primaries(r) \cup Entries(r)
  /\ models' = [models EXCEPT ![r] = @ \cup {t}]
  /\ IF r \notin Flexible
     THEN UNCHANGED lookup
     ELSE \E new \in SUBSET NewVariants(r, t) :
            /\ Collides(r, t) \/ new = NewVariants(r, t)
            /\ lookup' = [lookup EXCEPT ![r] = @ \cup new]
  /\ UNCHANGED <<keyed, nested, default, included, notDispatched>>

\* route("value"); a list of values registers them one by one.
RouteValue(r, v) ==
  /\ Registering
  /\ v \notin Primaries(r) /\ v \notin keyed[r]
  /\ keyed' = [keyed EXCEPT ![r] = @ \cup {v}]
  /\ UNCHANGED <<models, lookup, nested, default, included, notDispatched>>

\* subrouter("value", s) replaces the entry's subrouter, without any check.
Subrouter(r, v, s) ==
  /\ Registering
  /\ nested' = [nested EXCEPT ![r] =
                  {e \in @ : e.value # v} \cup {[value |-> v, router |-> s]}]
  /\ UNCHANGED <<models, lookup, keyed, default, included, notDispatched>>

\* default(), and route(None).
SetDefault(r) ==
  /\ Registering
  /\ r \in MayDefault
  /\ default' = default \cup {r}
  /\ UNCHANGED <<models, lookup, keyed, nested, included, notDispatched>>

IncludeRouter(r) ==
  /\ Registering
  /\ included' = Append(included, r)
  /\ UNCHANGED <<models, lookup, keyed, nested, default, notDispatched>>

-----------------------------------------------------------------------------
(* _route: the main router, then the included ones.                        *)

Receive ==
  /\ outcome = None
  /\ msg' \in [Routers -> Values \cup {Null}]
  /\ at' = Main
  /\ queue' = included
  /\ walk' = <<Main>>
  /\ outcome' = Pending
  /\ UNCHANGED <<registry, chain, path>>

Value == msg[at]

\* _find_pydantic_route: a class by its primary type, else by a variant.
ModelsFound ==
  IF Value \in {Null} \cup NonString THEN {}
  ELSE IF Value \in Primaries(at) THEN {t \in models[at] : Primary[t] = Value}
  ELSE {t \in models[at] : [variant |-> Value, primary |-> Primary[t]] \in lookup[at]}

Subrouters == {e.router : e \in {f \in nested[at] : f.value = Value}}

Matched == ModelsFound # {} \/ Value \in Entries(at)

\* _execute_handler under parent_middlewares + self._middlewares.
Handled(kind, added) ==
  /\ outcome' = [kind |-> kind, router |-> at, middlewares |-> Append(chain, at)]
  /\ path' = path \o added
  /\ UNCHANGED <<registry, msg, at, queue, chain, walk>>

\* A pydantic route comes first and pushes no route_path segment.
DispatchModel ==
  /\ outcome = Pending
  /\ ModelsFound # {}
  /\ Handled("model", <<>>)

\* An entry's own handler, when it has no subrouter.
DispatchValue ==
  /\ outcome = Pending
  /\ ModelsFound = {} /\ Subrouters = {}
  /\ Value \in keyed[at]
  /\ Handled("value", <<at>>)

DispatchDefault ==
  /\ outcome = Pending
  /\ ~Matched /\ at \in default
  /\ Handled("default", IF Value = Null THEN <<>> ELSE <<at>>)

\* Mutant: a router that does not inherit still hands its parents' chain down.
NestedPassesParents ==
  /\ outcome = Pending
  /\ ModelsFound = {}
  /\ \E s \in Subrouters :
       /\ ~Contains(walk, s)
       /\ at' = s
       /\ chain' = IF at \in Inherit THEN Append(chain, at) ELSE chain
       /\ path' = Append(path, at)
       /\ walk' = Append(walk, s)
  /\ UNCHANGED <<registry, msg, queue, outcome>>

\* A subrouter takes over.  inherit_middlewares of the parent decides what it
\* inherits.
DispatchNested ==
  /\ outcome = Pending
  /\ ModelsFound = {}
  /\ \E s \in Subrouters :
       /\ ~Contains(walk, s)
       /\ at' = s
       /\ chain' = IF at \in Inherit THEN Append(chain, at) ELSE <<>>
       /\ path' = Append(path, at)
       /\ walk' = Append(walk, s)
  /\ UNCHANGED <<registry, msg, queue, outcome>>

\* A subrouter that leads back to a router already entered sees the same
\* message there: the recursion ends in a RecursionError, an Exception.
DispatchCycle ==
  /\ outcome = Pending
  /\ ModelsFound = {}
  /\ \E s \in Subrouters : Contains(walk, s)
  /\ outcome' = [None EXCEPT !.kind = "recursion"]
  /\ UNCHANGED <<registry, msg, at, queue, chain, path, walk>>

NoMatchHere == outcome = Pending /\ ~Matched /\ at \notin default

\* Mutant: the segments pushed on the way down are kept.
TryNextKeepsPath ==
  /\ NoMatchHere
  /\ queue # <<>>
  /\ at' = Head(queue) /\ queue' = Tail(queue)
  /\ chain' = <<>> /\ walk' = <<Head(queue)>>
  /\ UNCHANGED <<registry, msg, path, outcome>>

\* dispatch returns False through every parent, each popping its segment, and
\* the next included router is asked.
TryNext ==
  /\ NoMatchHere
  /\ queue # <<>>
  /\ at' = Head(queue) /\ queue' = Tail(queue)
  /\ chain' = <<>> /\ path' = <<>> /\ walk' = <<Head(queue)>>
  /\ UNCHANGED <<registry, msg, outcome>>

\* Mutant: the last included router is not asked.
NotFoundEarly ==
  /\ NoMatchHere
  /\ Len(queue) <= 1
  /\ outcome' = [None EXCEPT !.kind = "notfound"]
  /\ path' = <<>>
  /\ UNCHANGED <<registry, msg, at, queue, chain, walk>>

NotFound ==
  /\ NoMatchHere
  /\ queue = <<>>
  /\ outcome' = [None EXCEPT !.kind = "notfound"]
  /\ path' = <<>>
  /\ UNCHANGED <<registry, msg, at, queue, chain, walk>>

Done == outcome \notin {None, Pending} /\ UNCHANGED vars

Register ==
  \E r \in Routers :
    \/ \E t \in Types : RouteModel(r, t)
    \/ \E v \in Values : RouteValue(r, v) \/ \E s \in Routers : Subrouter(r, v, s)
    \/ SetDefault(r) \/ IncludeRouter(r)

Dispatch ==
  \/ DispatchModel \/ DispatchValue \/ DispatchDefault
  \/ DispatchNested \/ DispatchCycle \/ TryNext \/ NotFound

Next == Register \/ Receive \/ Dispatch \/ Done

Spec == Init /\ [][Next]_vars

-----------------------------------------------------------------------------
(* Properties.                                                             *)

\* The state has its shape.
TypeOK ==
  /\ models \in [Routers -> SUBSET Types]
  /\ lookup \in [Routers -> SUBSET [variant : Values, primary : Values]]
  /\ keyed \in [Routers -> SUBSET Values]
  /\ nested \in [Routers -> SUBSET [value : Values, router : Routers]]
  /\ default \subseteq Routers
  /\ included \in Seq(Routers)
  /\ msg \in [Routers -> Values \cup {Null}]
  /\ at \in Routers /\ queue \in Seq(Routers) /\ chain \in Seq(Routers)
  /\ path \in Seq(Routers) /\ walk \in Seq(Routers)
  /\ outcome.kind \in {"none", "pending", "model", "value", "default", "notfound", "recursion"}

\* The key-value handler of r for v is shadowed: by a class that takes v as one of
\* its variants, or by a subrouter on v.
Shadowed(r, v) ==
  \/ v \notin NonString /\ \E e \in lookup[r] : e.variant = v /\ e.primary # v
  \/ \E e \in nested[r] : e.value = v

\* What the ValueErrors of route() leave of shadowing: a key-value handler loses
\* the messages it is registered for exactly to a variant of a flexible class
\* (router.py:147 asks only for primary types, 204-206 then prefers the class)
\* or to a subrouter (359 comes before 375), and never to a class's primary
\* type, in whichever order the modules are imported, nor to a default.
ShadowingConfined ==
  LET r == outcome.router
  IN outcome.kind \in {"model", "value", "default"} /\ msg[r] \in keyed[r] =>
       (outcome.kind = "value" <=> ~Shadowed(r, msg[r]))

\* A variant leads to one class, and that class has a route, so the lookup
\* never fails at run time (router.py:204-206), rejected classes included.
LookupSound ==
  \A r \in Routers : \A e \in lookup[r] :
    /\ e.primary \in Primaries(r)
    /\ \A f \in lookup[r] : f.variant = e.variant => f = e

\* r has a handler of its own for the message.
HasRoute(r) ==
  \/ msg[r] \notin NonString /\ (msg[r] \in Primaries(r) \/ \E e \in lookup[r] : e.variant = msg[r])
  \/ msg[r] \in keyed[r] /\ \A e \in nested[r] : e.value # msg[r]

\* No router of D claims the message, and none passes it to a router outside D.
Declines(D) ==
  \A r \in D : ~HasRoute(r) /\ \A e \in nested[r] : e.value = msg[r] => e.router \in D

\* The routers that claim the message by a route of their own, or of a router
\* below them: all but those of a set that declines.
Claims == Routers \ UNION {D \in SUBSET Routers : Declines(D)}

\* docs/concepts/routing.md:140-145: a message goes to the default handler
\* of the app only if no route of the app or of an included router matches it.
DefaultsComeLast ==
  outcome.kind = "default" /\ outcome.router = Main =>
    \A r \in Range(included) : r \notin Claims

\* A message is reported as without a handler only if none of the routers, nor
\* anything below them, has a route for it.  A default counts where its router
\* has no entry for the message: behind a subrouter that declines it is not
\* asked (router.py:368-373).
NotFoundOnlyWithoutRoute ==
  outcome.kind = "notfound" =>
    \A r \in Range(included) \cup {Main} : r \notin Claims /\ (msg[r] \notin Entries(r) => r \notin default)

\* What the handler is told about its route belongs to the router that claimed
\* the message: a router that declined leaves nothing behind.
PathOfClaimant == IsPrefix(path, walk)

\* A handler runs in the middlewares of its router and of the routers around it,
\* outermost first, as far up as each passes its own on: a router that does not
\* inherit starts anew below itself, whatever the routers above it do.
MiddlewaresNested ==
  LET cut == Len(walk) - Len(outcome.middlewares)
  IN outcome.kind \in {"model", "value", "default"} =>
       /\ IsSuffix(outcome.middlewares, walk)
       /\ \A i \in 1..Len(walk) :
            i > cut <=> \A j \in i..(Len(walk) - 1) : walk[j] \in Inherit
=============================================================================
