------------------------------ MODULE Binding ------------------------------
(***************************************************************************)
(* The sticky-binding registry of balanced models                          *)
(* (internal/gateway/binding.go) under the requests that use it            *)
(* (reorderBalanced and relayCandidates of internal/gateway/relay.go).     *)
(*                                                                         *)
(* A request routes once, walks its chain from the bound candidate, tells  *)
(* the registry of every provider it finds to be a dead end, and, when its *)
(* bound candidate was one, rebinds its caller key to the candidate that   *)
(* served.  The chain a request holds is an input of Route, and breakers   *)
(* open and close by themselves.  A candidate is its number: the chain's   *)
(* sort_order, and a new one when a mapping is made again.                 *)
(***************************************************************************)
EXTENDS Naturals, FiniteSets

CONSTANTS CallerKeys,    \* caller API keys
          Models,
          Providers,
          Candidates,    \* every candidate a model ever has
          ModelOf,       \* the model of a candidate
          ProviderOf,    \* the provider of a candidate
          Capacity,      \* bindingCapacity
          Cooldown,      \* deadEndCooldown
          Requests,      \* the requests in flight at one time
          MaxTime        \* bound: the clock stops here

ASSUME CandidatesAssumption ==
    /\ Candidates \subseteq Nat \ {0}
    /\ ModelOf \in [Candidates -> Models]
    /\ ProviderOf \in [Candidates -> Providers]
ASSUME CapacityAssumption == Capacity \in Nat \ {0}
ASSUME PairsAssumption ==
    /\ IsFiniteSet(CallerKeys) /\ CallerKeys # {}
    /\ IsFiniteSet(Models) /\ Models # {}
ASSUME TimesAssumption == Cooldown \in Nat /\ MaxTime \in Nat

VARIABLES
    now,           \* BindingRegistry.now
    reg,           \* BindingRegistry.bindings and .counts
    deadEndUntil,  \* BindingRegistry.deadEndUntil
    open,          \* the providers Breaker.IsOpen holds of
    req,           \* what each request holds
    steady         \* history: every key so far met its whole chain, and kept its place

vars == <<now, reg, deadEndUntil, open, req, steady>>

Pairs == CallerKeys \X Models

\* A (model, provider) pair's count lives under the model of the binding.
Slots == Models \X Providers

Slot(pair, c) == <<pair[2], ProviderOf[c]>>

Bound(r) == {p \in Pairs : r.target[p] # 0}

\* No binding refers to the candidate 0.
Empty == [target |-> [p \in Pairs |-> 0], lastUsed |-> [p \in Pairs |-> 0],
          counts |-> [s \in Slots |-> 0]]

NoRequest == [pc |-> "idle", pair |-> CHOOSE p \in Pairs : TRUE, first |-> 0,
              left |-> {}, invalidated |-> FALSE]

Init == /\ now = 1
        /\ reg = Empty
        /\ deadEndUntil = [p \in Providers |-> 0]
        /\ open = {}
        /\ req = [q \in Requests |-> NoRequest]
        /\ steady = TRUE
-----------------------------------------------------------------------------
(* The registry's operations, under its mutex.                             *)

\* Bug: a binding gives its count back only when it is the last one.
ReleasedLast(r, pair) ==
    LET s == Slot(pair, r.target[pair]) IN
    IF r.target[pair] = 0 THEN r
    ELSE [r EXCEPT !.target[pair] = 0, !.lastUsed[pair] = 0,
                   !.counts[s] = IF @ <= 1 THEN 0 ELSE @]

\* releaseLocked
Released(r, pair) ==
    LET s == Slot(pair, r.target[pair]) IN
    IF r.target[pair] = 0 THEN r
    ELSE [r EXCEPT !.target[pair] = 0, !.lastUsed[pair] = 0,
                   !.counts[s] = IF @ <= 1 THEN 0 ELSE @ - 1]

Oldest(r) == {p \in Bound(r) : \A q \in Bound(r) : r.lastUsed[p] <= r.lastUsed[q]}

\* evictIfNeededLocked; which of equally old bindings goes is up to the map.
Evictions(r) == IF Cardinality(Bound(r)) < Capacity THEN {r}
                ELSE {Released(r, p) : p \in Oldest(r)}

Assigned(r, pair, c) ==
    [r EXCEPT !.target[pair] = c, !.lastUsed[pair] = now, !.counts[Slot(pair, c)] = @ + 1]

\* Bug: bindings are counted over all models.
LeastBoundGlobal(r, pair, eligible) ==
    LET load(c) == Cardinality({p \in Bound(r) :
                        ProviderOf[r.target[p]] = ProviderOf[c]}) IN
    {c \in eligible : \A d \in eligible :
        load(c) < load(d) \/ (load(c) = load(d) /\ c <= d)}

\* The eligible candidate whose provider has the fewest of the model's bindings,
\* the earliest of the chain among those, as a set of one.
LeastBound(r, pair, eligible) ==
    {c \in eligible : \A d \in eligible :
        LET m == r.counts[Slot(pair, c)]
            n == r.counts[Slot(pair, d)] IN m < n \/ (m = n /\ c <= d)}

\* Bug: the choice is made on the counts as they were before making room.
AssignmentsChosenFirst(r, pair, eligible) ==
    {Assigned(e, pair, c) : e \in Evictions(Released(r, pair)), c \in LeastBound(r, pair, eligible)}

\* A key with no binding, or a stale one, is assigned after room is made.
Assignments(r, pair, eligible) ==
    UNION {{Assigned(e, pair, c) : c \in LeastBound(e, pair, eligible)} :
              e \in Evictions(Released(r, pair))}

Eligible(chain) ==
    {c \in chain : ProviderOf[c] \notin open /\ deadEndUntil[ProviderOf[c]] <= now}

\* Bug: the binding another request made meanwhile is taken away.
YieldsNever(r, pair, invalidated) == FALSE

\* A concurrent request bound the key to something else: that stands.
Yields(r, pair, invalidated) == r.target[pair] \notin {0, invalidated}

\* Rebind
Rebindings(r, pair, c, invalidated) ==
    IF Yields(r, pair, invalidated) THEN {r}
    ELSE {Assigned(e, pair, c) : e \in Evictions(Released(r, pair))}
-----------------------------------------------------------------------------
(* A request.                                                              *)

\* The chains a model may present: one candidate of a provider at a time, and
\* a chain of one is not balanced.
Chains(m) == {chain \in SUBSET {c \in Candidates : ModelOf[c] = m} :
                /\ Cardinality(chain) >= 2
                /\ \A c, d \in chain : ProviderOf[c] = ProviderOf[d] => c = d}

Whole(m) == {ProviderOf[c] : c \in {d \in Candidates : ModelOf[d] = m}}

Begin(q, pair, first, chain) ==
    req' = [req EXCEPT ![q] = [pc |-> "walking", pair |-> pair, first |-> first,
                               left |-> chain, invalidated |-> FALSE]]

Hit(q, pair, chain) ==
    LET c == reg.target[pair] IN
    /\ c \in Eligible(chain)
    /\ reg' = [reg EXCEPT !.lastUsed[pair] = now]
    /\ Begin(q, pair, c, chain)
    /\ UNCHANGED steady

Assign(q, pair, chain) ==
    LET eligible == Eligible(chain) IN
    /\ eligible # {}
    /\ reg.target[pair] \notin eligible
    /\ reg' \in Assignments(reg, pair, eligible)
    /\ Begin(q, pair, reg'.target[pair], chain)
    /\ steady' = (/\ steady
                  /\ {ProviderOf[c] : c \in eligible} = Whole(pair[2])
                  /\ reg.target[pair] = 0
                  /\ Cardinality(Bound(reg)) < Capacity)

\* Every provider is dead: the binding is kept and the chain's order as well.
Blackout(q, pair, chain) ==
    /\ Eligible(chain) = {}
    /\ Begin(q, pair, 0, chain)
    /\ UNCHANGED <<reg, steady>>

\* Route asks for a provider's dead-end window unless its breaker is open, and
\* forgets the window when it is over.
Forgotten(chain) ==
    {p \in {ProviderOf[c] : c \in chain} \ open : deadEndUntil[p] <= now}

\* reorderBalanced -> Route.
Route(q, pair, chain) ==
    /\ req[q].pc = "idle"
    /\ Hit(q, pair, chain) \/ Assign(q, pair, chain) \/ Blackout(q, pair, chain)
    /\ deadEndUntil' = [p \in Providers |->
                            IF p \in Forgotten(chain) THEN 0 ELSE deadEndUntil[p]]
    /\ UNCHANGED <<now, open>>

\* The walk has come to candidate c.
Current(q, c) ==
    /\ c \in req[q].left
    /\ req[q].first \in req[q].left => c = req[q].first
    /\ req[q].first \notin req[q].left => \A d \in req[q].left : c <= d

\* skipDeadEndCandidate -> Quarantine
DeadEnd(q, c) ==
    /\ Current(q, c)
    /\ deadEndUntil' = [deadEndUntil EXCEPT ![ProviderOf[c]] = now + Cooldown]
    /\ req' = [req EXCEPT ![q].left = @ \ {c},
                          ![q].invalidated = @ \/ c = req[q].first]
    /\ UNCHANGED <<now, reg, open, steady>>

\* The candidate is refused by its breaker, cannot take the request, or failed.
Skip(q, c) ==
    /\ Current(q, c)
    /\ req' = [req EXCEPT ![q].left = @ \ {c}]
    /\ UNCHANGED <<now, reg, deadEndUntil, open, steady>>

\* The candidate wrote the response.
Served(q, c) ==
    /\ Current(q, c)
    /\ IF req[q].invalidated
       THEN /\ reg' \in Rebindings(reg, req[q].pair, c, req[q].first)
            /\ steady' = FALSE
       ELSE UNCHANGED <<reg, steady>>
    /\ req' = [req EXCEPT ![q] = NoRequest]
    /\ UNCHANGED <<now, deadEndUntil, open>>

\* The chain is exhausted, or the client hung up.
End(q) ==
    /\ req[q].pc = "walking"
    /\ req' = [req EXCEPT ![q] = NoRequest]
    /\ UNCHANGED <<now, reg, deadEndUntil, open, steady>>

Tick == /\ now < MaxTime
        /\ now' = now + 1
        /\ UNCHANGED <<reg, deadEndUntil, open, req, steady>>

\* Breakers open, half-open and close (Circuit).
Breakers == /\ open' \in SUBSET Providers
            /\ UNCHANGED <<now, reg, deadEndUntil, req, steady>>

Step(q) == \/ \E pair \in Pairs : \E chain \in Chains(pair[2]) : Route(q, pair, chain)
           \/ \E c \in Candidates : DeadEnd(q, c) \/ Skip(q, c) \/ Served(q, c)
           \/ End(q)

Next == (\E q \in Requests : Step(q)) \/ Breakers \/ Tick

Spec == Init /\ [][Next]_vars
-----------------------------------------------------------------------------
(* Properties.                                                             *)

Registries == [target : [Pairs -> Candidates \cup {0}], lastUsed : [Pairs -> Nat],
               counts : [Slots -> Nat]]

Walks == [pc : {"idle", "walking"}, pair : Pairs, first : Candidates \cup {0},
          left : SUBSET Candidates, invalidated : BOOLEAN]

TypeOK ==
    /\ now \in Nat
    /\ reg \in Registries
    /\ deadEndUntil \in [Providers -> Nat]
    /\ open \in SUBSET Providers
    /\ req \in [Requests -> Walks]
    /\ steady \in BOOLEAN

\* The bindings that count under a slot.
HoldersIn(r, s) == {p \in Bound(r) : Slot(p, r.target[p]) = s}

Holders(s) == HoldersIn(reg, s)

\* The count the balancing is decided on is the number of bindings there are,
\* through every release, eviction, reassignment and rebinding.
CountsAreBindings == \A s \in Slots : reg.counts[s] = Cardinality(Holders(s))

\* The registry never outgrows bindingCapacity.
WithinCapacity == Cardinality(Bound(reg)) <= Capacity

\* "New bindings always land on the least-loaded provider, so the spread stays
\* even no matter what order keys arrive in" (binding.go:123-125): as long as no
\* provider was missing for a key and no binding was displaced.
SpreadIsEven ==
    steady => \A m \in Models : \A p, o \in Whole(m) :
                Cardinality(Holders(<<m, p>>)) <= Cardinality(Holders(<<m, o>>)) + 1

\* A key gets a provider that has, once room was made for it, no more of the
\* model's bindings than any other eligible one (Route, binding.go:169-188).
LandsOnLeastBound ==
    [][ \A q \in Requests :
          LET pair == req'[q].pair
              c == reg'.target[pair] IN
          (req[q].pc = "idle" /\ req'[q].pc = "walking" /\ c # reg.target[pair]) =>
             \A d \in Eligible(req'[q].left) :
                reg'.counts[Slot(pair, c)] <= reg'.counts[Slot(pair, d)] + 1 ]_vars

\* The balance of a model's bindings over its providers, in the counts, in each choice
\* and over all.
BindingsAreBalanced == []CountsAreBindings /\ []SpreadIsEven /\ LandsOnLeastBound

\* A walk that rebinds ends with its key off the dead end it was bound to, and
\* takes away no binding another request made for the key since.
RebindMovesOnlyTheDeadEnd ==
    [][ \A q \in Requests, c \in Candidates :
          (req[q].invalidated /\ Served(q, c)) =>
          LET pair == req[q].pair
              was == reg.target[pair]
              is == reg'.target[pair] IN
          /\ is \notin {0, req[q].first}
          /\ was \notin {0, req[q].first} => is = was ]_vars
=============================================================================
