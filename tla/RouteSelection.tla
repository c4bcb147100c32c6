-------------------------- MODULE RouteSelection ---------------------------
(***************************************************************************)
(* How a request gets its candidates: resolveAttemptCandidates of          *)
(* internal/gateway/attempt.go with Filter and Rank of internal/router.    *)
(* It filters the routes up to four times while it holds the gateway's     *)
(* lock.  The lock keeps catalog, pool and pin still; it does not keep the *)
(* routes' health still, which the attempts of other requests change and   *)
(* which time changes, between two passes and within one.                  *)
(***************************************************************************)
EXTENDS CandidateList, FiniteSets

CONSTANTS
    Model,          \* ProviderModelIDs
    NoModel,        \* no pin; the request names fmr/auto, or no model
    Access,         \* Route -> AccessClass, as EffectiveAccess resolves it
    Policy,         \* Route -> ProviderRoute.AutoRouteAllowed, "unset" for nil
    Catalogs,       \* what Filter may find of enabled routes of catalog models
    Capable         \* the routes that may meet a request's requirements

ASSUME RoutesAssumption ==
    /\ IsFiniteSet(Route)
    /\ ModelOf \in [Route -> Model]
    /\ NoModel \notin Model
    /\ Access \in [Route -> {"Free", "FreeTier", "Unknown", "Paid"}]
    /\ Policy \in [Route -> {"unset", "allow", "deny"}]
    /\ Catalogs \subseteq SUBSET Route
    /\ Capable \subseteq SUBSET Route

VARIABLES
    offered,        \* enabled routes of the models in the catalog
    pool,           \* models selected for automatic routing
    pin,            \* the pinned model, or NoModel
    cooling,        \* routes that the health manager reports not available
    explicit,       \* the model whose routes are authoritative, or NoModel
    capable,        \* routes that meet the request's requirements
    pass,           \* the pass of resolveAttemptCandidates that is running
    left,           \* routes that the running Filter has yet to look at
    eligible,       \* routes that the running Filter has let through
    normal,         \* ordinary candidates, ranked
    unknown,        \* what the passes with AllowUnknown have let through
    result,         \* the candidates returned
    steady, seenUp  \* history: available all along, available at some time

config == <<offered, pool, pin>>
request == <<explicit, capable>>
work == <<pass, left, eligible, normal, unknown, result>>
history == <<steady, seenUp>>
vars == <<config, cooling, request, work, history>>

Pass == {"idle", "explicit", "pool", "unknownExplicit", "unknownPool", "done"}

\* A route as a pass with AllowUnknown found it.
Finding == [route : Route, pass : {"unknownExplicit", "unknownPool"}]

TypeOK ==
    /\ offered \in SUBSET Route /\ pool \in SUBSET Model /\ pin \in Model \cup {NoModel}
    /\ cooling \in SUBSET Route
    /\ explicit \in Model \cup {NoModel} /\ capable \in SUBSET Route
    /\ pass \in Pass
    /\ left \in SUBSET Route /\ eligible \in SUBSET Route
    /\ normal \in Seq(Route) /\ unknown \in SUBSET Finding
    /\ result \in Seq(Candidate)
    /\ steady \in SUBSET Route /\ seenUp \in SUBSET Route

----------------------------------------------------------------------------
AutoRoutable(access) == access \in {"Free", "FreeTier"}

\* The user's policy where there is one, the access class otherwise.
AllowsAutomaticRouting(r) ==
    IF Policy[r] = "unset" THEN AutoRoutable(Access[r]) ELSE Policy[r] = "allow"

\* No caller sets AllowPaid.
RouteAccessAllowed(access, allowUnknown) ==
    AutoRoutable(access) \/ (access = "Unknown" /\ allowUnknown)

AllowsUnknown(p) == p \in {"unknownExplicit", "unknownPool"}

\* Filter's chain for one route: capabilities, health, access.
IsEligible(r, allowUnknown) ==
    /\ r \in capable
    /\ r \notin cooling
    /\ AllowsAutomaticRouting(r) \/ RouteAccessAllowed(Access[r], allowUnknown)

\* The routes a Filter looks at: those of the explicit model, else the pool's.
RoutesOfPass(p, model) ==
    {r \in offered : IF p \in {"explicit", "unknownExplicit"}
                     THEN ModelOf[r] = model ELSE ModelOf[r] \in pool}

\* rankCandidates orders by benchmark scores, latency samples, which change
\* while it sorts, and names: any order is possible, nothing is lost or doubled.
\* To rank first and then leave some out is therefore to rank the others.
Rankings(S) == {f \in [1..Cardinality(S) -> S] :
                  /\ \A i, j \in DOMAIN f : f[i] = f[j] => i = j
                  /\ \A x \in S : \E i \in DOMAIN f : f[i] = x}

Elements(s) == {s[i] : i \in DOMAIN s}

Ordinary(r) == [route |-> r, fallbackOnly |-> FALSE]
Alternate(r) == [route |-> r, fallbackOnly |-> TRUE]
OrdinaryCandidates(s) == [i \in DOMAIN s |-> Ordinary(s[i])]

Alternates(s) == [i \in DOMAIN s |-> Alternate(s[i].route)]

ModelsOf(s) == {ModelOf[s[i]] : i \in DOMAIN s}

\* A Filter starts.
Begin(p, model) ==
    /\ pass' = p
    /\ left' = RoutesOfPass(p, model)
    /\ eligible' = {}

----------------------------------------------------------------------------
Init ==
    /\ offered \in Catalogs
    /\ pool \in SUBSET Model
    /\ pin \in pool \cup {NoModel}
    /\ cooling = {}
    /\ explicit = NoModel /\ capable = {}
    /\ pass = "idle" /\ left = {} /\ eligible = {}
    /\ normal = <<>> /\ unknown = {} /\ result = <<>>
    /\ steady = Route /\ seenUp = Route

\* Refreshes, selections and pins wait for the gateway's lock.
Reconfigure ==
    /\ pass = "idle"
    /\ offered' \in Catalogs
    /\ pool' \in SUBSET Model
    /\ pin' \in pool' \cup {NoModel}
    /\ UNCHANGED <<cooling, request, work, history>>

\* A request for `model`.  NoModel stands for fmr/auto, whose place a pin takes,
\* and for no model at all, which is served from the pool whatever the pin.
Resolve(model) ==
    /\ pass = "idle"
    /\ explicit' \in IF model = NoModel THEN {pin, NoModel} ELSE {model}
    /\ capable' \in Capable
    /\ Begin(IF explicit' = NoModel THEN "pool" ELSE "explicit", explicit')
    /\ UNCHANGED <<config, cooling>>
    /\ steady' = Route \ cooling
    /\ seenUp' = Route \ cooling
    /\ normal' = <<>>
    /\ unknown' = {}
    /\ result' = <<>>

Examine(r) ==
    /\ r \in left
    /\ left' = left \ {r}
    /\ eligible' = IF IsEligible(r, AllowsUnknown(pass)) THEN eligible \cup {r} ELSE eligible
    /\ UNCHANGED <<config, cooling, request, pass, normal, unknown, result, history>>

Filtered(p) == pass = p /\ left = {}

\* An explicit model without a valid route ends the request; the pool does not
\* stand in for it.
ExplicitHasNone ==
    /\ Filtered("explicit")
    /\ eligible = {}
    /\ pass' = "done"
    /\ UNCHANGED <<config, cooling, request, left, eligible, normal, unknown, result, history>>

RankExplicit ==
    /\ Filtered("explicit")
    /\ eligible # {}
    /\ normal' \in Rankings(eligible)
    /\ UNCHANGED <<config, cooling, request, unknown, result, history>>
    /\ Begin("pool", explicit)

\* rankedUnique: the pool's routes that are not listed yet.
RankPool ==
    /\ Filtered("pool")
    /\ \E f \in Rankings(eligible \ Elements(normal)) : normal' = normal \o f
    /\ UNCHANGED <<config, cooling, request, unknown, result, history>>
    /\ Begin(IF explicit = NoModel THEN "unknownPool" ELSE "unknownExplicit", explicit)

FindUnknown(p) == [route : eligible, pass : {p}]

\* Faulty variant: what this pass found is forgotten by the next one.
EndUnknownExplicitForgets ==
    /\ Filtered("unknownExplicit")
    /\ UNCHANGED <<config, cooling, request, normal, unknown, result, history>>
    /\ Begin("unknownPool", explicit)

EndUnknownExplicit ==
    /\ Filtered("unknownExplicit")
    /\ unknown' = FindUnknown("unknownExplicit")
    /\ UNCHANGED <<config, cooling, request, normal, result, history>>
    /\ Begin("unknownPool", explicit)

\* Faulty variant: alternates of models that have no ordinary candidate.
IsAlternateOfAny(found) ==
    /\ found.route \notin Elements(normal)
    /\ Access[found.route] = "Unknown"

\* An alternate: unknown access, of a model that has an ordinary candidate.
IsAlternate(found) ==
    /\ found.route \notin Elements(normal)
    /\ ModelOf[found.route] \in ModelsOf(normal)
    /\ Access[found.route] = "Unknown"

EndUnknownPool ==
    /\ Filtered("unknownPool")
    /\ \E f \in Rankings({found \in unknown \cup FindUnknown("unknownPool") :
                             IsAlternate(found)}) :
          result' = OrdinaryCandidates(normal) \o Alternates(f)
    /\ pass' = "done"
    /\ UNCHANGED <<config, cooling, request, left, eligible, normal, unknown, history>>

\* The lock is released; the next request may come.
Return ==
    /\ pass = "done"
    /\ pass' = "idle"
    /\ explicit' = NoModel /\ capable' = {}
    /\ left' = {} /\ eligible' = {} /\ normal' = <<>> /\ unknown' = {} /\ result' = <<>>
    /\ steady' = Route /\ seenUp' = Route
    /\ UNCHANGED <<config, cooling>>

----------------------------------------------------------------------------
(* The health manager, at any time: other requests and the clock. *)

RouteFailure(r) ==
    /\ r \notin cooling
    /\ cooling' = cooling \cup {r}
    /\ steady' = IF pass = "idle" THEN steady ELSE steady \ {r}
    /\ UNCHANGED <<config, request, work, seenUp>>

\* A success clears the cooldown, and so does its end.
RouteRecovers(r) ==
    /\ r \in cooling
    /\ cooling' = cooling \ {r}
    /\ seenUp' = IF pass = "idle" THEN seenUp ELSE seenUp \cup {r}
    /\ UNCHANGED <<config, request, work, steady>>

Next ==
    \/ Reconfigure
    \/ \E model \in Model \cup {NoModel} : Resolve(model)
    \/ \E r \in Route : Examine(r)
    \/ ExplicitHasNone
    \/ RankExplicit
    \/ RankPool
    \/ EndUnknownExplicit
    \/ EndUnknownPool
    \/ Return
    \/ \E r \in Route : RouteFailure(r) \/ RouteRecovers(r)

Spec == Init /\ [][Next]_vars

----------------------------------------------------------------------------
ListedOrdinary(r) == Ordinary(r) \in Elements(result)
Listed(r) == \E c \in Elements(result) : c.route = r

\* The first candidate, which the first attempt takes, is of the explicit model.
ExplicitComesFirst ==
    explicit # NoModel /\ result # <<>> =>
        ~result[1].fallbackOnly /\ ModelOf[result[1].route] = explicit

\* No route that costs money unless the user allowed it; one of unknown access
\* that the user did not allow is no more than an alternate.
AccessIsRespected ==
    \A c \in Elements(result) :
        IF c.fallbackOnly THEN Access[c.route] = "Unknown"
        ELSE AllowsAutomaticRouting(c.route) \/ AutoRoutable(Access[c.route])

\* What is listed could serve the request when it was looked at.
ListedCouldServe ==
    \A c \in Elements(result) :
        /\ c.route \in offered \cap capable \cap seenUp
        /\ ModelOf[c.route] \in pool \cup {explicit}

\* resolveAttemptCandidates: whatever happens to the routes' health between the
\* passes, the list it returns has the form the attempts rely on, starts with
\* the model asked for, and holds only routes the request may use.
ListIsSound ==
    /\ InCandidateListForm(result)
    /\ ExplicitComesFirst
    /\ AccessIsRespected
    /\ ListedCouldServe

\* The routes the request may use of those that stayed available.
Usable == {r \in offered \cap capable \cap steady :
              AllowsAutomaticRouting(r) \/ AutoRoutable(Access[r])}

\* resolveAttemptCandidates: an explicit model is refused only if none of its
\* routes stayed available.  Otherwise every usable route of the model and of
\* the pool is listed, and so is every alternate of a model that has one.
NothingUsableIsLost ==
    pass = "done" =>
        IF result = <<>> /\ explicit # NoModel
        THEN \A r \in Usable : ModelOf[r] # explicit
        ELSE /\ \A r \in Usable : ModelOf[r] \in pool \cup {explicit} => ListedOrdinary(r)
             /\ \A r \in offered \cap capable \cap steady :
                   /\ Access[r] = "Unknown"
                   /\ ModelOf[r] \in pool \cup {explicit}
                   /\ \E c \in Elements(result) : ~c.fallbackOnly /\ ModelOf[c.route] = ModelOf[r]
                   => Listed(r)
============================================================================
