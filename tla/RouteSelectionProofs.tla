----------------------- MODULE RouteSelectionProofs ------------------------
(***************************************************************************)
(* Proofs about RouteSelection: whatever happens to the routes' health     *)
(* while a request's candidates are filtered, the list is sound and        *)
(* nothing usable is missing from it.                                      *)
(***************************************************************************)
EXTENDS RouteSelection, FiniteSetTheorems, TLAPS

Passing == {"explicit", "pool", "unknownExplicit", "unknownPool"}

\* What pass p may put among its eligible routes, and what it must.
May(p, r) ==
    /\ r \in RoutesOfPass(p, explicit) \cap capable \cap seenUp
    /\ ~AllowsUnknown(p) => AllowsAutomaticRouting(r) \/ AutoRoutable(Access[r])
Must(p, r) ==
    /\ r \in RoutesOfPass(p, explicit) \cap capable \cap steady
    /\ \/ AllowsAutomaticRouting(r) \/ AutoRoutable(Access[r])
       \/ AllowsUnknown(p) /\ Access[r] = "Unknown"

\* steady and seenUp bound what the health manager has said since Resolve.
HealthIsSeen ==
    pass # "idle" => /\ Route \ cooling \subseteq seenUp
                     /\ steady \cap cooling = {}

FilterIsRight ==
    pass \in Passing =>
        /\ left \subseteq RoutesOfPass(pass, explicit)
        /\ \A r \in eligible : May(pass, r)
        /\ \A r \in Route : Must(pass, r) => r \in left \cup eligible
        /\ pass \in {"explicit", "unknownExplicit"} => explicit # NoModel

NormalIsSound ==
    /\ \A i, j \in DOMAIN normal : normal[i] = normal[j] => i = j
    /\ \A i \in DOMAIN normal :
          /\ normal[i] \in offered \cap capable \cap seenUp
          /\ ModelOf[normal[i]] \in pool \cup {explicit}
          /\ AllowsAutomaticRouting(normal[i]) \/ AutoRoutable(Access[normal[i]])
    /\ pass = "explicit" => normal = <<>>
    /\ explicit # NoModel /\ pass \in {"pool", "unknownExplicit", "unknownPool"} =>
          normal # <<>> /\ ModelOf[normal[1]] = explicit

NormalIsComplete ==
    \A r \in Usable :
        /\ explicit # NoModel /\ ModelOf[r] = explicit
           /\ pass \in {"pool", "unknownExplicit", "unknownPool"} => r \in Elements(normal)
        /\ ModelOf[r] \in pool /\ pass \in {"unknownExplicit", "unknownPool"} =>
              r \in Elements(normal)

UnknownIsSound ==
    \A found \in unknown :
        /\ found.route \in offered \cap capable \cap seenUp
        /\ ModelOf[found.route] \in pool \cup {explicit}

UnknownIsComplete ==
    pass = "unknownPool" /\ explicit # NoModel =>
        \A r \in offered \cap capable \cap steady :
            Access[r] = "Unknown" /\ ModelOf[r] = explicit =>
                \E found \in unknown : found.route = r

ResultIsRight ==
    /\ pass # "done" => result = <<>>
    /\ pass = "idle" => normal = <<>> /\ unknown = {} /\ explicit = NoModel
    /\ ListIsSound
    /\ NothingUsableIsLost

IInv ==
    /\ TypeOK
    /\ HealthIsSeen
    /\ FilterIsRight
    /\ NormalIsSound
    /\ NormalIsComplete
    /\ UnknownIsSound
    /\ UnknownIsComplete
    /\ ResultIsRight

----------------------------------------------------------------------------
\* A ranking is a sequence of the set's elements, each of them once.
LEMMA RankingFacts ==
    ASSUME NEW S, IsFiniteSet(S), NEW f \in Rankings(S)
    PROVE  /\ f \in Seq(S)
           /\ Elements(f) = S
           /\ \A i, j \in DOMAIN f : f[i] = f[j] => i = j
<1>1. Cardinality(S) \in Nat
  BY FS_CardinalityType
<1>2. f \in [1..Cardinality(S) -> S]
  BY DEF Rankings
<1>3. f \in Seq(S)
  BY <1>1, <1>2
<1> QED BY <1>2, <1>3 DEF Rankings, Elements

\* Sets of routes, and of what the passes found, are finite.
LEMMA FiniteRouteSets ==
    /\ \A S \in SUBSET Route : IsFiniteSet(S)
    /\ \A S \in SUBSET Finding : IsFiniteSet(S)
<1>1. \A S \in SUBSET Route : IsFiniteSet(S)
  BY RoutesAssumption, FS_Subset
<1>2. IsFiniteSet(Route \X {"unknownExplicit", "unknownPool"})
  <2>1. IsFiniteSet({"unknownExplicit", "unknownPool"})
    <3>1. IsFiniteSet({"unknownExplicit"})
      BY FS_Singleton
    <3>2. IsFiniteSet({"unknownExplicit"} \cup {"unknownPool"})
      BY <3>1, FS_AddElement
    <3>3. {"unknownExplicit"} \cup {"unknownPool"} = {"unknownExplicit", "unknownPool"}
      OBVIOUS
    <3> QED BY <3>2, <3>3
  <2> QED BY <2>1, RoutesAssumption, FS_Product
<1>3. IsFiniteSet(Finding)
  <2> DEFINE pairs == Route \X {"unknownExplicit", "unknownPool"}
             finding == [p \in pairs |-> [route |-> p[1], pass |-> p[2]]]
  <2>1. finding \in Surjection(pairs, Finding)
    <3>1. \A x \in Finding : <<x.route, x.pass>> \in pairs /\ finding[<<x.route, x.pass>>] = x
      BY DEF Finding
    <3>2. finding \in [pairs -> Finding]
      BY DEF Finding
    <3> QED BY <3>1, <3>2 DEF Surjection
  <2> QED BY <1>2, <2>1, FS_Surjection
<1> QED BY <1>1, <1>3, FS_Subset

\* Appending to a sequence: where each element of the whole comes from.
LEMMA Concatenation ==
    ASSUME NEW S, NEW s \in Seq(S), NEW t \in Seq(S)
    PROVE  /\ s \o t \in Seq(S)
           /\ DOMAIN (s \o t) = 1..(Len(s) + Len(t))
           /\ \A i \in DOMAIN (s \o t) :
                 \/ i \in DOMAIN s /\ (s \o t)[i] = s[i]
                 \/ i > Len(s) /\ i - Len(s) \in DOMAIN t /\ (s \o t)[i] = t[i - Len(s)]
           /\ \A i \in DOMAIN s : i \in DOMAIN (s \o t) /\ (s \o t)[i] = s[i]
           /\ \A i \in DOMAIN t : /\ i + Len(s) \in DOMAIN (s \o t)
                                  /\ (s \o t)[i + Len(s)] = t[i]
OBVIOUS

----------------------------------------------------------------------------
\* The list that EndUnknownPool builds: the ordinary candidates in their order,
\* then the alternates in any.
LEMMA BuiltList ==
    ASSUME NEW n \in Seq(Route), NEW f \in Seq(Finding)
    PROVE  LET list == OrdinaryCandidates(n) \o Alternates(f)
           IN  /\ list \in Seq(Candidate)
               /\ \A i \in DOMAIN list :
                     \/ i \in DOMAIN n /\ list[i] = Ordinary(n[i])
                     \/ /\ i > Len(n) /\ i - Len(n) \in DOMAIN f
                        /\ list[i] = Alternate(f[i - Len(n)].route)
               /\ \A i \in DOMAIN n : i \in DOMAIN list /\ list[i] = Ordinary(n[i])
               /\ \A i \in DOMAIN f :
                     /\ i + Len(n) \in DOMAIN list
                     /\ list[i + Len(n)] = Alternate(f[i].route)
<1>1. /\ OrdinaryCandidates(n) \in Seq(Candidate)
      /\ DOMAIN OrdinaryCandidates(n) = DOMAIN n /\ Len(OrdinaryCandidates(n)) = Len(n)
      /\ \A i \in DOMAIN n : OrdinaryCandidates(n)[i] = Ordinary(n[i])
  <2>1. Len(n) \in Nat /\ DOMAIN n = 1..Len(n) /\ \A i \in DOMAIN n : n[i] \in Route
    OBVIOUS
  <2>2. \A i \in DOMAIN n : Ordinary(n[i]) \in Candidate
    BY <2>1 DEF Ordinary, Candidate
  <2>3. OrdinaryCandidates(n) = [i \in 1..Len(n) |-> Ordinary(n[i])]
    BY <2>1 DEF OrdinaryCandidates
  <2>4. OrdinaryCandidates(n) \in [1..Len(n) -> Candidate]
    BY <2>1, <2>2, <2>3
  <2>5. OrdinaryCandidates(n) \in Seq(Candidate) /\ Len(OrdinaryCandidates(n)) = Len(n)
    BY <2>1, <2>4
  <2> QED BY <2>1, <2>3, <2>5
<1>2. /\ Alternates(f) \in Seq(Candidate)
      /\ DOMAIN Alternates(f) = DOMAIN f
      /\ \A i \in DOMAIN f : Alternates(f)[i] = Alternate(f[i].route)
  <2>1. Len(f) \in Nat /\ DOMAIN f = 1..Len(f) /\ \A i \in DOMAIN f : f[i] \in Finding
    OBVIOUS
  <2>2. \A i \in DOMAIN f : Alternate(f[i].route) \in Candidate
    BY <2>1 DEF Alternate, Candidate, Finding
  <2>3. Alternates(f) = [i \in 1..Len(f) |-> Alternate(f[i].route)]
    BY <2>1 DEF Alternates
  <2>4. Alternates(f) \in [1..Len(f) -> Candidate]
    BY <2>1, <2>2, <2>3
  <2>5. Alternates(f) \in Seq(Candidate)
    BY <2>1, <2>4
  <2> QED BY <2>1, <2>3, <2>5
<1> QED BY <1>1, <1>2, Concatenation

\* It has the form the attempts rely on if the ordinary candidates are listed
\* once and the alternates are theirs.
LEMMA BuiltListForm ==
    ASSUME NEW n \in Seq(Route), NEW f \in Seq(Finding),
           \A i, j \in DOMAIN n : n[i] = n[j] => i = j,
           \A i \in DOMAIN f : /\ f[i].route \notin Elements(n)
                               /\ ModelOf[f[i].route] \in ModelsOf(n)
    PROVE  InCandidateListForm(OrdinaryCandidates(n) \o Alternates(f))
<1> DEFINE list == OrdinaryCandidates(n) \o Alternates(f)
<1> HIDE DEF list
<1>1. /\ list \in Seq(Candidate)
      /\ \A i \in DOMAIN list :
            \/ i \in DOMAIN n /\ list[i] = Ordinary(n[i])
            \/ /\ i > Len(n) /\ i - Len(n) \in DOMAIN f
               /\ list[i] = Alternate(f[i - Len(n)].route)
      /\ \A i \in DOMAIN n : i \in DOMAIN list /\ list[i] = Ordinary(n[i])
  BY BuiltList DEF list
<1>2. \A r : /\ Ordinary(r).route = r /\ ~Ordinary(r).fallbackOnly
             /\ Alternate(r).route = r /\ Alternate(r).fallbackOnly
  BY DEF Ordinary, Alternate
<1>3. ASSUME NEW i \in DOMAIN list, NEW j \in DOMAIN list
      PROVE  /\ ~list[i].fallbackOnly /\ list[i].route = list[j].route => i = j
             /\ list[i].fallbackOnly /\ ~list[j].fallbackOnly => j < i
  <2>1. CASE list[i].fallbackOnly
    BY <1>1, <1>2, <2>1
  <2>2. CASE ~list[i].fallbackOnly
    <3>1. i \in DOMAIN n /\ list[i].route = n[i]
      BY <1>1, <1>2, <2>2
    <3>2. CASE j \in DOMAIN n /\ list[j] = Ordinary(n[j])
      BY <1>2, <2>2, <3>1, <3>2
    <3>3. CASE j - Len(n) \in DOMAIN f /\ list[j] = Alternate(f[j - Len(n)].route)
      BY <1>2, <2>2, <3>1, <3>3 DEF Elements
    <3> QED BY <1>1, <3>2, <3>3
  <2> QED BY <2>1, <2>2
<1>4. ASSUME NEW i \in DOMAIN list, list[i].fallbackOnly
      PROVE  \E j \in DOMAIN list : /\ ~list[j].fallbackOnly
                                    /\ ModelOf[list[j].route] = ModelOf[list[i].route]
  <2>1. i - Len(n) \in DOMAIN f /\ list[i].route = f[i - Len(n)].route
    BY <1>1, <1>2, <1>4
  <2>2. PICK j \in DOMAIN n : ModelOf[n[j]] = ModelOf[f[i - Len(n)].route]
    BY <2>1 DEF ModelsOf
  <2>3. j \in DOMAIN list /\ list[j].route = n[j] /\ ~list[j].fallbackOnly
    BY <1>1, <1>2, <2>2
  <2> QED BY <2>1, <2>2, <2>3
<1> QED BY <1>1, <1>3, <1>4 DEF InCandidateListForm, list

----------------------------------------------------------------------------
\* A gateway that has served nothing.
LEMMA InitIsRight == Init => IInv
BY RoutesAssumption DEF Init, IInv, TypeOK, Pass, HealthIsSeen, FilterIsRight, Passing,
   NormalIsSound, NormalIsComplete, UnknownIsSound, UnknownIsComplete, ResultIsRight,
   ListIsSound, InCandidateListForm, ExplicitComesFirst, AccessIsRespected, Elements,
   ListedCouldServe, NothingUsableIsLost

\* Other requests and the clock change health at any time.
LEMMA HealthStep ==
    ASSUME IInv, NEW r \in Route, RouteFailure(r) \/ RouteRecovers(r)
    PROVE  IInv'
<1> USE DEF IInv
<1>1. /\ UNCHANGED <<config, request, work>>
      /\ steady' \subseteq steady /\ steady' \in SUBSET Route
      /\ seenUp \subseteq seenUp' /\ seenUp' \in SUBSET Route
      /\ cooling' \in SUBSET Route
  BY DEF RouteFailure, RouteRecovers, TypeOK
<1> USE <1>1 DEF config, request, work
<1>2. TypeOK'
  BY DEF TypeOK
<1>3. HealthIsSeen'
  <2>1. CASE RouteFailure(r)
    BY <2>1 DEF HealthIsSeen, RouteFailure, TypeOK
  <2>2. CASE RouteRecovers(r)
    BY <2>2 DEF HealthIsSeen, RouteRecovers, TypeOK
  <2> QED BY <2>1, <2>2
<1>4. FilterIsRight'
  BY DEF FilterIsRight, May, Must, RoutesOfPass, AllowsUnknown
<1>5. NormalIsSound'
  BY DEF NormalIsSound
<1>6. Usable' \subseteq Usable
  BY DEF Usable
<1>7. NormalIsComplete'
  BY <1>6 DEF NormalIsComplete
<1>8. UnknownIsSound' /\ UnknownIsComplete'
  BY DEF UnknownIsSound, UnknownIsComplete
<1>9. ListIsSound'
  BY DEF ResultIsRight, ListIsSound, InCandidateListForm, ExplicitComesFirst,
         AccessIsRespected, ListedCouldServe, Elements
<1>10. NothingUsableIsLost'
  BY <1>6 DEF ResultIsRight, NothingUsableIsLost, ListedOrdinary, Listed
<1>11. ResultIsRight'
  BY <1>9, <1>10 DEF ResultIsRight
<1> QED BY <1>2, <1>3, <1>4, <1>5, <1>7, <1>8, <1>11

\* The facts about an empty result, which every step but the last keeps.
LEMMA EmptyResult ==
    ASSUME result' = <<>>, pass' # "done",
           pass' = "idle" => normal' = <<>> /\ unknown' = {} /\ explicit' = NoModel
    PROVE  ResultIsRight'
BY DEF ResultIsRight, ListIsSound, InCandidateListForm, ExplicitComesFirst,
       AccessIsRespected, ListedCouldServe, Elements, NothingUsableIsLost

\* Between two requests.
LEMMA ReconfigureStep == ASSUME IInv, Reconfigure PROVE IInv'
<1>1. pass = "idle" /\ result = <<>> /\ normal = <<>> /\ unknown = {} /\ explicit = NoModel
  BY DEF Reconfigure, IInv, ResultIsRight
<1>2. UNCHANGED <<cooling, request, work, history>>
  BY DEF Reconfigure
<1> USE <1>1, <1>2 DEF request, work, history
<1>3. TypeOK'
  BY RoutesAssumption DEF IInv, TypeOK, Reconfigure
<1>4. ResultIsRight'
  BY EmptyResult
<1> QED BY <1>3, <1>4 DEF IInv, HealthIsSeen, FilterIsRight, Passing, NormalIsSound,
          NormalIsComplete, UnknownIsSound, UnknownIsComplete

LEMMA ReturnStep == ASSUME IInv, Return PROVE IInv'
<1> USE DEF Return, config
<1>1. TypeOK'
  BY DEF IInv, TypeOK, Pass
<1>2. ResultIsRight'
  BY EmptyResult
<1> QED BY <1>1, <1>2 DEF IInv, TypeOK, HealthIsSeen, FilterIsRight, Passing, NormalIsSound,
          NormalIsComplete, UnknownIsSound, UnknownIsComplete

\* A Filter that starts has looked at nothing.
LEMMA BeginIsRight ==
    ASSUME NEW p \in Passing, NEW model, Begin(p, model), explicit' = model,
           UNCHANGED config, p \in {"explicit", "unknownExplicit"} => model # NoModel
    PROVE  FilterIsRight'
BY DEF Begin, FilterIsRight, May, Must, RoutesOfPass, config

LEMMA ResolveStep ==
    ASSUME IInv, NEW model \in Model \cup {NoModel}, Resolve(model)
    PROVE  IInv'
<1> DEFINE first == IF explicit' = NoModel THEN "pool" ELSE "explicit"
<1>1. /\ explicit' \in Model \cup {NoModel}
      /\ capable' \in SUBSET Route
      /\ Begin(first, explicit') /\ UNCHANGED <<config, cooling>>
      /\ normal' = <<>> /\ unknown' = {} /\ result' = <<>>
      /\ steady' = Route \ cooling /\ seenUp' = Route \ cooling
  BY RoutesAssumption DEF Resolve, IInv, TypeOK
<1>2. pass' = first /\ left' = RoutesOfPass(first, explicit') /\ eligible' = {}
  BY <1>1 DEF Begin
<1>3. TypeOK'
  <2>1. left' \in SUBSET Route
    BY <1>2 DEF RoutesOfPass, IInv, TypeOK
  <2> QED BY <1>1, <1>2, <2>1 DEF IInv, TypeOK, Pass, config
<1>4. HealthIsSeen'
  BY <1>1 DEF HealthIsSeen
<1>5. FilterIsRight'
  <2>1. first \in Passing /\ (first \in {"explicit", "unknownExplicit"} => explicit' # NoModel)
    BY DEF Passing
  <2> HIDE DEF first
  <2> QED BY <1>1, <2>1, BeginIsRight
<1>6. NormalIsSound'
  BY <1>1, <1>2 DEF NormalIsSound
<1>7. NormalIsComplete'
  BY <1>1, <1>2 DEF NormalIsComplete
<1>8. UnknownIsSound' /\ UnknownIsComplete'
  BY <1>1, <1>2 DEF UnknownIsSound, UnknownIsComplete
<1>9. ResultIsRight'
  BY <1>1, <1>2, EmptyResult
<1> QED BY <1>3, <1>4, <1>5, <1>6, <1>7, <1>8, <1>9 DEF IInv

\* One route is looked at, with the health it has now.
LEMMA ExamineStep == ASSUME IInv, NEW r \in Route, Examine(r) PROVE IInv'
<1>1. /\ UNCHANGED <<config, cooling, request, pass, normal, unknown, result, history>>
      /\ left' = left \ {r} /\ r \in left
      /\ eligible' = IF IsEligible(r, AllowsUnknown(pass)) THEN eligible \cup {r} ELSE eligible
  BY DEF Examine
<1>2. CASE pass \notin Passing
  <2>1. UNCHANGED <<offered, pool, pin, cooling, explicit, capable, pass, normal, unknown,
                    result, steady, seenUp>>
    BY <1>1 DEF config, request, history
  <2> QED BY <1>1, <1>2, <2>1 DEF IInv, TypeOK, HealthIsSeen, FilterIsRight, NormalIsSound,
            NormalIsComplete, Usable, UnknownIsSound, UnknownIsComplete, ResultIsRight,
            ListIsSound, InCandidateListForm, ExplicitComesFirst, AccessIsRespected,
            ListedCouldServe, Elements, NothingUsableIsLost, ListedOrdinary, Listed
<1>3. CASE pass \in Passing
  <2> USE <1>1, <1>3 DEF IInv, config, request, history
  <2>1. pass # "idle" /\ pass # "done" /\ r \in RoutesOfPass(pass, explicit)
    BY DEF Passing, FilterIsRight
  <2>2. TypeOK'
    BY DEF TypeOK
  <2>3. r \notin cooling => r \in seenUp
    BY <2>1 DEF HealthIsSeen
  <2>4. r \in steady => r \notin cooling
    BY <2>1 DEF HealthIsSeen
  <2>5. r \in eligible' /\ r \notin eligible => May(pass, r)
    BY <2>1, <2>3 DEF May, IsEligible, RouteAccessAllowed, AutoRoutable
  <2>6. Must(pass, r) => r \in eligible'
    BY <2>4 DEF Must, IsEligible, RouteAccessAllowed, AutoRoutable
  <2>7. \A x : (May(pass, x))' = May(pass, x) /\ (Must(pass, x))' = Must(pass, x)
    BY DEF May, Must, RoutesOfPass, AllowsUnknown
  <2>8. FilterIsRight'
    <3>1. left' \subseteq RoutesOfPass(pass, explicit)' /\ RoutesOfPass(pass, explicit)' = RoutesOfPass(pass, explicit)
      BY DEF FilterIsRight, RoutesOfPass
    <3>2. \A x \in eligible' : May(pass, x)
      BY <2>5 DEF FilterIsRight
    <3>3. \A x \in Route : Must(pass, x) => x \in left' \cup eligible'
      BY <2>6 DEF FilterIsRight
    <3>4. pass \in {"explicit", "unknownExplicit"} => explicit # NoModel
      BY DEF FilterIsRight
    <3> QED BY <2>7, <3>1, <3>2, <3>3, <3>4 DEF FilterIsRight
  <2>9. ResultIsRight'
    BY <2>1, EmptyResult DEF ResultIsRight
  <2> QED BY <2>2, <2>8, <2>9 DEF HealthIsSeen, NormalIsSound, NormalIsComplete, Usable,
            UnknownIsSound, UnknownIsComplete, Elements
<1> QED BY <1>2, <1>3

----------------------------------------------------------------------------
(* The ends of the passes. *)

\* The routes of every pass are of the pool or of the explicit model.
LEMMA RoutesOfPassType ==
    ASSUME TypeOK, NEW p, NEW model
    PROVE  RoutesOfPass(p, model) \in SUBSET Route
BY DEF RoutesOfPass, TypeOK

\* What a finished Filter has let through.
LEMMA FilteredFacts ==
    ASSUME IInv, NEW p \in Passing, Filtered(p)
    PROVE  /\ eligible \in SUBSET Route /\ IsFiniteSet(eligible)
           /\ \A r \in eligible : May(p, r)
           /\ \A r \in Route : Must(p, r) => r \in eligible
           /\ p \in {"explicit", "unknownExplicit"} => explicit # NoModel
BY FiniteRouteSets DEF IInv, TypeOK, FilterIsRight, Filtered

LEMMA ExplicitHasNoneStep == ASSUME IInv, ExplicitHasNone PROVE IInv'
<1>1. /\ pass = "explicit" /\ pass' = "done" /\ eligible = {} /\ left = {}
      /\ UNCHANGED <<offered, pool, pin, cooling, explicit, capable, left, eligible, normal,
                    unknown, result, steady, seenUp>>
  BY DEF ExplicitHasNone, Filtered, config, request, history
<1>2. result = <<>>
  BY <1>1 DEF IInv, ResultIsRight
<1>3. \A r \in Usable : ModelOf[r] # explicit
  <2>1. \A r \in Route : ~Must("explicit", r)
    BY <1>1, FilteredFacts DEF Passing, ExplicitHasNone
  <2> QED BY <2>1 DEF Usable, Must, RoutesOfPass, IInv, TypeOK
<1>4. explicit # NoModel
  BY <1>1, FilteredFacts DEF Passing, ExplicitHasNone
<1>5. NothingUsableIsLost' /\ ListIsSound'
  BY <1>1, <1>2, <1>3, <1>4 DEF NothingUsableIsLost, Usable, ListIsSound, InCandidateListForm,
     ExplicitComesFirst, AccessIsRespected, ListedCouldServe, Elements
<1>6. normal = <<>>
  BY <1>1 DEF IInv, NormalIsSound
<1> QED BY <1>1, <1>5, <1>6 DEF IInv, TypeOK, Pass, HealthIsSeen, FilterIsRight, Passing,
          NormalIsSound, NormalIsComplete, Usable, UnknownIsSound, UnknownIsComplete,
          ResultIsRight

\* The step from one pass to the next keeps everything but the lists.
LEMMA NextPassStep ==
    ASSUME IInv, NEW p \in Passing, Begin(p, explicit),
           pass # "idle", pass # "done", p # "explicit",
           UNCHANGED <<config, cooling, request, result, history>>,
           normal' \in Seq(Route), unknown' \in SUBSET Finding,
           p = "unknownExplicit" => explicit # NoModel,
           NormalIsSound', NormalIsComplete', UnknownIsSound', UnknownIsComplete'
    PROVE  IInv'
<1> USE DEF config, request, history
<1>1. pass' = p /\ left' = RoutesOfPass(p, explicit) /\ eligible' = {}
  BY DEF Begin
<1>2. TypeOK'
  BY <1>1, RoutesOfPassType DEF IInv, TypeOK, Pass, Passing
<1>3. HealthIsSeen'
  BY DEF IInv, HealthIsSeen
<1>4. FilterIsRight'
  BY BeginIsRight
<1>5. ResultIsRight'
  BY <1>1, EmptyResult DEF IInv, ResultIsRight, Passing
<1> QED BY <1>2, <1>3, <1>4, <1>5 DEF IInv

LEMMA RankExplicitStep == ASSUME IInv, RankExplicit PROVE IInv'
<1>1. /\ pass = "explicit" /\ Begin("pool", explicit) /\ pass' = "pool"
      /\ eligible # {} /\ normal' \in Rankings(eligible)
      /\ UNCHANGED <<config, cooling, request, unknown, result, history>>
      /\ UNCHANGED <<offered, pool, explicit, capable, unknown, steady, seenUp>>
  BY DEF RankExplicit, Filtered, Begin, config, request, history
<1>2. /\ eligible \in SUBSET Route /\ IsFiniteSet(eligible)
      /\ \A r \in eligible : May("explicit", r)
      /\ \A r \in Route : Must("explicit", r) => r \in eligible
      /\ explicit # NoModel
  BY FilteredFacts DEF RankExplicit, Passing
<1>3. /\ normal' \in Seq(eligible) /\ Elements(normal') = eligible
      /\ \A i, j \in DOMAIN normal' : normal'[i] = normal'[j] => i = j
  BY <1>1, <1>2, RankingFacts
<1>4. normal' \in Seq(Route) /\ normal' # <<>> /\ \A i \in DOMAIN normal' : normal'[i] \in eligible
  BY <1>1, <1>2, <1>3 DEF Elements
<1>5. NormalIsSound'
  <2>1. \A r \in eligible :
           /\ r \in offered \cap capable \cap seenUp
           /\ ModelOf[r] = explicit
           /\ AllowsAutomaticRouting(r) \/ AutoRoutable(Access[r])
    BY <1>2 DEF May, RoutesOfPass, AllowsUnknown
  <2>2. 1 \in DOMAIN normal'
    BY <1>4
  <2> QED BY <1>1, <1>3, <1>4, <2>1, <2>2 DEF NormalIsSound
<1>6. NormalIsComplete'
  <2>1. \A r \in Usable : ModelOf[r] = explicit => Must("explicit", r) /\ r \in Route
    BY DEF Usable, Must, RoutesOfPass, IInv, TypeOK
  <2>2. Usable' = Usable
    BY <1>1 DEF Usable
  <2>3. Elements(normal)' = eligible
    BY <1>3 DEF Elements
  <2> QED BY <1>1, <1>2, <2>1, <2>2, <2>3 DEF NormalIsComplete
<1>7. UnknownIsSound' /\ UnknownIsComplete' /\ unknown' \in SUBSET Finding
  BY <1>1 DEF IInv, UnknownIsSound, UnknownIsComplete, TypeOK
<1> QED BY <1>1, <1>4, <1>5, <1>6, <1>7, NextPassStep DEF Passing

\* The pool's pass adds the pool's routes that are not listed yet.
LEMMA RankPoolStep == ASSUME IInv, RankPool PROVE IInv'
<1> DEFINE next == IF explicit = NoModel THEN "unknownPool" ELSE "unknownExplicit"
<1>1. PICK f \in Rankings(eligible \ Elements(normal)) : normal' = normal \o f
  BY DEF RankPool
<1>2. /\ pass = "pool" /\ Begin(next, explicit) /\ pass' = next
      /\ UNCHANGED <<config, cooling, request, unknown, result, history>>
      /\ UNCHANGED <<offered, pool, explicit, capable, unknown, steady, seenUp>>
  BY DEF RankPool, Filtered, Begin, config, request, history
<1>3. /\ eligible \in SUBSET Route
      /\ \A r \in eligible : May("pool", r)
      /\ \A r \in Route : Must("pool", r) => r \in eligible
  BY FilteredFacts DEF RankPool, Passing
<1>4. /\ f \in Seq(eligible \ Elements(normal))
      /\ Elements(f) = eligible \ Elements(normal)
      /\ \A i, j \in DOMAIN f : f[i] = f[j] => i = j
  BY <1>3, RankingFacts, FiniteRouteSets
<1>5. normal \in Seq(Route) /\ f \in Seq(Route)
  BY <1>3, <1>4 DEF IInv, TypeOK
<1>6. /\ normal' \in Seq(Route)
      /\ DOMAIN normal' = 1..(Len(normal) + Len(f))
      /\ \A i \in DOMAIN normal' :
            \/ i \in DOMAIN normal /\ normal'[i] = normal[i]
            \/ i > Len(normal) /\ i - Len(normal) \in DOMAIN f /\ normal'[i] = f[i - Len(normal)]
      /\ \A i \in DOMAIN normal : i \in DOMAIN normal' /\ normal'[i] = normal[i]
      /\ \A i \in DOMAIN f : /\ i + Len(normal) \in DOMAIN normal'
                             /\ normal'[i + Len(normal)] = f[i]
  BY <1>1, <1>5, Concatenation
<1>7. Elements(normal)' = Elements(normal) \cup eligible
  <2>1. Elements(normal') = Elements(normal) \cup Elements(f)
    BY <1>6 DEF Elements
  <2>2. Elements(normal') = Elements(normal)'
    BY DEF Elements
  <2> QED BY <1>4, <2>1, <2>2
<1>8. NormalIsSound'
  <2>1. ASSUME NEW i \in DOMAIN normal', NEW j \in DOMAIN normal', normal'[i] = normal'[j]
        PROVE  i = j
    <3>1. \A k \in DOMAIN normal, l \in DOMAIN f : normal[k] # f[l]
      BY <1>4 DEF Elements
    <3>2. CASE i \in DOMAIN normal /\ normal'[i] = normal[i]
      <4>1. j \in DOMAIN normal /\ normal'[j] = normal[j]
        BY <1>6, <2>1, <3>1, <3>2
      <4>2. normal[i] = normal[j]
        BY <2>1, <3>2, <4>1
      <4> QED BY <3>2, <4>1, <4>2 DEF IInv, NormalIsSound
    <3>3. CASE i - Len(normal) \in DOMAIN f /\ normal'[i] = f[i - Len(normal)]
      <4>1. j - Len(normal) \in DOMAIN f /\ normal'[j] = f[j - Len(normal)]
        BY <1>6, <2>1, <3>1, <3>3
      <4>2. i - Len(normal) = j - Len(normal)
        BY <1>4, <2>1, <3>3, <4>1
      <4> QED BY <1>5, <1>6, <4>2
    <3> QED BY <1>6, <3>2, <3>3
  <2>2. \A r \in eligible :
           /\ r \in offered \cap capable \cap seenUp /\ ModelOf[r] \in pool \cup {explicit}
           /\ AllowsAutomaticRouting(r) \/ AutoRoutable(Access[r])
    BY <1>3 DEF May, RoutesOfPass, AllowsUnknown
  <2>3. \A r \in Elements(normal) :
           /\ r \in offered \cap capable \cap seenUp /\ ModelOf[r] \in pool \cup {explicit}
           /\ AllowsAutomaticRouting(r) \/ AutoRoutable(Access[r])
    BY DEF IInv, NormalIsSound, Elements
  <2>4. \A i \in DOMAIN normal' : normal'[i] \in Elements(normal) \cup eligible
    BY <1>7 DEF Elements
  <2>5. explicit # NoModel => normal # <<>> /\ ModelOf[normal[1]] = explicit
    BY <1>2 DEF IInv, NormalIsSound
  <2>6. normal # <<>> => normal' # <<>> /\ normal'[1] = normal[1]
    BY <1>5, <1>6
  <2> QED BY <1>2, <2>1, <2>2, <2>3, <2>4, <2>5, <2>6 DEF NormalIsSound
<1>9. NormalIsComplete'
  <2>1. \A r \in Usable : ModelOf[r] \in pool => r \in eligible
    BY <1>3 DEF Usable, Must, RoutesOfPass, IInv, TypeOK
  <2>2. Usable' = Usable
    BY <1>2 DEF Usable
  <2>3. \A r \in Usable : explicit # NoModel /\ ModelOf[r] = explicit => r \in Elements(normal)
    BY <1>2 DEF IInv, NormalIsComplete
  <2> QED BY <1>2, <1>7, <2>1, <2>2, <2>3 DEF NormalIsComplete
<1>10. UnknownIsSound' /\ UnknownIsComplete' /\ unknown' \in SUBSET Finding
  BY <1>2 DEF IInv, UnknownIsSound, UnknownIsComplete, TypeOK
<1>11. next \in Passing /\ next # "explicit" /\ (next = "unknownExplicit" => explicit # NoModel)
  BY DEF Passing
<1> HIDE DEF next
<1> QED BY <1>2, <1>6, <1>8, <1>9, <1>10, <1>11, NextPassStep

LEMMA EndUnknownExplicitStep == ASSUME IInv, EndUnknownExplicit PROVE IInv'
<1>1. /\ pass = "unknownExplicit" /\ Begin("unknownPool", explicit) /\ pass' = "unknownPool"
      /\ unknown' = FindUnknown("unknownExplicit")
      /\ UNCHANGED <<config, cooling, request, normal, result, history>>
      /\ UNCHANGED <<offered, pool, explicit, capable, normal, steady, seenUp>>
  BY DEF EndUnknownExplicit, Filtered, Begin, config, request, history
<1>2. /\ eligible \in SUBSET Route
      /\ \A r \in eligible : May("unknownExplicit", r)
      /\ \A r \in Route : Must("unknownExplicit", r) => r \in eligible
  BY FilteredFacts DEF EndUnknownExplicit, Passing
<1>3. unknown' \in SUBSET Finding
  BY <1>1, <1>2 DEF FindUnknown, Finding
<1>4. UnknownIsSound'
  <2>1. \A r \in eligible : r \in offered \cap capable \cap seenUp /\ ModelOf[r] = explicit
    BY <1>2 DEF May, RoutesOfPass
  <2>2. \A found \in unknown' : found.route \in eligible
    BY <1>1 DEF FindUnknown
  <2> QED BY <1>1, <2>1, <2>2 DEF UnknownIsSound
<1>5. UnknownIsComplete'
  <2>1. ASSUME NEW r \in offered \cap capable \cap steady, Access[r] = "Unknown", ModelOf[r] = explicit
        PROVE  \E found \in unknown' : found.route = r
    <3>1. r \in eligible
      BY <1>2, <2>1 DEF Must, RoutesOfPass, AllowsUnknown, IInv, TypeOK
    <3>2. [route |-> r, pass |-> "unknownExplicit"] \in unknown'
      BY <1>1, <3>1 DEF FindUnknown
    <3> QED BY <3>2
  <2> QED BY <1>1, <2>1 DEF UnknownIsComplete
<1>6. NormalIsSound' /\ normal' \in Seq(Route)
  BY <1>1 DEF IInv, NormalIsSound, TypeOK
<1>7. NormalIsComplete'
  BY <1>1 DEF IInv, NormalIsComplete, Usable, Elements
<1> QED BY <1>1, <1>3, <1>4, <1>5, <1>6, <1>7, NextPassStep DEF Passing

\* The last pass: the list is put together.
LEMMA EndUnknownPoolStep == ASSUME IInv, EndUnknownPool PROVE IInv'
<1> DEFINE all == unknown \cup FindUnknown("unknownPool")
<1>1. PICK f \in Rankings({found \in all : IsAlternate(found)}) :
             result' = OrdinaryCandidates(normal) \o Alternates(f)
  BY DEF EndUnknownPool
<1>2. /\ pass = "unknownPool" /\ pass' = "done"
      /\ UNCHANGED <<offered, pool, pin, cooling, explicit, capable, left, eligible, normal,
                    unknown, steady, seenUp>>
  BY DEF EndUnknownPool, Filtered, config, request, history
<1>3. /\ eligible \in SUBSET Route
      /\ \A r \in eligible : May("unknownPool", r)
      /\ \A r \in Route : Must("unknownPool", r) => r \in eligible
  BY FilteredFacts DEF EndUnknownPool, Passing
<1>4. all \in SUBSET Finding
  BY <1>3 DEF FindUnknown, Finding, IInv, TypeOK
<1>5. \A found \in all : /\ found.route \in offered \cap capable \cap seenUp
                         /\ ModelOf[found.route] \in pool \cup {explicit}
  <2>1. \A r \in eligible : r \in offered \cap capable \cap seenUp /\ ModelOf[r] \in pool
    BY <1>3 DEF May, RoutesOfPass
  <2>2. \A found \in FindUnknown("unknownPool") : found.route \in eligible
    BY DEF FindUnknown
  <2> QED BY <2>1, <2>2 DEF IInv, UnknownIsSound
<1>6. /\ f \in Seq(Finding) /\ Elements(f) = {found \in all : IsAlternate(found)}
  <2>1. {found \in all : IsAlternate(found)} \in SUBSET Finding
    BY <1>4
  <2>2. IsFiniteSet({found \in all : IsAlternate(found)})
    BY <2>1, FiniteRouteSets
  <2>3. /\ f \in Seq({found \in all : IsAlternate(found)})
        /\ Elements(f) = {found \in all : IsAlternate(found)}
    BY <2>2, RankingFacts
  <2> QED BY <2>1, <2>3
<1>7. normal \in Seq(Route)
  BY DEF IInv, TypeOK
<1>8. /\ result' \in Seq(Candidate)
      /\ \A i \in DOMAIN result' :
            \/ i \in DOMAIN normal /\ result'[i] = Ordinary(normal[i])
            \/ /\ i > Len(normal) /\ i - Len(normal) \in DOMAIN f
               /\ result'[i] = Alternate(f[i - Len(normal)].route)
      /\ \A i \in DOMAIN normal : i \in DOMAIN result' /\ result'[i] = Ordinary(normal[i])
      /\ \A i \in DOMAIN f : /\ i + Len(normal) \in DOMAIN result'
                             /\ result'[i + Len(normal)] = Alternate(f[i].route)
  BY <1>1, <1>6, <1>7, BuiltList
<1>9. \A i \in DOMAIN f : f[i] \in all /\ IsAlternate(f[i])
  BY <1>6 DEF Elements
<1>10. \A c \in Elements(result') :
          \/ \E i \in DOMAIN normal : c = Ordinary(normal[i])
          \/ \E i \in DOMAIN f : c = Alternate(f[i].route)
  BY <1>8 DEF Elements
<1>11. \A r : /\ Ordinary(r).route = r /\ ~Ordinary(r).fallbackOnly
              /\ Alternate(r).route = r /\ Alternate(r).fallbackOnly
  BY DEF Ordinary, Alternate
<1>12. ListIsSound'
  <2>1. InCandidateListForm(result')
    <3>1. \A i, j \in DOMAIN normal : normal[i] = normal[j] => i = j
      BY DEF IInv, NormalIsSound
    <3>2. \A i \in DOMAIN f : /\ f[i].route \notin Elements(normal)
                              /\ ModelOf[f[i].route] \in ModelsOf(normal)
      BY <1>9 DEF IsAlternate
    <3> QED BY <1>1, <1>6, <1>7, <3>1, <3>2, BuiltListForm
  <2>2. explicit # NoModel /\ result' # <<>> =>
           ~result'[1].fallbackOnly /\ ModelOf[result'[1].route] = explicit
    <3>1. explicit # NoModel => 1 \in DOMAIN normal /\ ModelOf[normal[1]] = explicit
      BY <1>2, <1>7 DEF IInv, NormalIsSound
    <3> QED BY <1>8, <1>11, <3>1
  <2>3. \A c \in Elements(result') :
           IF c.fallbackOnly THEN Access[c.route] = "Unknown"
           ELSE AllowsAutomaticRouting(c.route) \/ AutoRoutable(Access[c.route])
    BY <1>9, <1>10, <1>11 DEF IsAlternate, IInv, NormalIsSound
  <2>4. \A c \in Elements(result') :
           /\ c.route \in offered \cap capable \cap seenUp
           /\ ModelOf[c.route] \in pool \cup {explicit}
    BY <1>5, <1>9, <1>10, <1>11 DEF IInv, NormalIsSound
  <2>5. Elements(result)' = Elements(result')
    BY DEF Elements
  <2> QED BY <1>2, <2>1, <2>2, <2>3, <2>4, <2>5 DEF ListIsSound, InCandidateListForm,
            ExplicitComesFirst, AccessIsRespected, ListedCouldServe
<1>13. \A r \in Elements(normal) : Ordinary(r) \in Elements(result')
  BY <1>8 DEF Elements
<1>14. \A r \in Usable : ModelOf[r] \in pool \cup {explicit} => Ordinary(r) \in Elements(result')
  <2>1. Usable \subseteq Route /\ \A r \in Route : ModelOf[r] # NoModel
    BY RoutesAssumption DEF Usable, IInv, TypeOK
  <2>2. \A r \in Usable : ModelOf[r] \in pool \cup {explicit} => r \in Elements(normal)
    BY <1>2, <2>1 DEF IInv, NormalIsComplete
  <2> QED BY <1>13, <2>2
<1>15. ASSUME NEW r \in offered \cap capable \cap steady, Access[r] = "Unknown",
              ModelOf[r] \in pool \cup {explicit},
              NEW c \in Elements(result'), ~c.fallbackOnly, ModelOf[c.route] = ModelOf[r]
       PROVE  \E d \in Elements(result') : d.route = r
  <2>1. r \in Route /\ ModelOf[r] # NoModel
    BY RoutesAssumption DEF IInv, TypeOK
  <2>2. CASE r \in Elements(normal)
    BY <1>11, <1>13, <2>2
  <2>3. CASE r \notin Elements(normal)
    <3>1. PICK found \in all : found.route = r
      <4>1. CASE ModelOf[r] \in pool
        <5>1. r \in eligible
          BY <1>3, <1>15, <2>1, <4>1 DEF Must, RoutesOfPass, AllowsUnknown
        <5>2. [route |-> r, pass |-> "unknownPool"] \in all
          BY <5>1 DEF FindUnknown
        <5> QED BY <5>2
      <4>2. CASE ModelOf[r] \notin pool
        BY <1>2, <1>15, <2>1, <4>2 DEF IInv, UnknownIsComplete
      <4> QED BY <4>1, <4>2
    <3>2. ModelOf[r] \in ModelsOf(normal)
      BY <1>10, <1>11, <1>15 DEF ModelsOf
    <3>3. found \in Elements(f)
      BY <1>6, <1>15, <2>3, <3>1, <3>2 DEF IsAlternate
    <3>4. PICK i \in DOMAIN f : f[i] = found
      BY <3>3 DEF Elements
    <3> QED BY <1>8, <1>11, <3>1, <3>4 DEF Elements
  <2> QED BY <2>2, <2>3
<1>16. NothingUsableIsLost'
  <2>1. Usable' = Usable /\ Elements(result)' = Elements(result')
    BY <1>2 DEF Usable, Elements
  <2>2. explicit # NoModel => result' # <<>>
    <3>1. explicit # NoModel => 1 \in DOMAIN normal
      BY <1>2, <1>7 DEF IInv, NormalIsSound
    <3> QED BY <1>8, <3>1
  <2> QED BY <1>2, <1>14, <1>15, <2>1, <2>2 DEF NothingUsableIsLost, ListedOrdinary, Listed
<1>17. ResultIsRight'
  BY <1>2, <1>12, <1>16 DEF ResultIsRight
<1>18. TypeOK'
  BY <1>2, <1>8 DEF IInv, TypeOK, Pass
<1> QED BY <1>2, <1>17, <1>18 DEF IInv, HealthIsSeen, FilterIsRight, Passing, NormalIsSound,
          NormalIsComplete, Usable, Elements, UnknownIsSound, UnknownIsComplete

----------------------------------------------------------------------------
LEMMA NextIsRight == IInv /\ [Next]_vars => IInv'
<1> SUFFICES ASSUME IInv, [Next]_vars PROVE IInv'
  OBVIOUS
<1>1. CASE UNCHANGED vars
  BY <1>1 DEF vars, config, request, work, history, IInv, TypeOK, HealthIsSeen, FilterIsRight,
     May, Must, RoutesOfPass, NormalIsSound, NormalIsComplete, Usable, UnknownIsSound,
     UnknownIsComplete, ResultIsRight, ListIsSound, InCandidateListForm, ExplicitComesFirst,
     AccessIsRespected, ListedCouldServe, Elements, NothingUsableIsLost, ListedOrdinary, Listed
<1> QED BY <1>1, HealthStep, ReconfigureStep, ResolveStep, ExamineStep, ExplicitHasNoneStep,
          RankExplicitStep, RankPoolStep, EndUnknownExplicitStep, EndUnknownPoolStep,
          ReturnStep DEF Next

\* The strengthening that the theorems below follow from: what each pass has
\* found and what it owes, for the health seen since the request began.
THEOREM SelectionInvariant == Spec => []IInv
<1>1. Init => IInv
  BY InitIsRight
<1>2. IInv /\ [Next]_vars => IInv'
  BY NextIsRight
<1> QED BY <1>1, <1>2, PTL DEF Spec

\* Whatever the catalog, the pool, the pin and the health changes between the
\* passes, the returned list is what the attempts assume and the request may use.
THEOREM SelectionIsSound == Spec => []ListIsSound
<1>1. IInv => ListIsSound
  BY DEF IInv, ResultIsRight
<1> QED BY <1>1, SelectionInvariant, PTL

\* No route that stayed available and may serve the request is missing from it.
THEOREM SelectionIsComplete == Spec => []NothingUsableIsLost
<1>1. IInv => NothingUsableIsLost
  BY DEF IInv, ResultIsRight
<1> QED BY <1>1, SelectionInvariant, PTL
============================================================================
