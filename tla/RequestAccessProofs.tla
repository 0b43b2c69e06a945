------------------------- MODULE RequestAccessProofs -------------------------
(***************************************************************************)
(* What holds of the gate and of the sessions for any number of requests   *)
(* and tokens, any limits, and any number of failures of Redis.            *)
(***************************************************************************)
EXTENDS RequestAccess, FiniteSetTheorems, TLAPS

-----------------------------------------------------------------------------
(* The inductive invariant. *)

(* The type invariant without the bounds of the counter, which follow from
   what is counted. *)
Shape ==
    /\ counter \in [there : BOOLEAN, value : Int, expires : BOOLEAN]
    /\ counter.expires => counter.there
    /\ window \in 0..RateLimit
    /\ request \in [Requests -> Underway \cup {Free}]
    /\ session \in [Tokens -> {"none", "live", "over"}]
    /\ faults \in 0..FaultBound
    /\ unseen \in Nat /\ leaked \in Nat /\ issued \in Nat

(* Who is at the gate came to generate. *)
AtGate ==
    \A r \in Requests :
        request[r].pc \in {"arrived", "counted", "excess", "leaving"} => Gated(r)

HasPlace(r) == request[r].pc \in Places /\ Gated(r)

(* In flight, or told already that it may be. *)
Admitted(r) ==
    /\ HasPlace(r)
    /\ request[r].pc # "excess"
    /\ request[r].pc = "counted" => ~request[r].over

AdmittedSet == {r \in Requests : Admitted(r)}

(* A place is counted, or it is one of the unseen; a count is a place, or it
   is one of the leaked.  Whoever was admitted found a count below the limit. *)
Counted ==
    /\ counter.value <= Cardinality(Holding) + leaked
    /\ Cardinality(Holding) <= counter.value + unseen
    /\ Cardinality(AdmittedSet) <= MaxInflight + unseen
    /\ leaked <= faults
    /\ unseen <= Cardinality(Requests) + faults

(* A session that existed never comes back to life: what a logout-all has
   not found it will not find later. *)
Reached ==
    \A r \in Requests : request[r].pc # "free" =>
        /\ \A t \in request[r].known : session[t] # "none"
        /\ request[r].pc = "revoking" => request[r].known \cap Live \subseteq request[r].reach
        /\ request[r].pc = "done" => request[r].known \cap Live = {}

Inv == Shape /\ AtGate /\ Counted /\ Reached /\ SessionsAccounted

-----------------------------------------------------------------------------
(* What a step does to the requests. *)
Others(r) == \A q \in Requests \ {r} : request'[q] = request[q]

Typed == request' \in [Requests -> Underway \cup {Free}]

Moved(r, pc, over) ==
    /\ request'[r] \in Underway
    /\ request'[r].pc = pc /\ request'[r].over = over
    /\ request'[r].kind = request[r].kind
    /\ request'[r].known = request[r].known
    /\ request'[r].reach = request[r].reach

LEMMA RequestTypes ==
    ASSUME Shape, NEW r \in Requests
    PROVE  /\ request[r] = Free \/ request[r] \in Underway
           /\ Free.pc = "free"
           /\ request[r].pc # "free" => request[r] \in Underway
  BY DEF Shape, Free

LEMMA StepNames ==
    {"arrived", "counted", "excess", "inside", "authenticated", "revoking", "handling", "leaving",
     "done"} = Steps
  BY DEF Steps

LEMMA GoEffect ==
    ASSUME Shape, NEW r \in Requests, request[r].pc # "free", NEW pc \in Steps, Go(r, pc)
    PROVE  Typed /\ Others(r) /\ Moved(r, pc, request[r].over)
  <1> DEFINE row == [request[r] EXCEPT !.pc = pc]
  <1>1. request \in [Requests -> Underway \cup {Free}] /\ request[r] \in Underway
    BY RequestTypes DEF Shape
  <1>2. /\ row \in Underway /\ row.pc = pc /\ row.over = request[r].over
        /\ row.kind = request[r].kind /\ row.known = request[r].known
        /\ row.reach = request[r].reach
    BY <1>1 DEF Underway
  <1>3. request' = [request EXCEPT ![r] = row]
    BY DEF Go
  <1> HIDE DEF row
  <1>4. QED
    BY <1>1, <1>2, <1>3 DEF Typed, Others, Moved

LEMMA EnterEffect ==
    ASSUME Shape, NEW r \in Requests, request[r].pc # "free", NEW pc \in Steps, Enter(r, pc)
    PROVE  Typed /\ Others(r) /\ Moved(r, pc, FALSE)
  <1> DEFINE row == [request[r] EXCEPT !.pc = pc, !.over = FALSE]
  <1>1. request \in [Requests -> Underway \cup {Free}] /\ request[r] \in Underway
    BY RequestTypes DEF Shape
  <1>2. /\ row \in Underway /\ row.pc = pc /\ row.over = FALSE
        /\ row.kind = request[r].kind /\ row.known = request[r].known
        /\ row.reach = request[r].reach
    BY <1>1 DEF Underway
  <1>3. request' = [request EXCEPT ![r] = row]
    BY <1>1 DEF Enter
  <1> HIDE DEF row
  <1>4. QED
    BY <1>1, <1>2, <1>3 DEF Typed, Others, Moved

LEMMA EndEffect ==
    ASSUME Shape, NEW r \in Requests, End(r)
    PROVE  Typed /\ Others(r) /\ request'[r] = Free
  BY DEF Shape, End, Typed, Others

LEMMA LeaveEffect ==
    ASSUME Shape, NEW r \in Requests, request[r].pc # "free", Leave(r)
    PROVE  /\ Typed /\ Others(r)
           /\ \/ Gated(r) /\ Moved(r, "leaving", request[r].over)
              \/ ~Gated(r) /\ request'[r] = Free
  BY GoEffect, EndEffect, StepNames DEF Leave

-----------------------------------------------------------------------------
(* What a step does to the places and their counter. *)
Stays(r) ==
    /\ counter'.value = counter.value /\ UNCHANGED <<unseen, leaked>>
    /\ HasPlace(r)' = HasPlace(r) /\ Admitted(r)' = Admitted(r)

IsCounted(r) ==
    /\ counter'.value = counter.value + 1 /\ UNCHANGED <<unseen, leaked>>
    /\ ~HasPlace(r) /\ HasPlace(r)'
    /\ Admitted(r)' => counter.value + 1 <= MaxInflight

IsLetIn(r) ==
    /\ counter'.value = counter.value \/ (~HasPlace(r) /\ counter'.value = counter.value + 1)
    /\ unseen' = unseen + 1 /\ UNCHANGED leaked /\ faults' = faults + 1
    /\ HasPlace(r)' /\ Admitted(r)'

GivesBack(r) ==
    /\ counter'.value = counter.value - 1 /\ UNCHANGED <<unseen, leaked>>
    /\ HasPlace(r) /\ ~HasPlace(r)' /\ ~Admitted(r)'

Leaks(r) ==
    /\ counter'.value = counter.value /\ UNCHANGED unseen
    /\ leaked' = leaked + 1 /\ faults' = faults + 1
    /\ HasPlace(r) /\ ~HasPlace(r)' /\ ~Admitted(r)'

KeyIsLost ==
    /\ UNCHANGED <<request, faults>>
    /\ counter'.value = 0 /\ unseen' = Cardinality(Holding) /\ leaked' = 0

GateStep ==
    \/ \E r \in Requests :
          /\ Others(r) /\ faults <= faults'
          /\ Stays(r) \/ IsCounted(r) \/ IsLetIn(r) \/ GivesBack(r) \/ Leaks(r)
    \/ KeyIsLost
    \/ UNCHANGED <<request, unseen, leaked, faults>> /\ counter'.value = counter.value

(* What a step does to the sessions, and to who wants them to end. *)
SessionStep ==
    /\ \A t \in Tokens : /\ session[t] # "none" => session'[t] # "none"
                         /\ session[t] = "over" => session'[t] = "over"
    /\ \A r \in Requests :
          \/ request'[r] \in {request[r], Free}
          \/ /\ request'[r].pc \notin {"revoking", "done"}
             /\ \A t \in request'[r].known : t \in Tokens /\ session[t] # "none"
          \/ /\ request'[r].pc = "revoking" /\ UNCHANGED session
             /\ request[r].pc # "free" /\ request'[r].known = request[r].known
             /\ request'[r].reach = Live
          \/ /\ request[r].pc = "revoking" /\ request'[r].pc = "done"
             /\ request'[r].known = request[r].known
             /\ \A t \in request[r].reach : session'[t] = "over"

AccountStep ==
    \/ Cardinality(Live') <= Cardinality(Live) /\ issued' = issued
    \/ Cardinality(Live') <= Cardinality(Live) + 1 /\ issued' = issued + 1

Step == Shape' /\ AtGate' /\ GateStep /\ SessionStep /\ AccountStep

LEMMA HoldingFinite ==
    /\ IsFiniteSet(Holding) /\ Cardinality(Holding) \in Nat
    /\ Cardinality(Holding) <= Cardinality(Requests)
    /\ Cardinality(Requests) \in Nat
    /\ IsFiniteSet(AdmittedSet) /\ Cardinality(AdmittedSet) \in Nat
    /\ Cardinality(AdmittedSet) <= Cardinality(Holding)
    /\ Holding = {r \in Requests : HasPlace(r)}
  <1>1. Holding = {r \in Requests : HasPlace(r)}
    BY DEF Holding, HasPlace
  <1>2. Holding \in SUBSET Requests /\ AdmittedSet \in SUBSET Holding
    BY <1>1 DEF AdmittedSet, Admitted
  <1>3. IsFiniteSet(Requests) /\ Cardinality(Requests) \in Nat
    BY AccessAssumption, FS_CardinalityType
  <1>4. /\ IsFiniteSet(Holding) /\ Cardinality(Holding) <= Cardinality(Requests)
    BY <1>2, <1>3, FS_Subset
  <1>5. IsFiniteSet(AdmittedSet) /\ Cardinality(AdmittedSet) <= Cardinality(Holding)
    BY <1>2, <1>4, FS_Subset
  <1>6. QED
    BY <1>1, <1>3, <1>4, <1>5, FS_CardinalityType

(* One request enters or leaves a set of requests, and the others stay. *)
LEMMA OneMember ==
    ASSUME NEW S, NEW T, NEW r, IsFiniteSet(S), S \ {r} = T \ {r}
    PROVE  /\ IsFiniteSet(T) /\ Cardinality(S) \in Nat /\ Cardinality(T) \in Nat
           /\ (r \in S <=> r \in T) => Cardinality(T) = Cardinality(S)
           /\ r \in S /\ r \notin T => Cardinality(T) = Cardinality(S) - 1
           /\ r \notin S /\ r \in T => Cardinality(T) = Cardinality(S) + 1
  <1>1. Cardinality(S) \in Nat
    BY FS_CardinalityType
  <1>2. CASE r \in S <=> r \in T
    <2>1. S = T
      BY <1>2
    <2>2. QED
      BY <1>1, <1>2, <2>1
  <1>3. CASE r \in S /\ r \notin T
    <2>1. T = S \ {r}
      BY <1>3
    <2>2. IsFiniteSet(T) /\ Cardinality(T) = Cardinality(S) - 1
      BY <1>3, <2>1, FS_RemoveElement
    <2>3. QED
      BY <1>1, <1>3, <2>2, FS_CardinalityType
  <1>4. CASE r \notin S /\ r \in T
    <2>1. T = S \cup {r}
      BY <1>4
    <2>2. IsFiniteSet(T) /\ Cardinality(T) = Cardinality(S) + 1
      BY <1>4, <2>1, FS_AddElement
    <2>3. QED
      BY <1>1, <1>4, <2>2, FS_CardinalityType
  <1>5. QED
    BY <1>2, <1>3, <1>4

LEMMA CountsMove ==
    ASSUME NEW r \in Requests, Others(r)
    PROVE  /\ HasPlace(r)' = HasPlace(r) => Cardinality(Holding') = Cardinality(Holding)
           /\ HasPlace(r) /\ ~HasPlace(r)' => Cardinality(Holding') = Cardinality(Holding) - 1
           /\ ~HasPlace(r) /\ HasPlace(r)' => Cardinality(Holding') = Cardinality(Holding) + 1
           /\ Admitted(r)' = Admitted(r) => Cardinality(AdmittedSet') = Cardinality(AdmittedSet)
           /\ Cardinality(AdmittedSet') <= Cardinality(AdmittedSet) + 1
           /\ ~Admitted(r)' => Cardinality(AdmittedSet') <= Cardinality(AdmittedSet)
           /\ Cardinality(Holding') \in Nat /\ Cardinality(AdmittedSet') \in Nat
  <1>1. /\ Holding = {q \in Requests : HasPlace(q)} /\ Holding' = {q \in Requests : HasPlace(q)'}
        /\ AdmittedSet = {q \in Requests : Admitted(q)}
        /\ AdmittedSet' = {q \in Requests : Admitted(q)'}
    BY DEF Holding, AdmittedSet, HasPlace
  <1>2. \A q \in Requests \ {r} : HasPlace(q)' = HasPlace(q) /\ Admitted(q)' = Admitted(q)
    BY DEF Others, HasPlace, Admitted, Gated
  <1>3. /\ Holding \ {r} = Holding' \ {r} /\ (r \in Holding <=> HasPlace(r))
        /\ (r \in Holding' <=> HasPlace(r)')
    BY <1>1, <1>2
  <1>4. /\ AdmittedSet \ {r} = AdmittedSet' \ {r} /\ (r \in AdmittedSet <=> Admitted(r))
        /\ (r \in AdmittedSet' <=> Admitted(r)')
    BY <1>1, <1>2
  <1>5. /\ Cardinality(Holding') \in Nat
        /\ (r \in Holding <=> r \in Holding') => Cardinality(Holding') = Cardinality(Holding)
        /\ r \in Holding /\ r \notin Holding' => Cardinality(Holding') = Cardinality(Holding) - 1
        /\ r \notin Holding /\ r \in Holding' => Cardinality(Holding') = Cardinality(Holding) + 1
    BY <1>3, HoldingFinite, OneMember
  <1>6. /\ Cardinality(AdmittedSet') \in Nat /\ Cardinality(AdmittedSet) \in Nat
        /\ (r \in AdmittedSet <=> r \in AdmittedSet')
              => Cardinality(AdmittedSet') = Cardinality(AdmittedSet)
        /\ r \in AdmittedSet /\ r \notin AdmittedSet'
              => Cardinality(AdmittedSet') = Cardinality(AdmittedSet) - 1
        /\ r \notin AdmittedSet /\ r \in AdmittedSet'
              => Cardinality(AdmittedSet') = Cardinality(AdmittedSet) + 1
    BY <1>4, HoldingFinite, OneMember
  <1>7. HasPlace(r)' = HasPlace(r) <=> (HasPlace(r)' <=> HasPlace(r))
    BY DEF HasPlace
  <1>8. Admitted(r)' = Admitted(r) <=> (Admitted(r)' <=> Admitted(r))
    BY DEF Admitted, HasPlace
  <1>9. QED
    BY <1>3, <1>4, <1>5, <1>6, <1>7, <1>8

LEMMA CountedStep ==
    ASSUME Shape, Counted, Shape', GateStep
    PROVE  Counted'
  <1>1. /\ Cardinality(Holding) \in Nat /\ Cardinality(AdmittedSet) \in Nat
        /\ Cardinality(Requests) \in Nat
        /\ Cardinality(Holding) <= Cardinality(Requests)
        /\ Cardinality(AdmittedSet) <= Cardinality(Holding)
    BY HoldingFinite
  <1>2. /\ counter.value \in Int /\ counter'.value \in Int
        /\ {unseen, unseen', leaked, leaked', faults, faults', MaxInflight} \subseteq Nat
    BY AccessAssumption DEF Shape
  <1>3. /\ counter.value <= Cardinality(Holding) + leaked
        /\ Cardinality(Holding) <= counter.value + unseen
        /\ Cardinality(AdmittedSet) <= MaxInflight + unseen
        /\ leaked <= faults
        /\ unseen <= Cardinality(Requests) + faults
    BY DEF Counted
  <1>4. ASSUME NEW r \in Requests, Others(r), faults <= faults',
               Stays(r) \/ IsCounted(r) \/ IsLetIn(r) \/ GivesBack(r) \/ Leaks(r)
        PROVE  Counted'
    <2>1. /\ HasPlace(r)' = HasPlace(r) => Cardinality(Holding') = Cardinality(Holding)
          /\ HasPlace(r) /\ ~HasPlace(r)' => Cardinality(Holding') = Cardinality(Holding) - 1
          /\ ~HasPlace(r) /\ HasPlace(r)' => Cardinality(Holding') = Cardinality(Holding) + 1
          /\ Admitted(r)' = Admitted(r) => Cardinality(AdmittedSet') = Cardinality(AdmittedSet)
          /\ Cardinality(AdmittedSet') <= Cardinality(AdmittedSet) + 1
          /\ ~Admitted(r)' => Cardinality(AdmittedSet') <= Cardinality(AdmittedSet)
          /\ Cardinality(Holding') \in Nat /\ Cardinality(AdmittedSet') \in Nat
      BY <1>4, CountsMove
    <2>2. CASE Stays(r)
      <3>1. /\ Cardinality(Holding') = Cardinality(Holding)
            /\ Cardinality(AdmittedSet') = Cardinality(AdmittedSet)
            /\ counter'.value = counter.value /\ unseen' = unseen /\ leaked' = leaked
        BY <2>1, <2>2 DEF Stays
      <3>2. QED
        BY <1>1, <1>2, <1>3, <1>4, <3>1 DEF Counted
    <2>3. CASE IsCounted(r)
      <3>1. /\ Cardinality(Holding') = Cardinality(Holding) + 1
            /\ counter'.value = counter.value + 1 /\ unseen' = unseen /\ leaked' = leaked
        BY <2>1, <2>3 DEF IsCounted
      <3>2. Cardinality(AdmittedSet') <= MaxInflight + unseen
        <4>1. CASE Admitted(r)'
          <5>1. counter.value + 1 <= MaxInflight
            BY <2>3, <4>1 DEF IsCounted
          <5>2. QED
            BY <1>1, <1>2, <1>3, <2>1, <5>1
        <4>2. CASE ~Admitted(r)'
          BY <1>1, <1>2, <1>3, <2>1, <4>2
        <4>3. QED
          BY <4>1, <4>2
      <3>3. QED
        BY <1>1, <1>2, <1>3, <1>4, <3>1, <3>2 DEF Counted
    <2>4. CASE IsLetIn(r)
      <3>1. /\ unseen' = unseen + 1 /\ leaked' = leaked /\ faults' = faults + 1
            /\ \/ /\ counter'.value = counter.value
                  /\ Cardinality(Holding') \in {Cardinality(Holding), Cardinality(Holding) + 1}
               \/ /\ counter'.value = counter.value + 1
                  /\ Cardinality(Holding') = Cardinality(Holding) + 1
        <4>1. HasPlace(r) => HasPlace(r)' = HasPlace(r)
          BY <2>4 DEF IsLetIn, HasPlace
        <4>2. QED
          BY <2>1, <2>4, <4>1 DEF IsLetIn
      <3>2. QED
        BY <1>1, <1>2, <1>3, <2>1, <3>1 DEF Counted
    <2>5. CASE GivesBack(r)
      <3>1. /\ Cardinality(Holding') = Cardinality(Holding) - 1
            /\ Cardinality(AdmittedSet') <= Cardinality(AdmittedSet)
            /\ counter'.value = counter.value - 1 /\ unseen' = unseen /\ leaked' = leaked
        BY <2>1, <2>5 DEF GivesBack
      <3>2. QED
        BY <1>1, <1>2, <1>3, <1>4, <2>1, <3>1 DEF Counted
    <2>6. CASE Leaks(r)
      <3>1. /\ Cardinality(Holding') = Cardinality(Holding) - 1
            /\ Cardinality(AdmittedSet') <= Cardinality(AdmittedSet)
            /\ counter'.value = counter.value /\ unseen' = unseen
            /\ leaked' = leaked + 1 /\ faults' = faults + 1
        BY <2>1, <2>6 DEF Leaks
      <3>2. QED
        BY <1>1, <1>2, <1>3, <2>1, <3>1 DEF Counted
    <2>7. QED
      BY <1>4, <2>2, <2>3, <2>4, <2>5, <2>6
  <1>5. ASSUME UNCHANGED request
        PROVE  Holding' = Holding /\ AdmittedSet' = AdmittedSet
    BY <1>5 DEF Holding, AdmittedSet, Admitted, HasPlace, Gated
  <1>6. CASE KeyIsLost
    <2>1. /\ Holding' = Holding /\ AdmittedSet' = AdmittedSet
          /\ counter'.value = 0 /\ unseen' = Cardinality(Holding) /\ leaked' = 0
          /\ faults' = faults
      BY <1>5, <1>6 DEF KeyIsLost
    <2>2. QED
      BY <1>1, <1>2, <1>3, <2>1 DEF Counted
  <1>7. CASE UNCHANGED <<request, unseen, leaked, faults>> /\ counter'.value = counter.value
    BY <1>3, <1>5, <1>7 DEF Counted
  <1>8. QED
    BY <1>4, <1>6, <1>7 DEF GateStep

LEMMA ReachedStep ==
    ASSUME Shape, Reached, Shape', SessionStep
    PROVE  Reached'
  <1> SUFFICES ASSUME NEW r \in Requests, request'[r].pc # "free"
               PROVE  /\ \A t \in request'[r].known : session'[t] # "none"
                      /\ request'[r].pc = "revoking"
                            => request'[r].known \cap Live' \subseteq request'[r].reach
                      /\ request'[r].pc = "done" => request'[r].known \cap Live' = {}
    BY DEF Reached
  <1>1. Live = {t \in Tokens : session[t] = "live"} /\ Live' = {t \in Tokens : session'[t] = "live"}
    BY DEF Live
  <1>2. /\ \A t \in Tokens : /\ session[t] # "none" => session'[t] # "none"
                             /\ session[t] = "over" => session'[t] = "over"
        /\ \A t \in Tokens : session[t] \in {"none", "live", "over"}
    BY DEF SessionStep, Shape
  <1>3. request[r].pc # "free" =>
           /\ request[r].known \subseteq Tokens
           /\ \A t \in request[r].known : session[t] # "none"
           /\ request[r].pc = "revoking" => request[r].known \cap Live \subseteq request[r].reach
           /\ request[r].pc = "done" => request[r].known \cap Live = {}
    BY RequestTypes DEF Reached, Underway
  <1>4. CASE request'[r] = request[r]
    BY <1>1, <1>2, <1>3, <1>4
  <1>5. CASE /\ request'[r].pc \notin {"revoking", "done"}
             /\ \A t \in request'[r].known : t \in Tokens /\ session[t] # "none"
    BY <1>2, <1>5
  <1>6. CASE /\ request'[r].pc = "revoking" /\ UNCHANGED session
             /\ request[r].pc # "free" /\ request'[r].known = request[r].known
             /\ request'[r].reach = Live
    BY <1>1, <1>2, <1>3, <1>6
  <1>7. CASE /\ request[r].pc = "revoking" /\ request'[r].pc = "done"
             /\ request'[r].known = request[r].known
             /\ \A t \in request[r].reach : session'[t] = "over"
    BY <1>1, <1>2, <1>3, <1>7
  <1>8. request'[r] # Free
    BY DEF Free
  <1>9. QED
    BY <1>4, <1>5, <1>6, <1>7, <1>8 DEF SessionStep

LEMMA LiveFinite ==
    /\ IsFiniteSet(Live) /\ Cardinality(Live) \in Nat /\ Live \subseteq Tokens
    /\ IsFiniteSet(Live') /\ Cardinality(Live') \in Nat /\ Live' \subseteq Tokens
  <1>1. Live \in SUBSET Tokens /\ Live' \in SUBSET Tokens
    BY DEF Live
  <1>2. QED
    BY <1>1, FS_Subset, FS_CardinalityType, AccessAssumption

LEMMA StepKeepsInv == ASSUME Inv, Step PROVE Inv'
  <1>1. Counted' /\ Reached'
    BY CountedStep, ReachedStep DEF Inv, Step
  <1>2. SessionsAccounted'
    <2>1. /\ Cardinality(Live) \in Nat /\ Cardinality(Live') \in Nat /\ issued \in Nat
          /\ Cardinality(Live) <= issued
      BY LiveFinite DEF Inv, Shape, SessionsAccounted
    <2>2. QED
      BY <2>1 DEF Step, AccountStep, SessionsAccounted
  <1>3. QED
    BY <1>1, <1>2 DEF Inv, Step

-----------------------------------------------------------------------------
(* The gate. *)
LEMMA PlaceNames ==
    \A r \in Requests :
        /\ HasPlace(r) <=> /\ request[r].pc \in {"counted", "excess", "inside", "authenticated",
                                                 "handling", "leaving"}
                           /\ request[r].kind = "generate"
        /\ HasPlace(r)' <=> /\ request'[r].pc \in {"counted", "excess", "inside", "authenticated",
                                                   "handling", "leaving"}
                            /\ request'[r].kind = "generate"
        /\ Admitted(r) <=> /\ HasPlace(r) /\ request[r].pc # "excess"
                           /\ request[r].pc = "counted" => ~request[r].over
        /\ Admitted(r)' <=> /\ HasPlace(r)' /\ request'[r].pc # "excess"
                            /\ request'[r].pc = "counted" => ~request'[r].over
        /\ Gated(r) <=> request[r].kind = "generate"
        /\ Gated(r)' <=> request'[r].kind = "generate"
  BY DEF HasPlace, Admitted, Gated, Places

LEMMA AtGateMoves ==
    ASSUME AtGate, NEW r \in Requests, Others(r),
           request'[r].pc \in {"arrived", "counted", "excess", "leaving"} => Gated(r)'
    PROVE  AtGate'
  BY DEF AtGate, Others, Gated

LEMMA PlusEffect ==
    ASSUME Shape, NEW n \in {1, -1}, counter' = Plus(n)
    PROVE  /\ counter' \in [there : BOOLEAN, value : Int, expires : BOOLEAN]
           /\ counter'.expires => counter'.there
           /\ counter'.value = counter.value + n
  <1>1. counter \in [there : BOOLEAN, value : Int, expires : BOOLEAN] /\ counter.value + n \in Int
    BY DEF Shape
  <1>2. counter' = [counter EXCEPT !.there = TRUE, !.value = counter.value + n]
    BY <1>1 DEF Plus
  <1>3. QED
    BY <1>1, <1>2

LEMMA SameSessions ==
    ASSUME Inv, UNCHANGED <<session, issued>>, NEW r \in Requests, Others(r),
           \/ request'[r] = Free
           \/ /\ request[r].pc # "free" /\ request'[r].known = request[r].known
              /\ request'[r].pc \notin {"revoking", "done"}
    PROVE  SessionStep /\ AccountStep
  <1>1. Live' = Live
    BY DEF Live
  <1>2. AccountStep
    BY <1>1, LiveFinite DEF AccountStep
  <1>3. request[r].pc # "free" =>
           \A t \in request[r].known : t \in Tokens /\ session[t] # "none"
    BY RequestTypes DEF Inv, Reached, Underway
  <1>4. SessionStep
    BY <1>3 DEF SessionStep, Others
  <1>5. QED
    BY <1>2, <1>4

LEMMA IncrStep ==
    ASSUME Inv, NEW r \in Requests, Incr(r)
    PROVE  Step
  <1> DEFINE over == counter.value + 1 > MaxInflight
             row == [request[r] EXCEPT !.pc = "counted", !.over = over]
  <1>1. Shape /\ AtGate /\ request[r].pc = "arrived" /\ request[r] \in Underway /\ Gated(r)
    BY RequestTypes DEF Inv, Incr, At, AtGate
  <1>2. /\ row \in Underway /\ row.pc = "counted" /\ row.over = over
        /\ row.kind = request[r].kind /\ row.known = request[r].known
    <2>1. over \in BOOLEAN /\ "counted" \in Steps
      BY StepNames
    <2> HIDE DEF over
    <2>2. QED
      BY <1>1, <2>1 DEF Underway
  <1>3. request' = [request EXCEPT ![r] = row] /\ counter' = Plus(1)
        /\ UNCHANGED <<window, session, faults, unseen, leaked, issued>>
    BY DEF Incr, gateGhosts
  <1> HIDE DEF row
  <1>4. Typed /\ Others(r) /\ request'[r] = row
    BY <1>1, <1>2, <1>3 DEF Shape, Typed, Others
  <1>5. counter'.value = counter.value + 1 /\ Shape'
    BY <1>1, <1>3, <1>4, PlusEffect DEF Shape, Typed
  <1>6. IsCounted(r)
    <2>1. ~HasPlace(r) /\ HasPlace(r)' /\ (Admitted(r)' => ~over)
      BY <1>1, <1>2, <1>4, PlaceNames
    <2>2. ~over => counter.value + 1 <= MaxInflight
      BY <1>1, AccessAssumption DEF Shape
    <2>3. QED
      BY <1>3, <1>5, <2>1, <2>2 DEF IsCounted
  <1>7. GateStep
    BY <1>1, <1>3, <1>4, <1>6 DEF GateStep, Shape
  <1>8. SessionStep /\ AccountStep
    BY <1>1, <1>2, <1>3, <1>4, SameSessions
  <1>9. AtGate'
    BY <1>1, <1>2, <1>4, AtGateMoves, PlaceNames
  <1>10. QED
    BY <1>5, <1>7, <1>8, <1>9 DEF Step

LEMMA ExpireStep ==
    ASSUME Inv, NEW r \in Requests, Expire(r)
    PROVE  Step
  <1> DEFINE pc == IF request[r].over THEN "excess" ELSE "inside"
  <1>1. Shape /\ AtGate /\ request[r].pc = "counted" /\ request[r] \in Underway /\ Gated(r)
    BY RequestTypes DEF Inv, Expire, At, AtGate
  <1>2. Typed /\ Others(r) /\ Moved(r, pc, FALSE)
    <2>1. pc \in Steps
      BY StepNames
    <2>2. QED
      BY <1>1, <2>1, EnterEffect DEF Expire
  <1>3. UNCHANGED <<window, session, faults, unseen, leaked, issued>>
        /\ counter' = [counter EXCEPT !.expires = counter.there]
    BY DEF Expire, gateGhosts
  <1>4. /\ counter' \in [there : BOOLEAN, value : Int, expires : BOOLEAN]
        /\ counter'.expires => counter'.there
        /\ counter'.value = counter.value
    BY <1>1, <1>3 DEF Shape
  <1>5. Shape'
    BY <1>1, <1>2, <1>3, <1>4 DEF Shape, Typed
  <1>6. Stays(r)
    <2>1. request[r].over \in BOOLEAN
      BY <1>1 DEF Underway
    <2>2. HasPlace(r) /\ HasPlace(r)' /\ (Admitted(r) <=> ~request[r].over)
          /\ (Admitted(r)' <=> ~request[r].over)
      BY <1>1, <1>2, <2>1, PlaceNames DEF Moved
    <2>3. QED
      BY <1>3, <1>4, <2>2 DEF Stays, HasPlace, Admitted
  <1>7. GateStep
    BY <1>1, <1>2, <1>3, <1>6 DEF GateStep, Shape
  <1>8. SessionStep /\ AccountStep
    BY <1>1, <1>2, <1>3, SameSessions DEF Moved
  <1>9. AtGate'
    BY <1>1, <1>2, AtGateMoves, PlaceNames DEF Moved
  <1>10. QED
    BY <1>5, <1>7, <1>8, <1>9 DEF Step

LEMMA FaultEffect ==
    ASSUME Shape, Fault
    PROVE  faults' \in 0..FaultBound /\ faults' = faults + 1 /\ faults <= faults'
  BY AccessAssumption DEF Shape, Fault

LEMMA AcquireFailsStep ==
    ASSUME Inv, NEW r \in Requests, AcquireFails(r)
    PROVE  Step
  <1>1. Shape /\ AtGate /\ request[r].pc \in {"arrived", "counted"} /\ request[r] \in Underway
        /\ Gated(r)
    BY RequestTypes DEF Inv, AcquireFails, AtGate
  <1>2. Typed /\ Others(r) /\ Moved(r, "inside", FALSE)
    BY <1>1, StepNames, EnterEffect DEF AcquireFails
  <1>3. UNCHANGED <<window, session, leaked, issued>> /\ unseen' = unseen + 1 /\ Fault
        /\ \/ UNCHANGED counter
           \/ request[r].pc = "arrived" /\ counter' = Plus(1)
           \/ counter' = [counter EXCEPT !.expires = counter.there]
    BY DEF AcquireFails, At
  <1>4. /\ counter' \in [there : BOOLEAN, value : Int, expires : BOOLEAN]
        /\ counter'.expires => counter'.there
        /\ \/ counter'.value = counter.value
           \/ request[r].pc = "arrived" /\ counter'.value = counter.value + 1
    <2>1. CASE counter' = Plus(1) /\ request[r].pc = "arrived"
      BY <1>1, <2>1, PlusEffect
    <2>2. CASE counter' = counter \/ counter' = [counter EXCEPT !.expires = counter.there]
      BY <1>1, <2>2 DEF Shape
    <2>3. QED
      BY <1>3, <2>1, <2>2
  <1>5. faults' \in 0..FaultBound /\ faults' = faults + 1 /\ faults <= faults'
    BY <1>1, <1>3, FaultEffect
  <1>6. Shape'
    BY <1>1, <1>2, <1>3, <1>4, <1>5 DEF Shape, Typed
  <1>7. IsLetIn(r)
    <2>1. HasPlace(r)' /\ Admitted(r)' /\ (request[r].pc = "arrived" => ~HasPlace(r))
      BY <1>1, <1>2, PlaceNames DEF Moved
    <2>2. QED
      BY <1>3, <1>4, <1>5, <2>1 DEF IsLetIn
  <1>8. GateStep
    BY <1>2, <1>5, <1>7 DEF GateStep
  <1>9. SessionStep /\ AccountStep
    BY <1>1, <1>2, <1>3, SameSessions DEF Moved
  <1>10. AtGate'
    BY <1>1, <1>2, AtGateMoves, PlaceNames DEF Moved
  <1>11. QED
    BY <1>6, <1>8, <1>9, <1>10 DEF Step

LEMMA GivesBackStep ==
    ASSUME Inv, NEW r \in Requests, Refuse(r) \/ Release(r)
    PROVE  Step
  <1>1. Shape /\ AtGate /\ request[r].pc \in {"excess", "leaving"} /\ Gated(r)
    BY DEF Inv, Refuse, Release, At, AtGate
  <1>2. Typed /\ Others(r) /\ request'[r] = Free
    BY <1>1, EndEffect DEF Refuse, Release
  <1>3. counter' = Plus(-1) /\ UNCHANGED <<window, session, faults, unseen, leaked, issued>>
    BY DEF Refuse, Release, gateGhosts
  <1>4. /\ counter' \in [there : BOOLEAN, value : Int, expires : BOOLEAN]
        /\ counter'.expires => counter'.there
        /\ counter'.value = counter.value - 1
    <2>1. /\ counter' \in [there : BOOLEAN, value : Int, expires : BOOLEAN]
          /\ counter'.expires => counter'.there
          /\ counter'.value = counter.value + (-1)
      BY <1>1, <1>3, PlusEffect
    <2>2. QED
      BY <1>1, <2>1 DEF Shape
  <1>5. Shape'
    BY <1>1, <1>2, <1>3, <1>4 DEF Shape, Typed
  <1>6. HasPlace(r) /\ ~HasPlace(r)' /\ ~Admitted(r)'
    BY <1>1, <1>2, PlaceNames DEF Free
  <1>7. GateStep
    <2>1. GivesBack(r)
      BY <1>3, <1>4, <1>6 DEF GivesBack
    <2>2. QED
      BY <1>1, <1>2, <1>3, <2>1 DEF GateStep, Shape
  <1>8. SessionStep /\ AccountStep
    BY <1>2, <1>3, SameSessions
  <1>9. AtGate'
    BY <1>1, <1>2, AtGateMoves DEF Free
  <1>10. QED
    BY <1>5, <1>7, <1>8, <1>9 DEF Step

LEMMA ReleaseFailsStep ==
    ASSUME Inv, NEW r \in Requests, ReleaseFails(r)
    PROVE  Step
  <1>1. Shape /\ AtGate /\ request[r].pc \in {"excess", "leaving"} /\ Gated(r)
    BY DEF Inv, ReleaseFails, AtGate
  <1>2. Typed /\ Others(r) /\ request'[r] = Free
    BY <1>1, EndEffect DEF ReleaseFails
  <1>3. /\ UNCHANGED <<window, session, unseen, issued>> /\ Fault
        /\ \/ UNCHANGED counter /\ leaked' = leaked + 1
           \/ counter' = Plus(-1) /\ UNCHANGED leaked
    BY DEF ReleaseFails
  <1>4. /\ counter' \in [there : BOOLEAN, value : Int, expires : BOOLEAN]
        /\ counter'.expires => counter'.there
        /\ \/ counter'.value = counter.value /\ leaked' = leaked + 1
           \/ counter'.value = counter.value - 1 /\ leaked' = leaked
    <2>1. CASE counter' = Plus(-1) /\ UNCHANGED leaked
      <3>1. /\ counter' \in [there : BOOLEAN, value : Int, expires : BOOLEAN]
            /\ counter'.expires => counter'.there
            /\ counter'.value = counter.value + (-1)
        BY <1>1, <2>1, PlusEffect
      <3>2. QED
        BY <1>1, <2>1, <3>1 DEF Shape
    <2>2. CASE UNCHANGED counter /\ leaked' = leaked + 1
      BY <1>1, <2>2 DEF Shape
    <2>3. QED
      BY <1>3, <2>1, <2>2
  <1>5. faults' \in 0..FaultBound /\ faults' = faults + 1 /\ faults <= faults'
    BY <1>1, <1>3, FaultEffect
  <1>6. Shape'
    BY <1>1, <1>2, <1>3, <1>4, <1>5 DEF Shape, Typed
  <1>7. HasPlace(r) /\ ~HasPlace(r)' /\ ~Admitted(r)'
    BY <1>1, <1>2, PlaceNames DEF Free
  <1>8. GateStep
    <2>1. GivesBack(r) \/ Leaks(r)
      BY <1>3, <1>4, <1>5, <1>7 DEF GivesBack, Leaks
    <2>2. QED
      BY <1>2, <1>5, <2>1 DEF GateStep
  <1>9. SessionStep /\ AccountStep
    BY <1>2, <1>3, SameSessions
  <1>10. AtGate'
    BY <1>1, <1>2, AtGateMoves DEF Free
  <1>11. QED
    BY <1>6, <1>8, <1>9, <1>10 DEF Step

LEMMA DiesStep ==
    ASSUME Inv, NEW r \in Requests, Dies(r)
    PROVE  Step
  <1>1. Shape /\ AtGate
    BY DEF Inv
  <1>2. Typed /\ Others(r) /\ request'[r] = Free
    BY <1>1, EndEffect DEF Dies
  <1>3. /\ UNCHANGED <<counter, window, session, unseen, issued>> /\ Fault
        /\ leaked' = IF HasPlace(r) THEN leaked + 1 ELSE leaked
    BY HoldingFinite DEF Dies
  <1>4. faults' \in 0..FaultBound /\ faults' = faults + 1 /\ faults <= faults'
    BY <1>1, <1>3, FaultEffect
  <1>5. Shape'
    BY <1>1, <1>2, <1>3, <1>4 DEF Shape, Typed
  <1>6. ~HasPlace(r)' /\ ~Admitted(r)' /\ (Admitted(r) => HasPlace(r))
    BY <1>2, PlaceNames DEF Free
  <1>7. GateStep
    <2>1. CASE HasPlace(r)
      BY <1>2, <1>3, <1>4, <1>6, <2>1 DEF GateStep, Leaks
    <2>2. CASE ~HasPlace(r)
      BY <1>2, <1>3, <1>4, <1>6, <2>2 DEF GateStep, Stays, HasPlace, Admitted
    <2>3. QED
      BY <2>1, <2>2
  <1>8. SessionStep /\ AccountStep
    BY <1>2, <1>3, SameSessions
  <1>9. AtGate'
    BY <1>1, <1>2, AtGateMoves DEF Free
  <1>10. QED
    BY <1>5, <1>7, <1>8, <1>9 DEF Step

(* Steps that change no request. *)
LEMMA QuietSessions ==
    ASSUME Inv, UNCHANGED <<request, session, issued>>
    PROVE  SessionStep /\ AccountStep /\ AtGate'
  <1>1. Live' = Live
    BY DEF Live
  <1>2. AccountStep
    BY <1>1, LiveFinite DEF AccountStep
  <1>3. QED
    BY <1>2 DEF SessionStep, Inv, AtGate, Gated

LEMMA KeyExpiresStep ==
    ASSUME Inv, KeyExpires
    PROVE  Step
  <1>1. /\ UNCHANGED <<window, request, session, faults, issued>>
        /\ counter' = NoKey /\ unseen' = Cardinality(Holding) /\ leaked' = 0
    BY DEF KeyExpires
  <1>2. Shape'
    BY <1>1, HoldingFinite DEF Inv, Shape, NoKey
  <1>3. GateStep
    BY <1>1 DEF GateStep, KeyIsLost, NoKey
  <1>4. QED
    BY <1>1, <1>2, <1>3, QuietSessions DEF Step

LEMMA WindowTurnsStep ==
    ASSUME Inv, WindowTurns \/ UNCHANGED vars
    PROVE  Step
  <1>1. /\ UNCHANGED <<counter, request, session, faults, unseen, leaked, issued>>
        /\ window' \in {0, window}
    BY DEF WindowTurns, vars, gateGhosts
  <1>2. Shape'
    BY <1>1, AccessAssumption DEF Inv, Shape
  <1>3. GateStep
    BY <1>1 DEF GateStep
  <1>4. QED
    BY <1>1, <1>2, <1>3, QuietSessions DEF Step

-----------------------------------------------------------------------------
(* Requests that pass on, the gate's counter untouched. *)
LEMMA Passes ==
    ASSUME Inv, NEW r \in Requests, Others(r), UNCHANGED <<counter, unseen, leaked>>,
           faults <= faults',
           HasPlace(r)' <=> HasPlace(r), Admitted(r)' <=> Admitted(r)
    PROVE  GateStep
  BY DEF GateStep, Stays, HasPlace, Admitted

LEMMA ArriveStep ==
    ASSUME Inv, NEW r \in Requests, NEW k \in Kinds, NEW t \in Tokens \cup {0}, Arrive(r, k, t)
    PROVE  Step
  <1> DEFINE pc == CASE k = "generate" -> "arrived" [] k = "login" -> "authenticated"
                     [] OTHER -> "inside"
             row == [pc |-> pc, kind |-> k, token |-> t, over |-> FALSE, known |-> {}, reach |-> {}]
  <1>1. Shape /\ AtGate /\ request[r].pc = "free"
    BY DEF Inv, Arrive, At
  <1>2. /\ request' = [request EXCEPT ![r] = row]
        /\ UNCHANGED <<counter, window, session, faults, unseen, leaked, issued>>
    BY DEF Arrive, gateGhosts
  <1>3. /\ pc \in {"arrived", "authenticated", "inside"} /\ (pc = "arrived" => k = "generate")
        /\ pc # "arrived" => k # "generate"
    OBVIOUS
  <1> HIDE DEF pc
  <1>4. /\ row \in Underway /\ row.pc = pc /\ row.kind = k /\ row.known = {}
    BY <1>3, StepNames DEF Underway
  <1> HIDE DEF row
  <1>5. Typed /\ Others(r) /\ request'[r] = row
    BY <1>1, <1>2, <1>4 DEF Shape, Typed, Others
  <1>6. Shape'
    BY <1>1, <1>2, <1>5 DEF Shape, Typed
  <1>7. GateStep
    <2>1. ~HasPlace(r) /\ ~Admitted(r) /\ ~HasPlace(r)' /\ ~Admitted(r)'
      BY <1>1, <1>3, <1>4, <1>5, PlaceNames
    <2>2. faults <= faults'
      BY <1>1, <1>2 DEF Shape
    <2>3. QED
      BY <1>2, <1>5, <2>1, <2>2, Passes
  <1>8. AtGate'
    BY <1>1, <1>3, <1>4, <1>5, AtGateMoves, PlaceNames
  <1>9. AccountStep
    BY <1>2, LiveFinite DEF AccountStep, Live
  <1>10. SessionStep
    BY <1>2, <1>3, <1>4, <1>5 DEF SessionStep, Others
  <1>11. QED
    BY <1>6, <1>7, <1>8, <1>9, <1>10 DEF Step

(* Leaving keeps the place of a request that has one. *)
LEMMA LeavesStep ==
    ASSUME Inv, NEW r \in Requests, request[r].pc \in {"inside", "authenticated", "handling"},
           Leave(r), UNCHANGED <<counter, window, session, gateGhosts, issued>>
    PROVE  Step
  <1>1. Shape /\ AtGate
    BY DEF Inv
  <1>2. /\ Typed /\ Others(r)
        /\ \/ Gated(r) /\ Moved(r, "leaving", request[r].over)
           \/ ~Gated(r) /\ request'[r] = Free
    BY <1>1, LeaveEffect
  <1>3. UNCHANGED <<counter, window, session, faults, unseen, leaked, issued>>
    BY DEF gateGhosts
  <1>4. Shape'
    BY <1>1, <1>2, <1>3 DEF Shape, Typed
  <1>5. GateStep
    <2>1. (HasPlace(r)' <=> HasPlace(r)) /\ (Admitted(r)' <=> Admitted(r))
      BY <1>2, PlaceNames DEF Moved, Free
    <2>2. faults <= faults'
      BY <1>1, <1>3 DEF Shape
    <2>3. QED
      BY <1>2, <1>3, <2>1, <2>2, Passes
  <1>6. AtGate'
    BY <1>1, <1>2, AtGateMoves, PlaceNames DEF Moved, Free
  <1>7. SessionStep /\ AccountStep
    BY <1>2, <1>3, SameSessions DEF Moved
  <1>8. QED
    BY <1>4, <1>5, <1>6, <1>7 DEF Step

LEMMA AuthenticateStep ==
    ASSUME Inv, NEW r \in Requests, Authenticate(r)
    PROVE  Step
  <1>1. Shape /\ AtGate /\ request[r].pc = "inside" /\ request[r] \in Underway
    BY RequestTypes DEF Inv, Authenticate, At
  <1>2. CASE Leave(r)
    BY <1>1, <1>2, LeavesStep DEF Authenticate
  <1> DEFINE token == IF Gated(r) THEN 0 ELSE request[r].token
             known == IF request[r].kind = "logout_all"
                      THEN {t \in Tokens : session[t] # "none"} ELSE request[r].known
             row == [request[r] EXCEPT !.pc = "authenticated", !.token = token, !.known = known]
  <1>3. CASE request' = [request EXCEPT ![r] = row]
    <2>1. /\ row \in Underway /\ row.pc = "authenticated" /\ row.over = request[r].over
          /\ row.kind = request[r].kind /\ row.known = known
      <3>1. token \in Tokens \cup {0} /\ known \in SUBSET Tokens
        BY <1>1 DEF Underway
      <3> HIDE DEF token, known
      <3>2. QED
        BY <1>1, <3>1, StepNames DEF Underway
    <2>2. \A t \in known : t \in Tokens /\ session[t] # "none"
      <3>1. \A t \in request[r].known : t \in Tokens /\ session[t] # "none"
        BY <1>1 DEF Inv, Reached, Underway
      <3>2. QED
        BY <3>1
    <2> HIDE DEF row, known
    <2>3. Typed /\ Others(r) /\ request'[r] = row
      BY <1>1, <1>3, <2>1 DEF Shape, Typed, Others
    <2>4. UNCHANGED <<counter, window, session, faults, unseen, leaked, issued>>
      BY DEF Authenticate, gateGhosts
    <2>5. Shape'
      BY <1>1, <2>3, <2>4 DEF Shape, Typed
    <2>6. GateStep
      <3>1. (HasPlace(r)' <=> HasPlace(r)) /\ (Admitted(r)' <=> Admitted(r))
        BY <1>1, <2>1, <2>3, PlaceNames
      <3>2. faults <= faults'
        BY <1>1, <2>4 DEF Shape
      <3>3. QED
        BY <2>3, <2>4, <3>1, <3>2, Passes
    <2>7. AtGate'
      BY <1>1, <2>1, <2>3, AtGateMoves, PlaceNames
    <2>8. AccountStep
      BY <2>4, LiveFinite DEF AccountStep, Live
    <2>9. SessionStep
      BY <2>1, <2>2, <2>3, <2>4 DEF SessionStep, Others
    <2>10. QED
      BY <2>5, <2>6, <2>7, <2>8, <2>9 DEF Step
  <1>4. QED
    BY <1>2, <1>3 DEF Authenticate, Token

(* The rate is checked, or the check fails open, and the handler runs. *)
LEMMA HandlingStep ==
    ASSUME Inv, NEW r \in Requests, request[r].pc = "authenticated", Gated(r), Go(r, "handling"),
           window' \in 0..RateLimit, faults' \in 0..FaultBound, faults <= faults',
           UNCHANGED <<counter, session, unseen, leaked, issued>>
    PROVE  Step
  <1>1. Shape /\ AtGate
    BY DEF Inv
  <1>2. Typed /\ Others(r) /\ Moved(r, "handling", request[r].over)
    BY <1>1, GoEffect, StepNames
  <1>3. Shape'
    BY <1>1, <1>2 DEF Shape, Typed
  <1>4. (HasPlace(r)' <=> HasPlace(r)) /\ (Admitted(r)' <=> Admitted(r))
    BY <1>2, PlaceNames DEF Moved
  <1>5. GateStep
    BY <1>2, <1>4, Passes
  <1>6. AtGate'
    BY <1>1, <1>2, AtGateMoves DEF Moved
  <1>7. SessionStep /\ AccountStep
    BY <1>2, SameSessions DEF Moved
  <1>8. QED
    BY <1>3, <1>5, <1>6, <1>7 DEF Step

LEMMA CheckRateStep ==
    ASSUME Inv, NEW r \in Requests, CheckRate(r) \/ CheckRateFails(r)
    PROVE  Step
  <1>1. Shape /\ request[r].pc = "authenticated" /\ Gated(r)
    BY DEF Inv, CheckRate, CheckRateFails, At
  <1>2. CASE CheckRate(r) /\ window = RateLimit
    BY <1>1, <1>2, LeavesStep DEF CheckRate
  <1>3. CASE CheckRate(r) /\ window # RateLimit
    <2>1. /\ Go(r, "handling") /\ window' \in 0..RateLimit
          /\ UNCHANGED <<counter, session, unseen, leaked, issued, faults>>
      BY <1>1, <1>3, AccessAssumption DEF CheckRate, gateGhosts, Shape
    <2>2. faults' \in 0..FaultBound /\ faults <= faults'
      BY <1>1, <2>1, AccessAssumption DEF Shape
    <2>3. QED
      BY <1>1, <2>1, <2>2, HandlingStep
  <1>4. CASE CheckRateFails(r)
    <2>1. faults' \in 0..FaultBound /\ faults <= faults'
      BY <1>1, <1>4, FaultEffect DEF CheckRateFails
    <2>2. window' \in 0..RateLimit
      BY <1>1, <1>4, AccessAssumption DEF CheckRateFails, Shape
    <2>3. QED
      BY <1>1, <1>4, <2>1, <2>2, HandlingStep DEF CheckRateFails
  <1>5. QED
    BY <1>2, <1>3, <1>4

LEMMA HandledStep ==
    ASSUME Inv, NEW r \in Requests, Handled(r)
    PROVE  Step
  BY LeavesStep DEF Handled, At

-----------------------------------------------------------------------------
(* The sessions. *)
LEMMA LeastToken ==
    ASSUME NEW C \in SUBSET Tokens, C # {}
    PROVE  \E t \in C : \A u \in Tokens : u < t => u \notin C
  <1> DEFINE Smaller(t) == {u \in C : u < t}
             Sets == {Smaller(t) : t \in C}
  <1>1. IsFiniteSet(C) /\ Tokens \subseteq Nat
    <2>1. Cardinality(Tokens) \in Nat
      BY AccessAssumption, FS_CardinalityType
    <2>2. QED
      BY <2>1, AccessAssumption, FS_Subset
  <1>2. IsWellFoundedOn(StrictSubsetOrdering(C), FiniteSubsetsOf(C))
    BY FS_StrictSubsetOrderingWellFounded
  <1>3. FiniteSubsetsOf(C) = SUBSET C
    BY <1>1, FS_FiniteSubsetsOfFinite
  <1>4. Sets \subseteq SUBSET C /\ Sets # {}
    OBVIOUS
  <1>5. PICK Y \in Sets : \A Z \in Sets : <<Z, Y>> \notin StrictSubsetOrdering(C)
    <2> HIDE DEF Sets
    <2>1. QED
      BY <1>2, <1>3, <1>4, WFMin
  <1>6. PICK t \in C : Y = Smaller(t)
    BY <1>5
  <1>7. ASSUME NEW u \in C, u < t
        PROVE  FALSE
    <2>1. (\A v \in C : v < u => v < t) /\ ~(u < u)
      BY <1>1, <1>7
    <2>2. Smaller(u) \subseteq Smaller(t) /\ u \in Smaller(t) /\ u \notin Smaller(u)
      BY <1>7, <2>1
    <2>3. <<Smaller(u), Smaller(t)>> \in StrictSubsetOrdering(C)
      BY <2>2 DEF StrictSubsetOrdering
    <2>4. QED
      BY <1>5, <1>6, <2>3
  <1>8. QED
    BY <1>7

(* While there is room, a new token is one that was never used. *)
LEMMA NewTokenIsNew ==
    ASSUME Room
    PROVE  NewToken \in Tokens /\ session[NewToken] = "none"
  <1> DEFINE C == {t \in Tokens : session[t] = "none"}
  <1>1. C \in SUBSET Tokens /\ C # {}
    BY DEF Room
  <1>2. \E t \in C : \A u \in Tokens : u < t => u \notin C
    <2> HIDE DEF C
    <2>1. QED
      BY <1>1, LeastToken
  <1>3. \E t \in Tokens : session[t] = "none" /\ \A u \in Tokens : u < t => session[u] # "none"
    BY <1>2
  <1>4. QED
    BY <1>3 DEF NewToken

(* A request that has no place at the gate ends, or goes on, with the gate
   as it was. *)
LEMMA AsideStep ==
    ASSUME Inv, NEW r \in Requests, request[r].pc # "free", SessionOnly, Others(r), Typed,
           ~Gated(r),
           request'[r] = Free \/ (/\ request'[r].pc \in {"revoking", "done"}
                                  /\ request'[r].kind = request[r].kind),
           session' \in [Tokens -> {"none", "live", "over"}], issued' \in Nat
    PROVE  Shape' /\ AtGate' /\ GateStep
  <1>1. Shape /\ AtGate /\ UNCHANGED <<counter, window, faults, unseen, leaked>>
    BY DEF Inv, SessionOnly, gateGhosts
  <1>2. Shape'
    BY <1>1 DEF Shape, Typed
  <1>3. AtGate'
    BY <1>1, AtGateMoves DEF Free
  <1>4. (HasPlace(r)' <=> HasPlace(r)) /\ (Admitted(r)' <=> Admitted(r))
    BY PlaceNames DEF Free
  <1>5. faults <= faults'
    BY <1>1 DEF Shape
  <1>6. QED
    BY <1>1, <1>2, <1>3, <1>4, <1>5, Passes

(* When rows only end, no session comes back and none is added. *)
LEMMA EndingSessions ==
    ASSUME Inv, session' \in [Tokens -> {"none", "live", "over"}],
           \A t \in Tokens : session'[t] \in {session[t], "over"},
           issued' = issued
    PROVE  /\ AccountStep
           /\ \A t \in Tokens : /\ session[t] # "none" => session'[t] # "none"
                                /\ session[t] = "over" => session'[t] = "over"
  <1>1. Live' \in SUBSET Live
    BY DEF Live
  <1>2. Cardinality(Live') <= Cardinality(Live)
    BY <1>1, LiveFinite, FS_Subset
  <1>3. QED
    BY <1>2 DEF AccountStep

LEMMA LoginStep ==
    ASSUME Inv, NEW r \in Requests, Login(r)
    PROVE  Step
  <1>1. /\ Shape /\ request[r].pc = "authenticated" /\ request[r].kind = "login" /\ ~Gated(r)
        /\ SessionOnly /\ issued' = issued + 1 /\ issued \in Nat
    BY DEF Inv, Shape, Login, At, Gated
  <1>2. PICK n \in Tokens : n = NewToken /\ session[n] = "none"
    BY NewTokenIsNew DEF Login
  <1>3. session' = [session EXCEPT ![n] = "live"]
    BY <1>2 DEF Login
  <1>4. Typed /\ Others(r) /\ request'[r] = Free
    BY <1>1, EndEffect DEF Login
  <1>5. session' \in [Tokens -> {"none", "live", "over"}]
    BY <1>1, <1>3 DEF Shape
  <1>6. Shape' /\ AtGate' /\ GateStep
    BY <1>1, <1>4, <1>5, AsideStep
  <1>7. AccountStep
    <2>1. Live' = Live \cup {n} /\ n \notin Live
      BY <1>1, <1>2, <1>3 DEF Live, Shape
    <2>2. Cardinality(Live') = Cardinality(Live) + 1
      BY <2>1, LiveFinite, FS_AddElement
    <2>3. QED
      BY <1>1, <2>2, LiveFinite DEF AccountStep
  <1>8. SessionStep
    BY <1>1, <1>2, <1>3, <1>4 DEF SessionStep, Others, Shape
  <1>9. QED
    BY <1>6, <1>7, <1>8 DEF Step

LEMMA RefreshStep ==
    ASSUME Inv, NEW r \in Requests, Refresh(r)
    PROVE  Step
  <1>1. /\ Shape /\ request[r].pc = "authenticated" /\ request[r].kind = "refresh" /\ ~Gated(r)
        /\ SessionOnly /\ issued \in Nat /\ request[r] \in Underway
    BY RequestTypes DEF Inv, Shape, Refresh, At, Gated
  <1>2. PICK n \in Tokens : n = NewToken /\ session[n] = "none"
    BY NewTokenIsNew DEF Refresh
  <1>3. PICK old \in Tokens \cup {0} : old = Token(r)
    BY <1>1 DEF Token, Underway
  <1>4. session' = [[t \in Tokens |-> IF t = old THEN "over" ELSE session[t]] EXCEPT ![n] = "live"]
    BY <1>2, <1>3 DEF Refresh, Revoked
  <1>5. issued' = IF old \in Live THEN issued ELSE issued + 1
    BY <1>3 DEF Refresh
  <1>6. Typed /\ Others(r) /\ request'[r] = Free
    BY <1>1, EndEffect DEF Refresh
  <1>7. session' \in [Tokens -> {"none", "live", "over"}]
    BY <1>1, <1>4 DEF Shape
  <1>8. /\ \A t \in Tokens \ {n} : session'[t] = IF t = old THEN "over" ELSE session[t]
        /\ session'[n] = "live"
    BY <1>4
  <1>9. Shape' /\ AtGate' /\ GateStep
    <2>1. issued' \in Nat
      BY <1>1, <1>5
    <2>2. QED
      BY <1>1, <1>6, <1>7, <2>1, AsideStep
  <1>10. AccountStep
    <2>1. /\ Live' = (Live \ {old}) \cup {n} /\ n \notin Live
      BY <1>1, <1>2, <1>8 DEF Live, Shape
    <2>2. Cardinality(Live') = Cardinality(Live \ {old}) + 1 /\ IsFiniteSet(Live \ {old})
      BY <2>1, LiveFinite, FS_AddElement, FS_RemoveElement
    <2>3. CASE old \in Live
      <3>1. Cardinality(Live \ {old}) = Cardinality(Live) - 1
        BY <2>3, LiveFinite, FS_RemoveElement
      <3>2. QED
        BY <1>5, <2>2, <2>3, <3>1, LiveFinite DEF AccountStep
    <2>4. CASE old \notin Live
      <3>1. Live \ {old} = Live
        BY <2>4
      <3>2. QED
        BY <1>5, <2>2, <2>4, <3>1, LiveFinite DEF AccountStep
    <2>5. QED
      BY <2>3, <2>4
  <1>11. SessionStep
    BY <1>1, <1>2, <1>6, <1>8 DEF SessionStep, Others, Shape
  <1>12. QED
    BY <1>9, <1>10, <1>11 DEF Step

LEMMA LogoutStep ==
    ASSUME Inv, NEW r \in Requests, Logout(r)
    PROVE  Step
  <1>1. /\ Shape /\ request[r].pc = "authenticated" /\ request[r].kind = "logout" /\ ~Gated(r)
        /\ SessionOnly /\ issued' = issued /\ issued \in Nat
    BY DEF Inv, Shape, Logout, At, Gated
  <1>2. Typed /\ Others(r) /\ request'[r] = Free
    BY <1>1, EndEffect DEF Logout
  <1>3. \A t \in Tokens : session'[t] \in {session[t], "over"}
    BY DEF Logout, Revoked
  <1>4. session' \in [Tokens -> {"none", "live", "over"}]
    BY <1>1 DEF Logout, Revoked, Shape
  <1>5. Shape' /\ AtGate' /\ GateStep
    BY <1>1, <1>2, <1>4, AsideStep
  <1>6. /\ AccountStep
        /\ \A t \in Tokens : /\ session[t] # "none" => session'[t] # "none"
                             /\ session[t] = "over" => session'[t] = "over"
    BY <1>1, <1>3, <1>4, EndingSessions
  <1>7. SessionStep
    BY <1>2, <1>6 DEF SessionStep, Others
  <1>8. QED
    BY <1>5, <1>6, <1>7 DEF Step

LEMMA LogoutAllStep ==
    ASSUME Inv, NEW r \in Requests, LogoutAll(r)
    PROVE  Step
  <1> DEFINE row == [request[r] EXCEPT !.pc = "revoking", !.reach = Live]
  <1>1. /\ Shape /\ request[r].pc = "authenticated" /\ request[r].kind = "logout_all" /\ ~Gated(r)
        /\ SessionOnly /\ session' = session /\ issued' = issued /\ issued \in Nat
        /\ request[r] \in Underway
    BY RequestTypes DEF Inv, Shape, LogoutAll, At, Gated
  <1>2. /\ row \in Underway /\ row.pc = "revoking" /\ row.kind = request[r].kind
        /\ row.known = request[r].known /\ row.reach = Live
    BY <1>1, StepNames, LiveFinite DEF Underway
  <1>3. request' = [request EXCEPT ![r] = row]
    BY DEF LogoutAll
  <1> HIDE DEF row
  <1>4. Typed /\ Others(r) /\ request'[r] = row
    BY <1>1, <1>2, <1>3 DEF Shape, Typed, Others
  <1>5. session' \in [Tokens -> {"none", "live", "over"}]
    BY <1>1 DEF Shape
  <1>6. Shape' /\ AtGate' /\ GateStep
    BY <1>1, <1>2, <1>4, <1>5, AsideStep
  <1>7. AccountStep
    BY <1>1, LiveFinite DEF AccountStep, Live
  <1>8. SessionStep
    BY <1>1, <1>2, <1>4 DEF SessionStep, Others
  <1>9. QED
    BY <1>6, <1>7, <1>8 DEF Step

(* The gate counts neither who revokes nor who was answered. *)
LEMMA CommitLogoutAllStep ==
    ASSUME Inv, NEW r \in Requests, CommitLogoutAll(r)
    PROVE  Step
  <1>1. /\ Shape /\ request[r].pc = "revoking" /\ request[r] \in Underway
        /\ SessionOnly /\ issued' = issued /\ issued \in Nat
    BY RequestTypes DEF Inv, Shape, CommitLogoutAll, At
  <1>2. Typed /\ Others(r) /\ Moved(r, "done", request[r].over)
    BY <1>1, StepNames, GoEffect DEF CommitLogoutAll
  <1>3. session' = [t \in Tokens |-> IF t \in request[r].reach THEN "over" ELSE session[t]]
        /\ request[r].reach \subseteq Tokens
    BY <1>1 DEF CommitLogoutAll, Underway
  <1>4. /\ \A t \in Tokens : session'[t] \in {session[t], "over"}
        /\ \A t \in request[r].reach : session'[t] = "over"
    BY <1>3
  <1>5. session' \in [Tokens -> {"none", "live", "over"}]
    BY <1>1, <1>3 DEF Shape
  <1>6. Shape'
    BY <1>1, <1>2, <1>5 DEF SessionOnly, gateGhosts, Shape, Typed
  <1>7. AtGate'
    BY <1>2, AtGateMoves DEF Inv, Moved
  <1>8. GateStep
    <2>1. (HasPlace(r)' <=> HasPlace(r)) /\ (Admitted(r)' <=> Admitted(r))
      BY <1>1, <1>2, PlaceNames DEF Moved
    <2>2. UNCHANGED <<counter, unseen, leaked>> /\ faults <= faults'
      BY <1>1 DEF SessionOnly, gateGhosts, Shape
    <2>3. QED
      BY <1>2, <2>1, <2>2, Passes
  <1>9. /\ AccountStep
        /\ \A t \in Tokens : /\ session[t] # "none" => session'[t] # "none"
                             /\ session[t] = "over" => session'[t] = "over"
    BY <1>1, <1>4, <1>5, EndingSessions
  <1>10. SessionStep
    BY <1>1, <1>2, <1>4, <1>9 DEF SessionStep, Others, Moved
  <1>11. QED
    BY <1>6, <1>7, <1>8, <1>9, <1>10 DEF Step

LEMMA CloseStep ==
    ASSUME Inv, NEW r \in Requests, Close(r)
    PROVE  Step
  <1>1. /\ Shape /\ request[r].pc = "done"
        /\ UNCHANGED <<counter, window, faults, unseen, leaked, session, issued>>
    BY DEF Inv, Close, At, SessionOnly, gateGhosts
  <1>2. Typed /\ Others(r) /\ request'[r] = Free
    BY <1>1, EndEffect DEF Close
  <1>3. Shape'
    BY <1>1, <1>2 DEF Shape, Typed
  <1>4. GateStep
    <2>1. (HasPlace(r)' <=> HasPlace(r)) /\ (Admitted(r)' <=> Admitted(r))
      BY <1>1, <1>2, PlaceNames DEF Free
    <2>2. faults <= faults'
      BY <1>1 DEF Shape
    <2>3. QED
      BY <1>1, <1>2, <2>1, <2>2, Passes
  <1>5. AtGate'
    BY <1>2, AtGateMoves DEF Inv, Free
  <1>6. SessionStep /\ AccountStep
    BY <1>1, <1>2, SameSessions
  <1>7. QED
    BY <1>3, <1>4, <1>5, <1>6 DEF Step

LEMMA SessionExpiresStep ==
    ASSUME Inv, NEW t \in Tokens, SessionExpires(t)
    PROVE  Step
  <1>1. /\ UNCHANGED <<counter, window, request, faults, unseen, leaked, issued>>
        /\ session' = [session EXCEPT ![t] = "over"] /\ Shape
    BY DEF Inv, SessionExpires, gateGhosts
  <1>2. session' \in [Tokens -> {"none", "live", "over"}]
        /\ \A u \in Tokens : session'[u] \in {session[u], "over"}
    BY <1>1 DEF Shape
  <1>3. Shape'
    BY <1>1, <1>2 DEF Shape
  <1>4. GateStep
    BY <1>1 DEF GateStep
  <1>5. AtGate'
    BY <1>1 DEF Inv, AtGate, Gated
  <1>6. /\ AccountStep
        /\ \A u \in Tokens : /\ session[u] # "none" => session'[u] # "none"
                             /\ session[u] = "over" => session'[u] = "over"
    BY <1>1, <1>2, EndingSessions
  <1>7. SessionStep
    BY <1>1, <1>6 DEF SessionStep
  <1>8. QED
    BY <1>3, <1>4, <1>5, <1>6, <1>7 DEF Step

-----------------------------------------------------------------------------
(* Every step of the specification. *)
LEMMA EveryStep == ASSUME Inv, [Next]_vars PROVE Step
  <1>1. ASSUME NEW r \in Requests, NEW k \in Kinds, NEW t \in Tokens \cup {0}, Arrive(r, k, t)
        PROVE  Step
    BY <1>1, ArriveStep
  <1>2. ASSUME NEW r \in Requests,
               \/ Incr(r) \/ Expire(r) \/ AcquireFails(r) \/ Refuse(r) \/ Release(r)
               \/ ReleaseFails(r) \/ Dies(r)
        PROVE  Step
    BY <1>2, IncrStep, ExpireStep, AcquireFailsStep, GivesBackStep, ReleaseFailsStep, DiesStep
  <1>3. ASSUME NEW r \in Requests,
               Authenticate(r) \/ CheckRate(r) \/ CheckRateFails(r) \/ Handled(r)
        PROVE  Step
    BY <1>3, AuthenticateStep, CheckRateStep, HandledStep
  <1>4. ASSUME NEW r \in Requests,
               \/ Login(r) \/ Refresh(r) \/ Logout(r) \/ LogoutAll(r) \/ CommitLogoutAll(r)
               \/ Close(r)
        PROVE  Step
    BY <1>4, LoginStep, RefreshStep, LogoutStep, LogoutAllStep, CommitLogoutAllStep, CloseStep
  <1>5. ASSUME NEW t \in Tokens, SessionExpires(t)
        PROVE  Step
    BY <1>5, SessionExpiresStep
  <1>6. CASE KeyExpires
    BY <1>6, KeyExpiresStep
  <1>7. CASE WindowTurns \/ UNCHANGED vars
    BY <1>7, WindowTurnsStep
  <1>8. QED
    BY <1>1, <1>2, <1>3, <1>4, <1>5, <1>6, <1>7 DEF Next

LEMMA InvInit == Init => Inv
  <1> SUFFICES ASSUME Init PROVE Inv
    OBVIOUS
  <1>1. /\ counter = NoKey /\ window = 0 /\ request = [r \in Requests |-> Free]
        /\ session = [t \in Tokens |-> "none"]
        /\ faults = 0 /\ unseen = 0 /\ leaked = 0 /\ issued = 0
    BY DEF Init
  <1>2. Shape
    BY <1>1, AccessAssumption DEF Shape, NoKey
  <1>3. \A r \in Requests : request[r].pc = "free"
    BY <1>1 DEF Free
  <1>4. AtGate /\ Reached
    BY <1>3 DEF AtGate, Reached
  <1>5. Holding = {} /\ AdmittedSet = {} /\ Live = {}
    BY <1>1, <1>3 DEF Holding, AdmittedSet, Admitted, HasPlace, Places, Live
  <1>6. Cardinality({}) = 0
    BY FS_EmptySet
  <1>7. Counted /\ SessionsAccounted
    BY <1>1, <1>5, <1>6, HoldingFinite, AccessAssumption
       DEF Counted, SessionsAccounted, NoKey
  <1>8. QED
    BY <1>2, <1>4, <1>7 DEF Inv

LEMMA InvAlways == Spec => []Inv
  <1>1. Inv /\ [Next]_vars => Inv'
    BY EveryStep, StepKeepsInv
  <1>2. QED
    BY <1>1, InvInit, PTL DEF Spec

-----------------------------------------------------------------------------
(* The theorems. *)

(* Every variable keeps its type; in particular the counter of the gate stays
   within the requests there are and the failures there were, on both sides
   of zero (core/rate_limit.py:84-126). *)
THEOREM AccessTypeCorrect == Spec => []TypeOK
  <1>1. ASSUME Inv PROVE TypeOK
    <2>1. /\ Shape /\ Counted
      BY <1>1 DEF Inv
    <2>2. counter.value \in -Cardinality(Requests) - FaultBound..Cardinality(Requests) + FaultBound
      <3>1. /\ Cardinality(Holding) \in Nat /\ Cardinality(Requests) \in Nat
            /\ Cardinality(Holding) <= Cardinality(Requests)
        BY HoldingFinite
      <3>2. /\ counter.value \in Int /\ unseen \in Nat /\ leaked \in Nat
            /\ faults \in Nat /\ FaultBound \in Nat /\ faults <= FaultBound
        BY <2>1, AccessAssumption DEF Shape
      <3>3. /\ counter.value <= Cardinality(Holding) + leaked
            /\ Cardinality(Holding) <= counter.value + unseen
            /\ leaked <= faults /\ unseen <= Cardinality(Requests) + faults
        BY <2>1 DEF Counted
      <3>4. QED
        BY <3>1, <3>2, <3>3
    <2>3. counter \in [there : BOOLEAN,
                       value : -Cardinality(Requests) - FaultBound..Cardinality(Requests) + FaultBound,
                       expires : BOOLEAN]
      BY <2>1, <2>2 DEF Shape
    <2>4. QED
      BY <2>1, <2>3 DEF Shape, TypeOK
  <1>2. QED
    BY <1>1, InvAlways, PTL

(* rate_limit.py:84-90, AdmissionGate.acquire: whatever the number of
   requests, and however often Redis fails or forgets, no more requests are
   past the gate than its limit and those it failed to count. *)
THEOREM GateBoundsInflight == Spec => []InflightBounded
  <1>1. ASSUME Inv PROVE InflightBounded
    <2>1. /\ Cardinality(AdmittedSet) <= MaxInflight + unseen
          /\ unseen \in Nat /\ MaxInflight \in Nat
      BY <1>1, AccessAssumption DEF Inv, Counted, Shape
    <2>2. Inflight \in SUBSET AdmittedSet
      BY DEF Inflight, Holding, AdmittedSet, Admitted, HasPlace
    <2>3. /\ IsFiniteSet(AdmittedSet) /\ Cardinality(AdmittedSet) \in Nat
          /\ Cardinality(Inflight) \in Nat /\ Cardinality(Inflight) <= Cardinality(AdmittedSet)
      BY <2>2, HoldingFinite, FS_Subset, FS_CardinalityType
    <2>4. QED
      BY <2>1, <2>3 DEF InflightBounded
  <1>2. QED
    BY <1>1, InvAlways, PTL

(* rate_limit.py:92-96, AdmissionGate.release, and the finally of
   check_admission_capacity: a place is given back by every request that
   ends, so the counter holds none but those of the requests in flight, of
   those that died and of those whose release failed. *)
THEOREM GateLosesNoPlace == Spec => []CapacityNotLost
  <1>1. Inv => CapacityNotLost
    BY DEF Inv, Counted, CapacityNotLost
  <1>2. QED
    BY <1>1, InvAlways, PTL

(* auth.py:196-213, logout_all: when it is answered, no session it could
   have known of is live, however many requests refresh, log in and log out
   beside it. *)
THEOREM LogoutAllEndsThem == Spec => []LogoutAllReaches
  <1>1. Inv => LogoutAllReaches
    BY DEF Inv, Reached, LogoutAllReaches, At
  <1>2. QED
    BY <1>1, InvAlways, PTL

(* auth.py:134-165, refresh: the sessions of the user are no more than the
   logins and the refreshes that had nothing left to replace. *)
THEOREM SessionsAreAccounted == Spec => []SessionsAccounted
  <1>1. Inv => SessionsAccounted
    BY DEF Inv
  <1>2. QED
    BY <1>1, InvAlways, PTL
=============================================================================
