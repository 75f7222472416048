------------------------- MODULE ValidatorSeatsProofs -------------------------
(***************************************************************************)
(* What holds of the selection of validators for every set of addresses,   *)
(* every number of seats and every quorum: the set is neither empty nor    *)
(* too large, organic validators go first, and the bootstrap seats are     *)
(* retired by the first sync that finds a quorum.                          *)
(*                                                                         *)
(* The argument rests on what Top returns, of which the sorted list in the *)
(* code says nothing by itself: it counts, for each candidate, those ahead *)
(* of it, and Ahead is a strict total order.                               *)
(***************************************************************************)
EXTENDS ValidatorSeats, FiniteSetTheorems, WellFoundedInduction, TLAPS

\* Needed so that the choice a sync makes is the one with all the seats known.
SeatsKnown == pc = "up" => seats = Bootstrap

IInv == TypeOK /\ SeatsKnown /\ WithinCap /\ NeverVacant

Sessions == [Addresses -> Nat]

------------------------------------------------------------------------------
(***************************************************************************)
(* Top.                                                                    *)
(***************************************************************************)
\* How many candidates are ahead of a.
Before(s, candidates, a) == {b \in candidates : Ahead(s, b, a)}

LEMMA AheadOrder ==
  ASSUME NEW s \in Sessions
  PROVE  /\ \A a \in Addresses : ~Ahead(s, a, a)
         /\ \A a, b \in Addresses : a # b => Ahead(s, a, b) \/ Ahead(s, b, a)
         /\ \A a, b, c \in Addresses : Ahead(s, a, b) /\ Ahead(s, b, c) => Ahead(s, a, c)
<1>1. \A a \in Addresses : s[a] \in Nat /\ Rank[a] \in Nat
  BY ValidatorSeatsAssumption DEF Sessions
<1>2. \A a, b \in Addresses : Rank[a] = Rank[b] => a = b
  BY ValidatorSeatsAssumption
<1> QED BY <1>1, <1>2 DEF Ahead

\* Subsets of the addresses are finite.
LEMMA AddressesFinite ==
  ASSUME NEW C \in SUBSET Addresses
  PROVE  IsFiniteSet(C) /\ Cardinality(C) \in Nat
BY ValidatorSeatsAssumption, FS_Subset, FS_CardinalityType

LEMMA SmallerCount ==
  ASSUME NEW C \in SUBSET Addresses, NEW A \in SUBSET C, NEW x \in C \ A
  PROVE  Cardinality(A) < Cardinality(C)
<1>1. IsFiniteSet(C) /\ Cardinality(C) \in Nat /\ Cardinality(A) \in Nat
  BY AddressesFinite
<1>2. Cardinality(A) <= Cardinality(C) /\ (Cardinality(C) = Cardinality(A) => C = A)
  BY <1>1, FS_Subset
<1> QED BY <1>1, <1>2

\* Who is ahead of another has fewer candidates before it.
LEMMA FewerBefore ==
  ASSUME NEW s \in Sessions, NEW C \in SUBSET Addresses,
         NEW a \in C, NEW b \in C, Ahead(s, a, b)
  PROVE  Cardinality(Before(s, C, a)) < Cardinality(Before(s, C, b))
<1>1. Before(s, C, a) \subseteq Before(s, C, b)
  BY AheadOrder DEF Before
<1>2. a \in Before(s, C, b) \ Before(s, C, a)
  BY AheadOrder DEF Before
<1>3. Before(s, C, b) \in SUBSET Addresses
  BY DEF Before
<1> QED BY <1>1, <1>2, <1>3, SmallerCount

\* A set of candidates that is not empty has a first one.
LEMMA FirstExists ==
  ASSUME NEW s \in Sessions, NEW C \in SUBSET Addresses, C # {}
  PROVE  \E a \in C : \A b \in C : ~Ahead(s, b, a)
<1> DEFINE n(a) == Cardinality(Before(s, C, a))
           T == {n(a) : a \in C}
<1>1. \A a \in C : n(a) \in Nat
  <2> TAKE a \in C
  <2>1. Before(s, C, a) \in SUBSET Addresses
    BY DEF Before
  <2> QED BY <2>1, AddressesFinite
<1>2. T \subseteq Nat /\ T # {}
  BY <1>1
<1>3. \E x \in T : \A y \in T : ~ (<<y, x>> \in OpToRel(<, Nat))
  BY <1>2, WFMin, NatLessThanWellFounded
<1>4. PICK x \in T : \A y \in T : ~ (y < x)
  BY <1>2, <1>3 DEF OpToRel
<1>5. PICK a \in C : x = n(a)
  OBVIOUS
<1>6. \A b \in C : ~Ahead(s, b, a)
  <2> TAKE b \in C
  <2>1. ~ (n(b) < n(a))
    BY <1>4, <1>5
  <2> QED BY <2>1, FewerBefore
<1> QED BY <1>6

\* A set of candidates that is not empty has a last one.
LEMMA LastExists ==
  ASSUME NEW s \in Sessions, NEW C \in SUBSET Addresses, C # {}
  PROVE  \E a \in C : \A b \in C : ~Ahead(s, a, b)
<1> DEFINE n(a) == Cardinality(Before(s, C, a))
           T == {Cardinality(C) - n(a) : a \in C}
<1>1. \A a \in C : n(a) \in Nat /\ n(a) <= Cardinality(C)
  <2> TAKE a \in C
  <2>1. Before(s, C, a) \in SUBSET C
    BY DEF Before
  <2> QED BY <2>1, AddressesFinite, FS_Subset
<1>2. Cardinality(C) \in Nat
  BY AddressesFinite
<1>3. T \subseteq Nat /\ T # {}
  BY <1>1, <1>2
<1>4. \E x \in T : \A y \in T : ~ (<<y, x>> \in OpToRel(<, Nat))
  BY <1>3, WFMin, NatLessThanWellFounded
<1>5. PICK x \in T : \A y \in T : ~ (y < x)
  BY <1>3, <1>4 DEF OpToRel
<1>6. PICK a \in C : x = Cardinality(C) - n(a)
  OBVIOUS
<1>7. \A b \in C : ~Ahead(s, a, b)
  <2> TAKE b \in C
  <2>1. ~ (Cardinality(C) - n(b) < Cardinality(C) - n(a))
    BY <1>5, <1>6
  <2>2. ~ (n(a) < n(b))
    BY <2>1, <1>1, <1>2
  <2> QED BY <2>2, FewerBefore
<1> QED BY <1>7

\* There are never more in the first n than n.
LEMMA TopWithin ==
  ASSUME NEW s \in Sessions, NEW C \in SUBSET Addresses, NEW n \in Nat
  PROVE  /\ Top(s, C, n) \subseteq C
         /\ Cardinality(Top(s, C, n)) \in Nat
         /\ Cardinality(Top(s, C, n)) <= n
<1> DEFINE T == Top(s, C, n)
<1>1. T \subseteq C
  BY DEF Top
<1>2. T \in SUBSET Addresses
  BY <1>1
<1>3. IsFiniteSet(T) /\ Cardinality(T) \in Nat
  BY <1>2, AddressesFinite
<1>4. ASSUME T # {} PROVE Cardinality(T) <= n
  <2>1. PICK last \in T : \A b \in T : ~Ahead(s, last, b)
    BY <1>2, <1>4, LastExists
  <2>2. \A b \in T \ {last} : Ahead(s, b, last)
    BY <2>1, <1>2, AheadOrder
  <2>3. T \ {last} \subseteq Before(s, C, last)
    BY <2>2, <1>1 DEF Before
  <2>4. Before(s, C, last) \in SUBSET Addresses
    BY DEF Before
  <2>5. /\ IsFiniteSet(Before(s, C, last)) /\ Cardinality(Before(s, C, last)) \in Nat
    BY <2>4, AddressesFinite
  <2>6. Cardinality(T \ {last}) <= Cardinality(Before(s, C, last))
    BY <2>3, <2>5, FS_Subset
  <2>7. Cardinality(T \ {last}) = Cardinality(T) - 1
    BY <1>3, <2>1, FS_RemoveElement
  <2>8. Cardinality(Before(s, C, last)) < n
    BY <2>1 DEF Top, Before
  <2> QED BY <2>5, <2>6, <2>7, <2>8, <1>3
<1>5. T = {} => Cardinality(T) = 0
  BY FS_EmptySet
<1> HIDE DEF T
<1>6. Cardinality(T) <= n
  BY <1>4, <1>5, <1>3
<1> QED BY <1>1, <1>3, <1>6 DEF T

\* The first candidate is among the first n.
LEMMA TopOccupied ==
  ASSUME NEW s \in Sessions, NEW C \in SUBSET Addresses, NEW n \in Nat \ {0}, C # {}
  PROVE  Top(s, C, n) # {}
<1>1. PICK a \in C : \A b \in C : ~Ahead(s, b, a)
  BY FirstExists
<1>2. {b \in C : Ahead(s, b, a)} = {}
  BY <1>1
<1>3. Cardinality({b \in C : Ahead(s, b, a)}) = 0
  BY <1>2, FS_EmptySet
<1>4. a \in Top(s, C, n)
  BY <1>3 DEF Top
<1> QED BY <1>4

\* Nobody is left out while there is room.
LEMMA TopFills ==
  ASSUME NEW s \in Sessions, NEW C \in SUBSET Addresses, NEW n \in Nat,
         Cardinality(Top(s, C, n)) < n
  PROVE  Top(s, C, n) = C
<1> DEFINE T == Top(s, C, n)
           Rest == C \ T
<1>1. T \subseteq C /\ Rest \in SUBSET Addresses /\ T \in SUBSET Addresses
  BY DEF Top
<1>2. ASSUME Rest # {} PROVE FALSE
  <2>1. PICK a \in Rest : \A b \in Rest : ~Ahead(s, b, a)
    BY <1>1, <1>2, FirstExists
  <2>2. Before(s, C, a) \in SUBSET T
    BY <2>1 DEF Before
  <2>3. Cardinality(Before(s, C, a)) \in Nat /\ IsFiniteSet(T) /\ Cardinality(T) \in Nat
    BY <2>2, <1>1, AddressesFinite
  <2>4. Cardinality(Before(s, C, a)) <= Cardinality(T)
    BY <2>2, <2>3, FS_Subset
  <2>5. Cardinality(Before(s, C, a)) < n
    BY <2>3, <2>4
  <2>6. a \in T
    BY <2>5, <2>1 DEF Top, Before
  <2> QED BY <2>1, <2>6
<1> QED BY <1>1, <1>2

------------------------------------------------------------------------------
(***************************************************************************)
(* The active set.                                                         *)
(***************************************************************************)
LEMMA EligibleAddresses ==
  ASSUME NEW s \in Sessions, NEW boot
  PROVE  /\ Eligible(s) \in SUBSET Addresses
         /\ Eligible(s) \ boot \in SUBSET Addresses
         /\ Eligible(s) \cap boot \in SUBSET Addresses
BY DEF Eligible

\* With a quorum of organic candidates, or with no seat left, the active set
\* has organic candidates only; with a seat taken by a bootstrap validator, all
\* organic candidates are in it.
LEMMA OrganicComeFirst ==
  ASSUME NEW s \in Sessions, NEW boot
  PROVE  /\ ActiveSet(s, boot) \subseteq Eligible(s)
         /\ Cardinality(Eligible(s) \ boot) >= Quorum => ActiveSet(s, boot) \cap boot = {}
         /\ ActiveSet(s, boot) \cap boot # {} => Eligible(s) \ boot \subseteq ActiveSet(s, boot)
<1> DEFINE organic == Eligible(s) \ boot
           first == Top(s, organic, MaxValidators)
           seated == Top(s, Eligible(s) \cap boot, MaxValidators - Cardinality(first))
<1>1. organic \in SUBSET Addresses /\ Eligible(s) \cap boot \in SUBSET Addresses
  BY EligibleAddresses
<1>2. MaxValidators \in Nat
  BY ValidatorSeatsAssumption
<1>3. /\ first \subseteq organic /\ Cardinality(first) \in Nat
      /\ Cardinality(first) <= MaxValidators
  BY <1>1, <1>2, TopWithin
<1>4. MaxValidators - Cardinality(first) \in Nat
  BY <1>2, <1>3
<1>5. /\ seated \subseteq Eligible(s) \cap boot /\ Cardinality(seated) \in Nat
      /\ Cardinality(seated) <= MaxValidators - Cardinality(first)
  BY <1>1, <1>4, TopWithin
<1>6. ActiveSet(s, boot) = IF Cardinality(organic) >= Quorum THEN first ELSE first \cup seated
  BY DEF ActiveSet
<1>7. ASSUME seated # {} PROVE first = organic
  <2>1. Cardinality(seated) # 0
    <3>1. seated \in SUBSET Addresses
      BY <1>5, <1>1
    <3>2. IsFiniteSet(seated)
      BY <3>1, AddressesFinite
    <3> HIDE DEF seated
    <3> QED BY <3>2, <1>7, FS_EmptySet
  <2>2. Cardinality(first) < MaxValidators
    BY <2>1, <1>2, <1>3, <1>5
  <2> QED BY <2>2, <1>1, <1>2, TopFills
<1> HIDE DEF first, seated
<1> QED BY <1>3, <1>5, <1>6, <1>7

\* There are never more active validators than seats.
LEMMA ActiveSetWithin ==
  ASSUME NEW s \in Sessions, NEW boot
  PROVE  Cardinality(ActiveSet(s, boot)) <= MaxValidators
<1> DEFINE organic == Eligible(s) \ boot
           first == Top(s, organic, MaxValidators)
           seated == Top(s, Eligible(s) \cap boot, MaxValidators - Cardinality(first))
<1>1. organic \in SUBSET Addresses /\ Eligible(s) \cap boot \in SUBSET Addresses
  BY EligibleAddresses
<1>2. MaxValidators \in Nat
  BY ValidatorSeatsAssumption
<1>3. /\ first \in SUBSET Addresses /\ Cardinality(first) \in Nat
      /\ Cardinality(first) <= MaxValidators
  BY <1>1, <1>2, TopWithin
<1>4. MaxValidators - Cardinality(first) \in Nat
  BY <1>2, <1>3
<1>5. /\ seated \in SUBSET Addresses /\ Cardinality(seated) \in Nat
      /\ Cardinality(seated) <= MaxValidators - Cardinality(first)
  BY <1>1, <1>4, TopWithin
<1>6. ActiveSet(s, boot) = IF Cardinality(organic) >= Quorum THEN first ELSE first \cup seated
  BY DEF ActiveSet
<1> HIDE DEF first, seated
<1>7. IsFiniteSet(first) /\ IsFiniteSet(seated)
  BY <1>3, <1>5, AddressesFinite
<1>8. Cardinality(first \cup seated) = Cardinality(first) + Cardinality(seated) - Cardinality(first \cap seated)
  BY <1>7, FS_Union
<1>9. Cardinality(first \cap seated) \in Nat
  <2>1. first \cap seated \in SUBSET Addresses
    BY <1>3
  <2> QED BY <2>1, AddressesFinite
<1>10. Cardinality(first \cup seated) <= MaxValidators
  BY <1>2, <1>3, <1>5, <1>8, <1>9
<1> QED BY <1>3, <1>6, <1>10

\* A candidate, and a seat, are enough for a validator.
LEMMA ActiveSetOccupied ==
  ASSUME NEW s \in Sessions, NEW boot, Eligible(s) # {}, MaxValidators > 0
  PROVE  ActiveSet(s, boot) # {}
<1> DEFINE organic == Eligible(s) \ boot
           first == Top(s, organic, MaxValidators)
           seated == Top(s, Eligible(s) \cap boot, MaxValidators - Cardinality(first))
<1>1. organic \in SUBSET Addresses /\ Eligible(s) \cap boot \in SUBSET Addresses
  BY EligibleAddresses
<1>2. MaxValidators \in Nat \ {0} /\ Quorum \in Nat \ {0}
  BY ValidatorSeatsAssumption
<1>3. ActiveSet(s, boot) = IF Cardinality(organic) >= Quorum THEN first ELSE first \cup seated
  BY DEF ActiveSet
<1>4. CASE organic # {}
  <2>1. first # {}
    BY <1>1, <1>2, <1>4, TopOccupied
  <2> QED BY <2>1, <1>3
<1>5. CASE organic = {}
  <2>1. Cardinality(organic) = 0
    BY <1>5, FS_EmptySet
  <2>2. first = {}
    BY <1>5 DEF Top
  <2>3. Cardinality(first) = 0
    BY <2>2, FS_EmptySet
  <2>4. Eligible(s) \cap boot # {}
    BY <1>5
  <2>5. Top(s, Eligible(s) \cap boot, MaxValidators) # {}
    BY <2>4, <1>1, <1>2, TopOccupied
  <2>6. seated = Top(s, Eligible(s) \cap boot, MaxValidators)
    <3>1. MaxValidators - Cardinality(first) = MaxValidators
      BY <2>3, <1>2
    <3> QED BY <3>1
  <2>7. ~ (Cardinality(organic) >= Quorum)
    BY <2>1, <1>2
  <2> QED BY <1>3, <2>5, <2>6, <2>7
<1> QED BY <1>4, <1>5

------------------------------------------------------------------------------
(***************************************************************************)
(* Sessions and seeding.                                                   *)
(***************************************************************************)
LEMMA RaisedType ==
  ASSUME NEW s \in Sessions, NEW r \in [Miners -> Nat]
  PROVE  Raised(s, r) \in Sessions
BY ValidatorSeatsAssumption DEF Raised, Sessions

LEMMA SeededType ==
  ASSUME NEW s \in Sessions
  PROVE  /\ Seeded(s) \in Sessions
         /\ Bootstrap \subseteq Eligible(Seeded(s))
BY ValidatorSeatsAssumption DEF Seeded, Sessions, Eligible

\* Whatever the seeds come after, if it left the choice of an active set, then
\* an active set is what they leave: there is a validator, and not too many.
LEMMA SeedChooses ==
  ASSUME NEW s \in Sessions, NEW known \in SUBSET Bootstrap, NEW current, Seed(s, known, current),
         Cardinality(current) <= MaxValidators,
         Seeded(s) = s /\ Bootstrap # {} /\ MaxValidators > 0 => current # {}
  PROVE  /\ sessions' \in Sessions
         /\ seats' = Bootstrap
         /\ Cardinality(validators') <= MaxValidators
         /\ Bootstrap # {} /\ MaxValidators > 0 => validators' # {}
<1>1. Seeded(s) \in Sessions /\ Bootstrap \subseteq Eligible(Seeded(s))
  BY SeededType
<1>2. sessions' = Seeded(s) /\ seats' = Bootstrap
  BY DEF Seed, Remembered
<1>3. CASE Seeded(s) # s
  <2>1. validators' = ActiveSet(Seeded(s), Bootstrap)
    BY <1>3 DEF Seed, SeatsSeeded, Remembered
  <2>2. Cardinality(ActiveSet(Seeded(s), Bootstrap)) <= MaxValidators
    BY <1>1, ActiveSetWithin
  <2>3. Bootstrap # {} /\ MaxValidators > 0 => ActiveSet(Seeded(s), Bootstrap) # {}
    BY <1>1, ActiveSetOccupied
  <2> QED BY <1>1, <1>2, <2>1, <2>2, <2>3
<1>4. CASE Seeded(s) = s
  <2>1. validators' = current
    BY <1>4 DEF Seed, SeatsSeeded
  <2> QED BY <1>1, <1>2, <1>4, <2>1
<1> QED BY <1>3, <1>4

\* A sync that is applied leaves the active set of what it leaves of sessions.
LEMMA SyncChooses ==
  ASSUME IInv, SyncApply
  PROVE  /\ sessions' \in Sessions
         /\ validators' = ActiveSet(sessions', Bootstrap)
<1> DEFINE s == Raised(sessions, rows)
<1>1. s \in Sessions
  BY RaisedType DEF IInv, TypeOK, SyncApply, Sessions
<1>2. seats = Bootstrap
  BY DEF IInv, SeatsKnown, SyncApply
<1>3. Seed(s, Bootstrap, ActiveSet(s, Bootstrap))
  BY <1>2 DEF SyncApply, Resynced
<1> HIDE DEF s
<1>4. sessions' = Seeded(s)
  BY <1>3 DEF Seed
<1>5. validators' = ActiveSet(Seeded(s), Bootstrap)
  BY <1>3 DEF Seed, SeatsSeeded, Remembered
<1> QED BY <1>1, <1>4, <1>5, SeededType

------------------------------------------------------------------------------
(***************************************************************************)
(* The inductive invariant.                                                *)
(***************************************************************************)
LEMMA InitEstablishes == Init => IInv
<1> SUFFICES ASSUME Init PROVE IInv
  OBVIOUS
<1>1. TypeOK
  BY ValidatorSeatsAssumption DEF Init, TypeOK, None
<1>2. Cardinality(validators) <= MaxValidators
  BY ValidatorSeatsAssumption, FS_EmptySet DEF Init
<1> QED BY <1>1, <1>2 DEF Init, IInv, SeatsKnown, WithinCap, NeverVacant

\* A step that leaves the node's choice alone.
LEMMA ChoiceKept ==
  ASSUME IInv, TypeOK', UNCHANGED <<seats, validators, pc>>
  PROVE  IInv'
BY DEF IInv, SeatsKnown, WithinCap, NeverVacant

\* A step that ends in seeding.
LEMMA SeedKeeps ==
  ASSUME IInv, NEW s \in Sessions, NEW known \in SUBSET Bootstrap, NEW current,
         Seed(s, known, current), current \in SUBSET Addresses,
         Cardinality(current) <= MaxValidators,
         Seeded(s) = s /\ Bootstrap # {} /\ MaxValidators > 0 => current # {},
         web2' \in [Miners -> Nat], file' \in Sessions, revealed' \in SUBSET Addresses,
         rows' = NoRows \/ rows' \in [Miners -> Nat], trouble' \in Nat, pc' = "up"
  PROVE  IInv'
<1>1. /\ sessions' \in Sessions
      /\ seats' = Bootstrap
      /\ Cardinality(validators') <= MaxValidators
      /\ Bootstrap # {} /\ MaxValidators > 0 => validators' # {}
  BY SeedChooses
<1>2. validators' \subseteq Addresses
  <2>1. CASE Seeded(s) # s
    <3>1. validators' = ActiveSet(Seeded(s), known \cup Bootstrap)
      BY <2>1 DEF Seed, SeatsSeeded, Remembered
    <3>2. ActiveSet(Seeded(s), known \cup Bootstrap) \subseteq Eligible(Seeded(s))
      BY SeededType, OrganicComeFirst
    <3> QED BY <3>1, <3>2 DEF Eligible
  <2>2. CASE Seeded(s) = s
    BY <2>2 DEF Seed, SeatsSeeded
  <2> QED BY <2>1, <2>2
<1>3. TypeOK'
  BY <1>1, <1>2 DEF TypeOK, Sessions
<1> QED BY <1>1, <1>3 DEF IInv, SeatsKnown, WithinCap, NeverVacant

\* What every choice of validators is, where the seeding finds nothing to do.
LEMMA ActiveChoice ==
  ASSUME NEW s \in Sessions, NEW boot
  PROVE  /\ ActiveSet(s, boot) \in SUBSET Addresses
         /\ Cardinality(ActiveSet(s, boot)) <= MaxValidators
         /\ Seeded(s) = s /\ Bootstrap # {} /\ MaxValidators > 0 => ActiveSet(s, boot) # {}
<1>1. ActiveSet(s, boot) \in SUBSET Addresses
  BY OrganicComeFirst DEF Eligible
<1>2. Seeded(s) = s /\ Bootstrap # {} => Eligible(s) # {}
  BY SeededType
<1> QED BY <1>1, <1>2, ActiveSetWithin, ActiveSetOccupied

\* The validators of a node that starts without the Web2 ledger.
LEMMA AccountsChoice ==
  ASSUME NEW s \in Sessions
  PROVE  /\ FromAccounts(s) \in SUBSET Addresses
         /\ Cardinality(FromAccounts(s)) <= MaxValidators
         /\ Seeded(s) = s /\ Bootstrap # {} /\ MaxValidators > 0 => FromAccounts(s) # {}
<1>1. Eligible(s) \in SUBSET Addresses /\ MaxValidators \in Nat
  BY ValidatorSeatsAssumption DEF Eligible
<1>2. /\ FromAccounts(s) \in SUBSET Addresses
      /\ Cardinality(FromAccounts(s)) <= MaxValidators
  BY <1>1, TopWithin DEF FromAccounts
<1>3. Seeded(s) = s /\ Bootstrap # {} => Eligible(s) # {}
  BY SeededType
<1>4. MaxValidators > 0 /\ Eligible(s) # {} => FromAccounts(s) # {}
  BY <1>1, TopOccupied DEF FromAccounts
<1> QED BY <1>2, <1>3, <1>4

LEMMA StepKeeps == IInv /\ [Next]_vars => IInv'
<1> SUFFICES ASSUME IInv, [Next]_vars PROVE IInv'
  OBVIOUS
<1> USE DEF nodeVars, durableVars
<1>1. /\ web2 \in [Miners -> Nat] /\ sessions \in Sessions /\ file \in Sessions
      /\ revealed \in SUBSET Addresses /\ seats \in SUBSET Bootstrap
      /\ validators \in SUBSET Addresses
      /\ rows = NoRows \/ rows \in [Miners -> Nat]
      /\ trouble \in Nat /\ TypeOK
  BY DEF IInv, TypeOK, Sessions
<1>2. ASSUME NEW a \in Miners, Earn(a) \/ Delete(a) PROVE IInv'
  <2>1. TypeOK' /\ UNCHANGED <<seats, validators, pc>>
    BY <1>1, <1>2 DEF Earn, Delete, TypeOK
  <2> QED BY <2>1, ChoiceKept
<1>3. CASE SyncLoad
  <2>1. TypeOK' /\ UNCHANGED <<seats, validators, pc>>
    BY <1>1, <1>3 DEF SyncLoad, TypeOK
  <2> QED BY <2>1, ChoiceKept
<1>4. CASE SyncApply
  <2> DEFINE s == Raised(sessions, rows)
  <2>1. s \in Sessions
    BY <1>1, <1>4, RaisedType DEF SyncApply
  <2>2. Seed(s, seats, ActiveSet(s, seats)) /\ file' \in Sessions
    BY <1>1, <1>4, <2>1 DEF SyncApply, Resynced
  <2>3. UNCHANGED <<web2, revealed, pc, trouble>> /\ rows' = NoRows /\ pc = "up"
    BY <1>4 DEF SyncApply
  <2> HIDE DEF s
  <2>4. /\ ActiveSet(s, seats) \in SUBSET Addresses
        /\ Cardinality(ActiveSet(s, seats)) <= MaxValidators
        /\ Seeded(s) = s /\ Bootstrap # {} /\ MaxValidators > 0 => ActiveSet(s, seats) # {}
    BY <2>1, ActiveChoice
  <2> QED BY <1>1, <2>1, <2>2, <2>3, <2>4, SeedKeeps
<1>5. ASSUME NEW m \in Moves, Migrate(m[1], m[2]) PROVE IInv'
  <2>1. m[1] \in Addresses /\ m[2] \in Addresses
    BY ValidatorSeatsAssumption
  <2>2. sessions' \in Sessions
    BY <1>1, <1>5, <2>1 DEF Migrate, Sessions
  <2>3. TypeOK' /\ UNCHANGED <<seats, validators, pc>>
    BY <1>1, <1>5, <2>1, <2>2 DEF Migrate, TypeOK, Sessions
  <2> QED BY <2>3, ChoiceKept
<1>6. ASSUME NEW a \in Addresses, Admit(a) PROVE IInv'
  <2>1. sessions' \in Sessions
    BY <1>1, <1>6, ValidatorSeatsAssumption DEF Admit, Sessions
  <2>2. TypeOK' /\ UNCHANGED <<seats, validators, pc>>
    BY <1>1, <1>6, <2>1 DEF Admit, TypeOK, Sessions
  <2> QED BY <2>2, ChoiceKept
<1>7. CASE Start
  <2> DEFINE s == Raised(file, web2)
  <2>1. s \in Sessions
    BY <1>1, RaisedType
  <2>2. Seed(s, {}, ActiveSet(s, {})) /\ file' \in Sessions
    BY <1>7, <2>1 DEF Start, Resynced
  <2>3. UNCHANGED <<web2, rows, revealed, trouble>> /\ pc' = "up"
    BY <1>7 DEF Start
  <2> HIDE DEF s
  <2>4. /\ ActiveSet(s, {}) \in SUBSET Addresses
        /\ Cardinality(ActiveSet(s, {})) <= MaxValidators
        /\ Seeded(s) = s /\ Bootstrap # {} /\ MaxValidators > 0 => ActiveSet(s, {}) # {}
    BY <2>1, ActiveChoice
  <2> QED BY <1>1, <2>1, <2>2, <2>3, <2>4, SeedKeeps
<1>8. CASE StartAlone
  <2>1. Seed(file, {}, FromAccounts(file))
    BY <1>8 DEF StartAlone
  <2>2. UNCHANGED <<web2, durableVars, rows>> /\ pc' = "up" /\ trouble' \in Nat
    BY <1>1, <1>8 DEF StartAlone, Trouble
  <2>3. /\ FromAccounts(file) \in SUBSET Addresses
        /\ Cardinality(FromAccounts(file)) <= MaxValidators
        /\ Seeded(file) = file /\ Bootstrap # {} /\ MaxValidators > 0 => FromAccounts(file) # {}
    BY <1>1, AccountsChoice
  <2> QED BY <1>1, <2>1, <2>2, <2>3, SeedKeeps
<1>9. CASE SyncLoadFails
  <2>1. Seed(sessions, seats, validators)
    BY <1>9 DEF SyncLoadFails
  <2>2. UNCHANGED <<web2, durableVars, rows, pc>> /\ pc = "up" /\ trouble' \in Nat
    BY <1>1, <1>9 DEF SyncLoadFails, Trouble
  <2>3. /\ Cardinality(validators) <= MaxValidators
        /\ Bootstrap # {} /\ MaxValidators > 0 => validators # {}
    BY <2>2 DEF IInv, WithinCap, NeverVacant
  <2> QED BY <1>1, <2>1, <2>2, <2>3, SeedKeeps
<1>10. CASE SyncApplyFails
  <2>1. sessions' \in Sessions
    BY <1>1, <1>10, RaisedType DEF SyncApplyFails
  <2>2. TypeOK' /\ UNCHANGED <<seats, validators, pc>>
    BY <1>1, <1>10, <2>1 DEF SyncApplyFails, Trouble, TypeOK, Sessions
  <2> QED BY <2>2, ChoiceKept
<1>11. CASE Stop
  <2>1. /\ sessions' = None /\ seats' = {} /\ validators' = {} /\ rows' = NoRows
        /\ pc' = "down" /\ trouble' \in Nat /\ UNCHANGED <<web2, durableVars>>
    BY <1>1, <1>11 DEF Stop, Trouble
  <2>2. TypeOK'
    BY <1>1, <2>1 DEF TypeOK, None, Sessions
  <2>3. Cardinality(validators') <= MaxValidators
    BY <2>1, FS_EmptySet, ValidatorSeatsAssumption
  <2> QED BY <2>1, <2>2, <2>3 DEF IInv, SeatsKnown, WithinCap, NeverVacant
<1>12. CASE UNCHANGED vars
  BY <1>1, <1>12, ChoiceKept DEF vars, TypeOK
<1> QED
  BY <1>2, <1>3, <1>4, <1>5, <1>6, <1>7, <1>8, <1>9, <1>10, <1>11, <1>12
     DEF Next, Ledger, Syncing, Requests, Failing

------------------------------------------------------------------------------
(***************************************************************************)
(* Theorems.                                                               *)
(***************************************************************************)
LEMMA Inductive == Spec => []IInv
<1>1. Init => IInv
  BY InitEstablishes
<1>2. IInv /\ [Next]_vars => IInv'
  BY StepKeeps
<1> QED BY <1>1, <1>2, PTL DEF Spec

\* Every reachable state has its type: bootstrap_validators never names an
\* address that the operator has not configured.
THEOREM TypeCorrect == Spec => []TypeOK
<1>1. IInv => TypeOK
  BY DEF IInv
<1> QED BY <1>1, Inductive, PTL

\* A running node with a configured seat always has a validator, whatever fails
\* at its start, whoever migrates and whatever the Web2 ledger says.
THEOREM SeatsNeverVacant == Spec => []NeverVacant
<1>1. IInv => NeverVacant
  BY DEF IInv
<1> QED BY <1>1, Inductive, PTL

\* MAX_VALIDATORS is never exceeded, although the organic and the bootstrap
\* validators are chosen one after the other.
THEOREM SeatsWithinCap == Spec => []WithinCap
<1>1. IInv => WithinCap
  BY DEF IInv
<1> QED BY <1>1, Inductive, PTL

\* The first sync that finds a quorum of organic validators retires the bootstrap
\* seats, also those that start-up took for organic ones.
THEOREM SunsetBySync == Spec => RetiredBySync
<1>1. ASSUME IInv
      PROVE  SyncApply /\ Cardinality(Organic(sessions')) >= Quorum
               => validators' \cap Bootstrap = {}
  <2> SUFFICES ASSUME SyncApply, Cardinality(Organic(sessions')) >= Quorum
               PROVE  validators' \cap Bootstrap = {}
    OBVIOUS
  <2>1. sessions' \in Sessions /\ validators' = ActiveSet(sessions', Bootstrap)
    BY <1>1, SyncChooses
  <2>2. Cardinality(Eligible(sessions') \ Bootstrap) >= Quorum
    BY DEF Organic
  <2> QED BY <2>1, <2>2, OrganicComeFirst
<1>2. IInv /\ [Next]_vars
      => [SyncApply /\ Cardinality(Organic(sessions')) >= Quorum
            => validators' \cap Bootstrap = {}]_vars
  BY <1>1
<1> QED BY <1>2, Inductive, PTL DEF Spec, RetiredBySync

\* While the node runs, no bootstrap seat is given a place that an organic
\* validator is left without, by a sync or by the seeding that follows an outage.
THEOREM OrganicGoFirst == Spec => OrganicFirst
<1> DEFINE Chooses == pc = "up" /\ (SyncApply \/ validators' # validators) /\ validators' \cap Bootstrap # {}
           Goal == Chooses => Organic(sessions') \subseteq validators'
<1>1. ASSUME IInv, [Next]_vars, Chooses PROVE Organic(sessions') \subseteq validators'
  <2> USE DEF nodeVars, durableVars
  <2>1. CASE SyncApply
    <3>1. sessions' \in Sessions /\ validators' = ActiveSet(sessions', Bootstrap)
      BY <1>1, <2>1, SyncChooses
    <3>2. ActiveSet(sessions', Bootstrap) \cap Bootstrap # {}
      BY <1>1, <3>1
    <3> QED BY <3>1, <3>2, OrganicComeFirst DEF Organic
  <2>2. CASE SyncLoadFails /\ validators' # validators
    <3>1. sessions \in Sessions /\ seats = Bootstrap
      BY <1>1, <2>2 DEF IInv, TypeOK, SeatsKnown, Sessions, SyncLoadFails
    <3>2. sessions' = Seeded(sessions) /\ validators' = ActiveSet(sessions', Bootstrap)
      BY <2>2, <3>1 DEF SyncLoadFails, Seed, SeatsSeeded, Remembered
    <3>3. sessions' \in Sessions
      BY <3>1, <3>2, SeededType
    <3>4. ActiveSet(sessions', Bootstrap) \cap Bootstrap # {}
      BY <1>1, <3>2
    <3> QED BY <3>2, <3>3, <3>4, OrganicComeFirst DEF Organic
  <2>3. CASE Stop
    BY <1>1, <2>3 DEF Stop
  <2>4. ASSUME ~SyncApply, ~SyncLoadFails, ~Stop PROVE validators' = validators \/ pc # "up"
    <3>1. CASE UNCHANGED vars
      BY <3>1 DEF vars
    <3>2. CASE Next
      BY <2>4, <3>2 DEF Next, Ledger, Syncing, Requests, Failing, Earn, Delete, SyncLoad, Migrate, Admit,
         Start, StartAlone, SyncApplyFails
    <3> QED BY <1>1, <3>1, <3>2
  <2> QED BY <1>1, <2>1, <2>2, <2>3, <2>4
<1>2. IInv /\ [Next]_vars => [Goal]_vars
  BY <1>1
<1> HIDE DEF Goal
<1>3. Spec => [][Goal]_vars
  BY <1>2, Inductive, PTL DEF Spec
<1>4. [][Goal]_vars => OrganicFirst
  BY PTL DEF Goal, OrganicFirst
<1> QED BY <1>3, <1>4
==============================================================================
