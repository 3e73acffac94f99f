------------------------ MODULE AgentReleasesProofs ------------------------
(***************************************************************************)
(* The releases of an agent application for every number of administrators,*)
(* drafts, deployments, evaluation runs and policy bundles.                *)
(*                                                                         *)
(* Promotion is the hard part, because activated_at is the start of a      *)
(* transaction: the order of the deployments is not the order of their     *)
(* commits.  The argument is about that order alone (Before): a request    *)
(* that passes its comparison of the pointer began after the pointer was   *)
(* activated, so it becomes the newest ACTIVE deployment whoever committed *)
(* in between.                                                             *)
(***************************************************************************)
EXTENDS AgentReleases, WellFoundedInduction, TLAPS

-----------------------------------------------------------------------------
(* Extremal elements *)

\* A set of natural numbers has a least element.
LEMMA LeastExists ==
    ASSUME NEW S, S # {}, S \subseteq Nat
    PROVE  \E v \in S : \A w \in S : v <= w
<1> DEFINE less == OpToRel(<, Nat)
<1>1. IsWellFoundedOn(less, Nat)
    BY Zenon, NatLessThanWellFounded
<1>2. \A x, y \in Nat : x < y => <<x, y>> \in less
    BY Zenon DEF OpToRel
<1> HIDE DEF less
<1>3. PICK v \in S : \A w \in S : ~ (<<w, v>> \in less)
    BY Zenon, <1>1, WFMin
<1>4. \A w \in S : ~ (w < v)
    BY Zenon, <1>2, <1>3
<1> QED
    BY <1>3, <1>4

\* A bounded set of natural numbers has a largest element.
LEMMA GreatestExists ==
    ASSUME NEW S, S # {}, NEW top \in Nat, S \subseteq 0..top
    PROVE  \E v \in S : \A w \in S : w <= v
<1> DEFINE gaps == {top - v : v \in S}
<1>1. gaps \subseteq Nat /\ gaps # {}
    <2>1. \A v \in S : v \in 0..top /\ top - v \in Nat
        OBVIOUS
    <2>2. PICK v : v \in S
        BY Zenon
    <2> QED
        BY Zenon, <2>1, <2>2
<1>2. PICK x \in gaps : \A y \in gaps : x <= y
    BY Zenon, <1>1, LeastExists
<1>3. PICK v \in S : x = top - v
    BY Zenon, <1>2
<1>4. \A w \in S : top - v <= top - w
    BY Zenon, <1>2, <1>3
<1>5. S \subseteq Int /\ v \in Int
    BY <1>3
<1> QED
    BY <1>3, <1>4, <1>5

-----------------------------------------------------------------------------
(* The order of a timeline *)

Marks == ({"request"} \X Admins) \cup ({"deployment"} \X Nat)

In(T, x) == \E i \in DOMAIN T : T[i] = x
Before(T, x, y) == \E i, j \in DOMAIN T : i < j /\ T[i] = x /\ T[j] = y
Injective(T) == \A i, j \in DOMAIN T : T[i] = T[j] => i = j
Place(T, x) == CHOOSE i \in DOMAIN T : T[i] = x

\* U is T with x at the end, with y in the place of x, or without x.
Appended(T, x, U) ==
    /\ U \in Seq(Marks) /\ Injective(U)
    /\ \A y : In(U, y) <=> In(T, y) \/ y = x
    /\ \A y, z : Before(U, y, z) <=> Before(T, y, z) \/ (In(T, y) /\ z = x)

Replaced(T, x, y, U) ==
    /\ U \in Seq(Marks) /\ Injective(U) /\ x # y
    /\ \A z : In(U, z) <=> z = y \/ (In(T, z) /\ z # x)
    /\ \A u, v : Before(T, u, v) /\ u # x /\ v # x => Before(U, u, v)
    /\ \A u : Before(T, u, x) => Before(U, u, y)
    /\ \A u, v : Before(U, u, v) /\ u # y /\ v # y => Before(T, u, v)

Removed(T, x, U) ==
    /\ U \in Seq(Marks) /\ Injective(U)
    /\ \A z : In(U, z) <=> In(T, z) /\ z # x
    /\ \A u, v : Before(T, u, v) /\ u # x /\ v # x => Before(U, u, v)
    /\ \A u, v : Before(U, u, v) => Before(T, u, v)

\* The place of a mark is where it stands.
LEMMA PlaceIs ==
    ASSUME NEW T, Injective(T), NEW i \in DOMAIN T
    PROVE  Place(T, T[i]) = i
BY Zenon DEF Place, Injective

\* Before is a strict order of the marks ...
LEMMA BeforeOrder ==
    ASSUME NEW T \in Seq(Marks), Injective(T)
    PROVE  /\ \A x, y : Before(T, x, y) => In(T, x) /\ In(T, y) /\ x # y /\ ~ Before(T, y, x)
           /\ \A x, y, z : Before(T, x, y) /\ Before(T, y, z) => Before(T, x, z)
           /\ \A x, y : In(T, x) /\ In(T, y) /\ x # y => Before(T, x, y) \/ Before(T, y, x)
<1>1. DOMAIN T \subseteq Int
    OBVIOUS
<1>2. ASSUME NEW x, NEW y, Before(T, x, y)
      PROVE  In(T, x) /\ In(T, y) /\ x # y /\ ~ Before(T, y, x)
    <2>1. PICK i, j \in DOMAIN T : i < j /\ T[i] = x /\ T[j] = y
        BY Zenon, <1>2 DEF Before
    <2>2. ASSUME NEW k \in DOMAIN T, NEW l \in DOMAIN T, k < l, T[k] = y, T[l] = x PROVE FALSE
        <3>1. k = j /\ l = i
            BY Zenon, <2>1, <2>2 DEF Injective
        <3> QED
            BY <1>1, <2>1, <2>2, <3>1
    <2>3. x # y
        <3>1. x = y => i = j
            BY Zenon, <2>1 DEF Injective
        <3> QED
            BY <1>1, <2>1, <3>1
    <2> QED
        BY Zenon, <2>1, <2>2, <2>3 DEF In, Before
<1>3. ASSUME NEW x, NEW y, NEW z, Before(T, x, y), Before(T, y, z) PROVE Before(T, x, z)
    <2>1. PICK i, j \in DOMAIN T : i < j /\ T[i] = x /\ T[j] = y
        BY Zenon, <1>3 DEF Before
    <2>2. PICK k, l \in DOMAIN T : k < l /\ T[k] = y /\ T[l] = z
        BY Zenon, <1>3 DEF Before
    <2>3. j = k
        BY Zenon, <2>1, <2>2 DEF Injective
    <2>4. i < l
        BY <1>1, <2>1, <2>2, <2>3
    <2> QED
        BY Zenon, <2>1, <2>2, <2>4 DEF Before
<1>4. ASSUME NEW x, NEW y, In(T, x), In(T, y), x # y PROVE Before(T, x, y) \/ Before(T, y, x)
    <2>1. PICK i \in DOMAIN T : T[i] = x
        BY Zenon, <1>4 DEF In
    <2>2. PICK j \in DOMAIN T : T[j] = y
        BY Zenon, <1>4 DEF In
    <2>3. i < j \/ j < i
        BY <1>1, <1>4, <2>1, <2>2
    <2> QED
        BY Zenon, <2>1, <2>2, <2>3 DEF Before
<1> QED
    BY Zenon, <1>2, <1>3, <1>4

\* ... that a request which begins extends at the end ...
LEMMA AppendOrder ==
    ASSUME NEW T \in Seq(Marks), Injective(T), NEW x \in Marks, ~ In(T, x),
           NEW U, U = Append(T, x)
    PROVE  Appended(T, x, U)
<1> DEFINE n == Len(T)
<1>1. /\ n \in Nat /\ DOMAIN T = 1..n /\ U \in Seq(Marks)
      /\ DOMAIN U = 1..(n + 1) /\ U[n + 1] = x /\ \A i \in 1..n : U[i] = T[i]
    OBVIOUS
<1> HIDE DEF n
<1>2. \A i \in 1..n : T[i] # x
    BY Zenon, <1>1 DEF In
<1>3. Injective(U)
    BY <1>1, <1>2 DEF Injective
<1>4. ASSUME NEW y PROVE In(U, y) <=> In(T, y) \/ y = x
    BY <1>1 DEF In
<1>5. ASSUME NEW y, NEW z PROVE Before(U, y, z) <=> Before(T, y, z) \/ (In(T, y) /\ z = x)
    <2>1. ASSUME Before(U, y, z) PROVE Before(T, y, z) \/ (In(T, y) /\ z = x)
        <3>1. PICK i, j \in DOMAIN U : i < j /\ U[i] = y /\ U[j] = z
            BY Zenon, <2>1 DEF Before
        <3>2. i \in DOMAIN T /\ T[i] = y
            BY <1>1, <3>1
        <3>3. CASE j = n + 1
            BY Zenon, <1>1, <3>1, <3>2, <3>3 DEF In
        <3>4. CASE j # n + 1
            <4>1. j \in DOMAIN T /\ T[j] = z
                BY <1>1, <3>1, <3>4
            <4> QED
                BY Zenon, <3>1, <3>2, <4>1 DEF Before
        <3> QED
            BY Zenon, <3>3, <3>4
    <2>2. ASSUME Before(T, y, z) PROVE Before(U, y, z)
        <3>1. PICK i, j \in DOMAIN T : i < j /\ T[i] = y /\ T[j] = z
            BY Zenon, <2>2 DEF Before
        <3>2. i \in DOMAIN U /\ j \in DOMAIN U /\ U[i] = y /\ U[j] = z
            BY <1>1, <3>1
        <3> QED
            BY Zenon, <3>1, <3>2 DEF Before
    <2>3. ASSUME In(T, y), z = x PROVE Before(U, y, z)
        <3>1. PICK i \in DOMAIN T : T[i] = y
            BY Zenon, <2>3 DEF In
        <3>2. i \in DOMAIN U /\ n + 1 \in DOMAIN U /\ i < n + 1 /\ U[i] = y /\ U[n + 1] = z
            BY <1>1, <2>3, <3>1
        <3> QED
            BY Zenon, <3>2 DEF Before
    <2> QED
        BY Zenon, <2>1, <2>2, <2>3
<1> QED
    BY Zenon, <1>1, <1>3, <1>4, <1>5 DEF Appended

\* ... that a commit keeps, with the deployment in the place of the request ...
LEMMA ReplaceOrder ==
    ASSUME NEW T \in Seq(Marks), Injective(T), NEW x, In(T, x), NEW y \in Marks, ~ In(T, y),
           NEW U, U = [T EXCEPT ![Place(T, x)] = y]
    PROVE  Replaced(T, x, y, U)
<1>1. PICK p \in DOMAIN T : T[p] = x
    BY Zenon DEF In
<1>2. Place(T, x) = p
    BY Zenon, <1>1, PlaceIs
<1>3. /\ DOMAIN U = DOMAIN T /\ U[p] = y /\ \A i \in DOMAIN T : i # p => U[i] = T[i]
      /\ DOMAIN T \subseteq Int
    BY <1>1, <1>2
<1>4. U \in Seq(Marks)
    BY <1>1, <1>2
<1>5. \A i \in DOMAIN T : T[i] # y /\ (T[i] = x => i = p)
    BY Zenon, <1>1 DEF In, Injective
<1>6. x # y
    BY Zenon, <1>1, <1>5
<1>7. Injective(U)
    BY ZenonT(60), <1>3, <1>5 DEF Injective
<1>8. ASSUME NEW z PROVE In(U, z) <=> z = y \/ (In(T, z) /\ z # x)
    BY Zenon, <1>1, <1>3, <1>5, <1>6 DEF In
<1>9. ASSUME NEW u, NEW v, Before(T, u, v), u # x, v # x PROVE Before(U, u, v)
    BY Zenon, <1>1, <1>3, <1>9 DEF Before
<1>10. ASSUME NEW u, Before(T, u, x) PROVE Before(U, u, y)
    <2>1. PICK i, j \in DOMAIN T : i < j /\ T[i] = u /\ T[j] = x
        BY Zenon, <1>10 DEF Before
    <2>2. j = p /\ i # p
        BY <1>3, <1>5, <2>1
    <2> QED
        BY Zenon, <1>3, <2>1, <2>2 DEF Before
<1>11. ASSUME NEW u, NEW v, Before(U, u, v), u # y, v # y PROVE Before(T, u, v)
    BY Zenon, <1>3, <1>11 DEF Before
<1> QED
    BY Zenon, <1>4, <1>6, <1>7, <1>8, <1>9, <1>10, <1>11 DEF Replaced

\* Removing a mark: the sequence without its p-th element.
LEMMA Dropped ==
    ASSUME NEW T \in Seq(Marks), NEW p \in 1..Len(T), NEW n \in Nat, n = Len(T)
    PROVE  LET U == SubSeq(T, 1, p - 1) \o SubSeq(T, p + 1, Len(T)) IN
           /\ U \in Seq(Marks) /\ DOMAIN U = 1..(n - 1)
           /\ \A i \in 1..(n - 1) : U[i] = T[IF i < p THEN i ELSE i + 1]
<1>1. PICK V : V = SubSeq(T, 1, p - 1)
    BY Zenon
<1>2. PICK W : W = SubSeq(T, p + 1, n)
    BY Zenon
<1>3. V \in Seq(Marks) /\ Len(V) = p - 1 /\ \A i \in 1..(p - 1) : V[i] = T[i]
    BY <1>1
<1>4. PICK q \in Nat : q = p + 1 /\ q \in 1..(n + 1)
    OBVIOUS
<1>5. /\ W \in Seq(Marks) /\ Len(W) = IF q <= n THEN n - q + 1 ELSE 0
      /\ \A i \in 1..Len(W) : W[i] = T[q + i - 1]
    BY SMTT(40), <1>2, <1>4
<1>6. Len(W) = n - p
    BY <1>4, <1>5
<1>7. ASSUME NEW i \in 1..(n - p) PROVE W[i] = T[p + i]
    <2>1. q + i - 1 = p + i
        BY <1>4
    <2> QED
        BY Zenon, <1>5, <1>6, <1>7, <2>1
<1>8. PICK U : U = V \o W
    BY Zenon
<1>s. V \in Seq(Marks) /\ W \in Seq(Marks)
    BY Zenon, <1>3, <1>5
<1>9. U \in Seq(Marks) /\ Len(U) = Len(V) + Len(W)
    BY <1>8, <1>s
<1>10. ASSUME NEW i \in 1..(Len(V) + Len(W))
       PROVE  U[i] = IF i <= Len(V) THEN V[i] ELSE W[i - Len(V)]
    BY <1>8, <1>s
<1>11. DOMAIN U = 1..(n - 1) /\ 1..(Len(V) + Len(W)) = 1..(n - 1)
    BY <1>3, <1>6, <1>9
<1>12. ASSUME NEW i \in 1..(n - 1) PROVE U[i] = T[IF i < p THEN i ELSE i + 1]
    <2>1. U[i] = IF i <= Len(V) THEN V[i] ELSE W[i - Len(V)]
        BY Zenon, <1>10, <1>11
    <2>2. CASE i <= p - 1
        <3>1. i \in 1..(p - 1) /\ i < p
            BY <2>2
        <3> QED
            BY Zenon, <1>3, <2>1, <2>2, <3>1
    <2>3. CASE ~ (i <= p - 1)
        <3>1. i - (p - 1) \in 1..(n - p) /\ p + (i - (p - 1)) = i + 1 /\ ~ (i < p)
            BY <2>3
        <3> QED
            BY Zenon, <1>3, <1>7, <2>1, <2>3, <3>1
    <2> QED
        BY Zenon, <2>2, <2>3
<1> QED
    BY Zenon, <1>1, <1>2, <1>8, <1>9, <1>11, <1>12

\* Where an element stood before an earlier one was removed.
Old(p, i) == IF i < p THEN i ELSE i + 1

\* The old places are in the same order.
LEMMA OldPlaces ==
    ASSUME NEW n \in Nat, NEW p \in 1..n
    PROVE  /\ \A i \in 1..(n - 1) : Old(p, i) \in 1..n /\ Old(p, i) # p
           /\ \A i, j \in 1..(n - 1) : /\ i < j => Old(p, i) < Old(p, j)
                                       /\ Old(p, i) < Old(p, j) => i < j
                                       /\ Old(p, i) = Old(p, j) => i = j
           /\ \A k \in 1..n : k # p => \E i \in 1..(n - 1) : Old(p, i) = k
<1>1. \A i \in 1..(n - 1) : Old(p, i) \in 1..n /\ Old(p, i) # p
    BY DEF Old
<1>2. \A i, j \in 1..(n - 1) : /\ i < j => Old(p, i) < Old(p, j)
                               /\ Old(p, i) < Old(p, j) => i < j
                               /\ Old(p, i) = Old(p, j) => i = j
    BY DEF Old
<1>3. ASSUME NEW k \in 1..n, k # p PROVE \E i \in 1..(n - 1) : Old(p, i) = k
    <2>1. CASE k < p
        <3>1. k \in 1..(n - 1) /\ Old(p, k) = k
            BY <2>1 DEF Old
        <3> QED
            BY Zenon, <3>1
    <2>2. CASE ~ (k < p)
        <3>1. k - 1 \in 1..(n - 1) /\ Old(p, k - 1) = k
            BY <1>3, <2>2 DEF Old
        <3> QED
            BY Zenon, <3>1
    <2> QED
        BY Zenon, <2>1, <2>2
<1> QED
    BY Zenon, <1>1, <1>2, <1>3

\* ... and that a request which is rolled back leaves as it is for the others.
LEMMA RemoveOrder ==
    ASSUME NEW T \in Seq(Marks), Injective(T), NEW x, In(T, x)
    PROVE  Removed(T, x, SubSeq(T, 1, Place(T, x) - 1) \o SubSeq(T, Place(T, x) + 1, Len(T)))
<1>1. PICK p \in DOMAIN T : T[p] = x
    BY Zenon DEF In
<1>2. Place(T, x) = p
    BY Zenon, <1>1, PlaceIs
<1>3. PICK n \in Nat : n = Len(T)
    OBVIOUS
<1>4. p \in 1..n /\ DOMAIN T = 1..n /\ p \in 1..Len(T)
    BY <1>3
<1>5. PICK U : U = SubSeq(T, 1, p - 1) \o SubSeq(T, p + 1, Len(T))
    BY Zenon
<1>6. /\ U \in Seq(Marks) /\ DOMAIN U = 1..(n - 1)
      /\ \A i \in DOMAIN U : U[i] = T[Old(p, i)]
    BY Zenon, <1>3, <1>4, <1>5, Dropped DEF Old
<1>7. /\ \A i \in DOMAIN U : Old(p, i) \in DOMAIN T /\ Old(p, i) # p
      /\ \A i, j \in DOMAIN U : /\ i < j => Old(p, i) < Old(p, j)
                                /\ Old(p, i) < Old(p, j) => i < j
                                /\ Old(p, i) = Old(p, j) => i = j
      /\ \A k \in DOMAIN T : k # p => \E i \in DOMAIN U : Old(p, i) = k
    <2>1. /\ \A i \in 1..(n - 1) : Old(p, i) \in 1..n /\ Old(p, i) # p
          /\ \A i, j \in 1..(n - 1) : /\ i < j => Old(p, i) < Old(p, j)
                                      /\ Old(p, i) < Old(p, j) => i < j
                                      /\ Old(p, i) = Old(p, j) => i = j
          /\ \A k \in 1..n : k # p => \E i \in 1..(n - 1) : Old(p, i) = k
        BY Zenon, <1>3, <1>4, OldPlaces
    <2> QED
        BY Zenon, <1>4, <1>6, <2>1
<1>8. \A i \in DOMAIN T : T[i] = x => i = p
    BY Zenon, <1>1 DEF Injective
<1>9. Injective(U)
    BY Zenon, <1>6, <1>7 DEF Injective
<1>10. ASSUME NEW z PROVE In(U, z) <=> In(T, z) /\ z # x
    <2>1. ASSUME In(U, z) PROVE In(T, z) /\ z # x
        BY Zenon, <1>6, <1>7, <1>8, <2>1 DEF In
    <2>2. ASSUME In(T, z), z # x PROVE In(U, z)
        BY ZenonT(60), <1>1, <1>6, <1>7, <2>2 DEF In
    <2> QED
        BY Zenon, <2>1, <2>2
<1>11. ASSUME NEW u, NEW v, Before(T, u, v), u # x, v # x PROVE Before(U, u, v)
    <2>1. PICK k, l \in DOMAIN T : k < l /\ T[k] = u /\ T[l] = v
        BY Zenon, <1>11 DEF Before
    <2>2. PICK i \in DOMAIN U : Old(p, i) = k
        BY Zenon, <1>1, <1>7, <1>11, <2>1
    <2>3. PICK j \in DOMAIN U : Old(p, j) = l
        BY Zenon, <1>1, <1>7, <1>11, <2>1
    <2>4. i < j /\ U[i] = u /\ U[j] = v
        BY Zenon, <1>6, <1>7, <2>1, <2>2, <2>3
    <2> QED
        BY Zenon, <2>4 DEF Before
<1>12. ASSUME NEW u, NEW v, Before(U, u, v) PROVE Before(T, u, v)
    <2>1. PICK i, j \in DOMAIN U : i < j /\ U[i] = u /\ U[j] = v
        BY Zenon, <1>12 DEF Before
    <2>2. /\ Old(p, i) \in DOMAIN T /\ Old(p, j) \in DOMAIN T /\ Old(p, i) < Old(p, j)
          /\ T[Old(p, i)] = u /\ T[Old(p, j)] = v
        BY Zenon, <1>6, <1>7, <2>1
    <2> QED
        BY Zenon, <2>2 DEF Before
<1>13. Removed(T, x, U)
    BY Zenon, <1>6, <1>9, <1>10, <1>11, <1>12 DEF Removed
<1> QED
    BY Zenon, <1>2, <1>5, <1>13

-----------------------------------------------------------------------------
(* The pointer *)

ActiveIn(D) == {d \in DOMAIN D : D[d].status = "ACTIVE"}

PointerIn(D, T) ==
    IF ActiveIn(D) = {} THEN 0
    ELSE CHOOSE d \in ActiveIn(D) :
            \A e \in ActiveIn(D) : Place(T, Activated(e)) <= Place(T, Activated(d))

\* d is ACTIVE and was activated after all others that are.
Newest(D, T, d) ==
    /\ d \in ActiveIn(D)
    /\ \A e \in ActiveIn(D) : e # d => Before(T, Activated(e), Activated(d))

\* What is ACTIVE and older than d is what d replaced, or is older than that.
BetweenIn(D, T) ==
    \A d, e \in ActiveIn(D) :
        Before(T, Activated(e), Activated(d)) =>
            /\ D[d].previous # 0
            /\ \/ e = D[d].previous
               \/ Before(T, Activated(e), Activated(D[d].previous))

\* The pointer as a function of the rows and their order, before and after a step.
LEMMA PointerIs ==
    /\ Pointer = PointerIn(deployments, timeline) /\ Active = ActiveIn(deployments)
    /\ Pointer' = PointerIn(deployments', timeline') /\ Active' = ActiveIn(deployments')
BY DEF Pointer, PointerIn, Active, ActiveIn, At, Place

\* ORDER BY activated_at DESC LIMIT 1 finds the newest ACTIVE deployment.
LEMMA PointerNewest ==
    ASSUME NEW T \in Seq(Marks), Injective(T), NEW D,
           \A d \in ActiveIn(D) : In(T, Activated(d)), ActiveIn(D) # {}
    PROVE  Newest(D, T, PointerIn(D, T))
<1> DEFINE places == {i \in DOMAIN T : \E d \in ActiveIn(D) : T[i] = Activated(d)}
           Last(d) == \A e \in ActiveIn(D) : Place(T, Activated(e)) <= Place(T, Activated(d))
<1>1. Len(T) \in Nat /\ DOMAIN T = 1..Len(T) /\ DOMAIN T \subseteq 0..Len(T) /\ DOMAIN T \subseteq Int
    OBVIOUS
<1>2. places \subseteq 0..Len(T) /\ places # {}
    BY Zenon, <1>1 DEF In
<1>3. PICK p \in places : \A i \in places : i <= p
    BY Zenon, <1>1, <1>2, GreatestExists
<1>4. PICK d \in ActiveIn(D) : T[p] = Activated(d)
    BY Zenon, <1>3
<1>5. \A e \in ActiveIn(D) : /\ Place(T, Activated(e)) \in places
                             /\ T[Place(T, Activated(e))] = Activated(e)
    BY Zenon, PlaceIs DEF In
<1>6. Place(T, Activated(d)) = p
    BY Zenon, <1>3, <1>4, PlaceIs
<1>7. Last(d)
    BY Zenon, <1>3, <1>5, <1>6
<1>8. PointerIn(D, T) \in ActiveIn(D) /\ Last(PointerIn(D, T))
    BY Zenon, <1>4, <1>7 DEF PointerIn
<1>9. ASSUME NEW e \in ActiveIn(D), e # PointerIn(D, T)
      PROVE  Before(T, Activated(e), Activated(PointerIn(D, T)))
    <2>1. PICK q : q = PointerIn(D, T)
        BY Zenon
    <2>2. PICK i \in DOMAIN T : i = Place(T, Activated(e)) /\ T[i] = Activated(e)
        BY Zenon, <1>5
    <2>3. PICK j \in DOMAIN T : j = Place(T, Activated(q)) /\ T[j] = Activated(q)
        BY Zenon, <1>5, <1>8, <2>1
    <2>4. i <= j
        BY Zenon, <1>8, <2>1, <2>2, <2>3
    <2>5. Activated(e) # Activated(q)
        BY <1>9, <2>1 DEF Activated
    <2>6. i < j
        BY <1>1, <2>2, <2>3, <2>4, <2>5
    <2> QED
        BY Zenon, <2>1, <2>2, <2>3, <2>6 DEF Before
<1> QED
    BY Zenon, <1>8, <1>9 DEF Newest

\* There is only one newest.
LEMMA NewestIsPointer ==
    ASSUME NEW T \in Seq(Marks), Injective(T), NEW D, NEW d, Newest(D, T, d),
           \A e \in ActiveIn(D) : In(T, Activated(e))
    PROVE  PointerIn(D, T) = d
<1>1. Newest(D, T, PointerIn(D, T))
    BY Zenon, PointerNewest DEF Newest
<1> QED
    BY Zenon, <1>1, BeforeOrder DEF Newest

\* The request of a becomes the deployment n, which replaces the pointer and began after it.
Activating(D, T, E, U, a, n) ==
    /\ In(T, Entry(a)) /\ ~ In(T, Activated(n))
    /\ U = [T EXCEPT ![Place(T, Entry(a))] = Activated(n)]
    /\ ActiveIn(E) = ActiveIn(D) \cup {n}
    /\ \A d \in ActiveIn(D) : /\ In(T, Activated(d)) /\ E[d].previous = D[d].previous
                              /\ D[d].previous # 0 => In(T, Activated(D[d].previous))
    /\ E[n].previous = PointerIn(D, T) /\ 0 \notin ActiveIn(D)
    /\ ActiveIn(D) # {} => Before(T, Activated(PointerIn(D, T)), Entry(a))
    /\ BetweenIn(D, T)

\* A deployment whose request began after the pointer was activated is the newest, and what
\* it replaced is next to it among the ACTIVE ones.
LEMMA ActivationOrder ==
    ASSUME NEW T \in Seq(Marks), Injective(T), NEW D, NEW E, NEW U, NEW a \in Admins,
           NEW n \in Nat, Activating(D, T, E, U, a, n)
    PROVE  Newest(E, U, n) /\ BetweenIn(E, U)
<1> USE DEF Activating
<1> DEFINE x == Entry(a)
           y == Activated(n)
<1>1. \A d : Activated(d) # x
    BY DEF Entry, Activated
<1>2. \A d, e : Activated(d) = Activated(e) => d = e
    BY DEF Activated
<1>3. y \in Marks
    BY DEF Marks, Activated
<1> HIDE DEF x, y
<1>4. PICK q : q = PointerIn(D, T)
    BY Zenon
<1>5. /\ U \in Seq(Marks) /\ Injective(U)
      /\ \A u, v : Before(T, u, v) /\ u # x /\ v # x => Before(U, u, v)
      /\ \A u : Before(T, u, x) => Before(U, u, y)
      /\ \A u, v : Before(U, u, v) /\ u # y /\ v # y => Before(T, u, v)
    <2>1. In(T, x) /\ ~ In(T, y) /\ U = [T EXCEPT ![Place(T, x)] = y]
        BY Zenon DEF x, y
    <2>2. Replaced(T, x, y, U)
        BY Zenon, <1>3, <2>1, ReplaceOrder
    <2> QED
        BY Zenon, <2>2 DEF Replaced
<1>6. ASSUME ActiveIn(D) # {} PROVE Newest(D, T, q) /\ Before(T, Activated(q), x) /\ q # 0
    BY Zenon, <1>4, <1>6, PointerNewest DEF Newest, x
<1>7. ASSUME NEW e \in ActiveIn(D)
      PROVE  e # n /\ Activated(e) # y /\ Before(U, Activated(e), y)
    <2>1. Newest(D, T, q) /\ Before(T, Activated(q), x)
        BY Zenon, <1>6, <1>7
    <2>2. Before(T, Activated(e), x)
        BY Zenon, <1>7, <2>1, BeforeOrder DEF Newest
    <2>3. e # n
        BY Zenon, <1>7
    <2> QED
        BY Zenon, <1>2, <1>5, <2>2, <2>3 DEF y
<1>8. Newest(E, U, n)
    BY Zenon, <1>7 DEF Newest, y
<1>9. ASSUME NEW d \in ActiveIn(E), NEW e \in ActiveIn(E), Before(U, Activated(e), Activated(d))
      PROVE  /\ E[d].previous # 0
             /\ e = E[d].previous \/ Before(U, Activated(e), Activated(E[d].previous))
    <2>1. e # n
        <3>1. CASE d = n
            BY Zenon, <1>5, <1>9, <3>1, BeforeOrder
        <3>2. CASE d # n
            <4>1. Before(U, Activated(d), y)
                BY Zenon, <1>7, <1>9, <3>2
            <4> QED
                BY Zenon, <1>5, <1>9, <4>1, BeforeOrder DEF y
        <3> QED
            BY Zenon, <3>1, <3>2
    <2>2. e \in ActiveIn(D)
        BY Zenon, <1>9, <2>1
    <2>3. CASE d = n
        <3>1. Newest(D, T, q) /\ q # 0 /\ E[d].previous = q
            BY Zenon, <1>4, <1>6, <2>2, <2>3
        <3>2. e # q => Before(T, Activated(e), Activated(q))
            BY Zenon, <2>2, <3>1 DEF Newest
        <3> QED
            BY Zenon, <1>1, <1>5, <3>1, <3>2
    <2>4. CASE d # n
        <3>1. d \in ActiveIn(D) /\ E[d].previous = D[d].previous
            BY Zenon, <1>9, <2>4
        <3>2. Before(T, Activated(e), Activated(d))
            BY Zenon, <1>5, <1>7, <1>9, <2>2, <3>1
        <3>3. /\ D[d].previous # 0
              /\ e = D[d].previous \/ Before(T, Activated(e), Activated(D[d].previous))
            BY Zenon, <2>2, <3>1, <3>2 DEF BetweenIn
        <3> QED
            BY Zenon, <1>1, <1>5, <3>1, <3>3
    <2> QED
        BY Zenon, <2>3, <2>4
<1> QED
    BY Zenon, <1>8, <1>9 DEF BetweenIn

-----------------------------------------------------------------------------
(* Promotion: the invariant *)

\* What stands in the timeline: the activated deployments and the requests under way, once each.
TimelineOK ==
    /\ timeline \in Seq(Marks) /\ Injective(timeline)
    /\ \A d \in Nat : In(timeline, Activated(d)) <=>
            d \in DOMAIN deployments /\ deployments[d].status # "PENDING_APPROVAL"
    /\ \A a \in Admins : In(timeline, Entry(a)) <=> request[a] # Idle

\* Outside production every row is ACTIVE, and a request that names the version of the
\* pointer began after it.
StagingOK ==
    /\ \A d \in DOMAIN deployments : deployments[d].status = "ACTIVE"
    /\ \A a \in Admins : request[a] # Idle =>
            /\ request[a].kind \in {"create", "rollback"} /\ request[a].at = "begun"
            /\ request[a].expect <= Version(Pointer)
            /\ Pointer # 0 /\ request[a].expect = Version(Pointer) =>
                    Before(timeline, Activated(Pointer), Entry(a))

\* An approval past the gate has the lock of the application, and the gate is still open.
GatedOK(a) ==
    /\ lock = a
    /\ deployments[request[a].target].status = "PENDING_APPROVAL"
    /\ deployments[request[a].target].initiator # a
    /\ GateOpen(deployments[request[a].target].release)

\* In production an approval began after what its deployment replaces was activated.
ProductionOK ==
    \A a \in Admins : request[a] # Idle =>
        /\ request[a].kind = "approve" /\ request[a].target \in DOMAIN deployments
        /\ deployments[request[a].target].previous # 0 =>
                Before(timeline, Activated(deployments[request[a].target].previous), Entry(a))
        /\ request[a].at = "gated" => GatedOK(a)

\* What a deployment replaces was ACTIVE once.
PreviousOK ==
    \A d \in DOMAIN deployments : deployments[d].previous # 0 =>
        deployments[deployments[d].previous].status # "PENDING_APPROVAL"

\* A run belongs to a suite, and one that passed is sound.
RunsOK ==
    \A n \in DOMAIN runs : /\ runs[n].suite \in DOMAIN suites
                           /\ runs[n].status = "PASSED" => Sound(runs[n])

\* Nothing is deployed in a behaviour about something else.
NotPromoting ==
    /\ deployments = <<>> /\ timeline = <<>> /\ suites = <<>> /\ runs = <<>>
    /\ request = [a \in Admins |-> Idle]

PromotionInv ==
    /\ DeploymentTypeOK /\ lock \in Admins \cup {Nobody} /\ releases \in Seq(ReleaseRow)
    /\ TimelineOK /\ PreviousOK /\ RunsOK
    /\ BetweenIn(deployments, timeline)
    /\ IF Production THEN ProductionOK /\ PromotedOnEvidence ELSE StagingOK

-----------------------------------------------------------------------------
(* Promotion: what the invariant says of a row, a request and the pointer *)

\* The parts of the type invariant.
LEMMA Types ==
    ASSUME PromotionInv
    PROVE  /\ environment \in {"STAGING", "PRODUCTION"}
           /\ deployments \in Seq(Deployment) /\ Len(deployments) <= MaxDeployments
           /\ Len(deployments) \in Nat /\ DOMAIN deployments = 1..Len(deployments)
           /\ request \in [Admins -> Request] /\ suites \in Seq(SuiteBodies) /\ runs \in Seq(Run)
           /\ \A d \in DOMAIN deployments :
                /\ deployments[d] \in Deployment /\ d \in Nat /\ d # 0
                /\ deployments[d].release \in DOMAIN releases
                /\ deployments[d].previous \in 0..(d - 1)
           /\ \A a \in Admins : request[a] \in Request
<1>1. /\ environment \in {"STAGING", "PRODUCTION"}
      /\ deployments \in Seq(Deployment) /\ Len(deployments) <= MaxDeployments
      /\ request \in [Admins -> Request] /\ suites \in Seq(SuiteBodies) /\ runs \in Seq(Run)
      /\ \A d \in DOMAIN deployments :
            /\ deployments[d].release \in DOMAIN releases
            /\ deployments[d].previous \in 0..(d - 1)
    BY Zenon DEF PromotionInv, DeploymentTypeOK
<1>2. /\ Len(deployments) \in Nat /\ DOMAIN deployments = 1..Len(deployments)
      /\ \A d \in DOMAIN deployments : deployments[d] \in Deployment /\ d \in Nat /\ d # 0
    BY <1>1
<1>3. \A a \in Admins : request[a] \in Request
    BY Zenon, <1>1
<1> QED
    BY Zenon, <1>1, <1>2, <1>3

\* The pointer is an ACTIVE row of the timeline, or 0 if there is none.
LEMMA PointerOK ==
    ASSUME PromotionInv
    PROVE  /\ Pointer = PointerIn(deployments, timeline) /\ Pointer \in Nat
           /\ \A d \in ActiveIn(deployments) : /\ d \in DOMAIN deployments /\ d # 0
                                               /\ In(timeline, Activated(d))
           /\ ActiveIn(deployments) = {} <=> Pointer = 0
           /\ Pointer # 0 => /\ Newest(deployments, timeline, Pointer)
                             /\ Pointer \in ActiveIn(deployments)
                             /\ Pointer \in DOMAIN deployments
           /\ Version(Pointer) \in Nat
           /\ Pointer # 0 => Version(Pointer) # 0 /\ Version(Pointer) = deployments[Pointer].version
<1>1. Pointer = PointerIn(deployments, timeline)
    BY Zenon, PointerIs
<1>2. \A d \in ActiveIn(deployments) : d \in DOMAIN deployments /\ d # 0 /\ d \in Nat
    BY Zenon, Types DEF ActiveIn
<1>3. timeline \in Seq(Marks) /\ Injective(timeline)
    BY Zenon DEF PromotionInv, TimelineOK
<1>4. \A d \in ActiveIn(deployments) : In(timeline, Activated(d))
    <2>1. \A d \in ActiveIn(deployments) : deployments[d].status # "PENDING_APPROVAL"
        BY DEF ActiveIn
    <2> QED
        BY Zenon, <1>2, <2>1 DEF PromotionInv, TimelineOK
<1>5. CASE ActiveIn(deployments) = {}
    <2>1. Pointer = 0
        BY Zenon, <1>1, <1>5 DEF PointerIn
    <2> QED
        BY <1>1, <1>2, <1>4, <1>5, <2>1 DEF Version
<1>6. CASE ActiveIn(deployments) # {}
    <2>1. Newest(deployments, timeline, Pointer)
        BY Zenon, <1>1, <1>3, <1>4, <1>6, PointerNewest
    <2>2. Pointer \in ActiveIn(deployments) /\ Pointer # 0 /\ Pointer \in DOMAIN deployments
        BY Zenon, <1>2, <2>1 DEF Newest
    <2>3. deployments[Pointer].version \in Nat \ {0} /\ Pointer \in Nat
        BY Zenon, <2>2, Types DEF Deployment
    <2>4. Version(Pointer) = deployments[Pointer].version
        BY Zenon, <2>2 DEF Version
    <2>5. Version(Pointer) \in Nat /\ Version(Pointer) # 0
        BY <2>3, <2>4
    <2> QED
        BY Zenon, <1>1, <1>2, <1>4, <1>6, <2>1, <2>2, <2>3, <2>4, <2>5
<1> QED
    BY Zenon, <1>5, <1>6

\* The type invariant after a step, from its parts.
LEMMA TypesFrom ==
    ASSUME TimelineOK', environment' \in {"STAGING", "PRODUCTION"},
           deployments' \in Seq(Deployment), Len(deployments') <= MaxDeployments,
           request' \in [Admins -> Request], suites' \in Seq(SuiteBodies), runs' \in Seq(Run),
           \A d \in DOMAIN deployments' : /\ deployments'[d].release \in DOMAIN releases'
                                          /\ deployments'[d].previous \in 0..(d - 1)
    PROVE  DeploymentTypeOK'
<1>1. timeline' \in Seq(({"request"} \X Admins) \cup ({"deployment"} \X Nat))
    BY Zenon DEF TimelineOK, Marks
<1>2. \A d \in DOMAIN deployments' : d \in Nat
    OBVIOUS
<1>3. \A d \in DOMAIN deployments' :
        IsActivated(d)' <=> deployments'[d].status # "PENDING_APPROVAL"
    BY Zenon, <1>2 DEF TimelineOK, IsActivated, In
<1>4. \A a \in Admins :
        request'[a] # Idle <=> Entry(a) \in {timeline'[i] : i \in DOMAIN timeline'}
    BY Zenon DEF TimelineOK, In
<1> QED
    BY Zenon, <1>1, <1>3, <1>4 DEF DeploymentTypeOK

-----------------------------------------------------------------------------
(* Evaluation runs *)

\* Sound of a run of this suite.
SoundOn(suite, run) ==
    /\ \A x \in suite.assertions : x \in run.evidence.assertions
    /\ \A m \in {"quality", "latency_ms", "cost_micros"} : run.evidence[m] # None
    /\ suite.quality_min \in Nat => run.evidence.quality >= suite.quality_min
    /\ \A p \in {<<"latency_ms", "latency_ms_max">>, <<"cost_micros", "cost_micros_max">>} :
          run.evidence[p[1]] <= Threshold(suite[p[2]])

\* The release has a sound production run.
Evidenced(release) ==
    \E n \in DOMAIN runs : /\ runs[n].release = release /\ runs[n].environment = "PRODUCTION"
                           /\ runs[n].status = "PASSED" /\ Sound(runs[n])

\* Sound and SoundOn say the same of a stored run, before and after a step.
LEMMA SoundIs ==
    \A n : /\ Sound(runs[n]) <=> SoundOn(suites[runs[n].suite], runs[n])
           /\ Sound(runs[n])' <=> SoundOn(suites'[runs'[n].suite], runs'[n])
BY Zenon DEF Sound, SoundOn

\* evaluate_evidence lets only sound evidence pass.
LEMMA EvaluateSound ==
    ASSUME NEW suite \in SuiteBodies, NEW run, run.evidence \in Evidences,
           EvaluateEvidence(suite, run.evidence) = "PASSED"
    PROVE  SoundOn(suite, run)
<1> DEFINE e == run.evidence
<1>1. FailedAssertions(suite, e) = {} /\ FailedThresholds(suite, e) = {}
    BY DEF EvaluateEvidence
<1>2. \A x \in suite.assertions : x \in e.assertions
    BY Zenon, <1>1 DEF FailedAssertions
<1>3. /\ \A m \in {"quality", "latency_ms", "cost_micros"} : e[m] # None
      /\ ~ (e["quality"] < Threshold(suite.quality_min))
      /\ ~ (e["latency_ms"] > Threshold(suite.latency_ms_max))
      /\ ~ (e["cost_micros"] > Threshold(suite.cost_micros_max))
    BY <1>1 DEF FailedThresholds
<1>4. /\ {suite.quality_min, suite.latency_ms_max, suite.cost_micros_max} \subseteq Int \cup {None}
      /\ {e["quality"], e["latency_ms"], e["cost_micros"]} \subseteq Int \cup {None}
    BY Zenon, DeploymentAssumption
<1>5. \A v \in Int \cup {None} : Threshold(v) \in Int /\ (v \in Nat => Threshold(v) = v)
    BY DeploymentAssumption DEF Threshold
<1>6. e["quality"] \in Int /\ e["latency_ms"] \in Int /\ e["cost_micros"] \in Int
    BY Zenon, <1>3, <1>4
<1>7. suite.quality_min \in Nat => e.quality >= suite.quality_min
    BY <1>3, <1>4, <1>5, <1>6
<1>8. /\ e["latency_ms"] <= Threshold(suite["latency_ms_max"])
      /\ e["cost_micros"] <= Threshold(suite["cost_micros_max"])
    <2>1. \A x, y \in Int : ~ (x > y) => x <= y
        OBVIOUS
    <2>2. Threshold(suite.latency_ms_max) \in Int /\ Threshold(suite.cost_micros_max) \in Int
        BY Zenon, <1>4, <1>5
    <2> QED
        BY Zenon, <1>3, <1>6, <2>1, <2>2
<1> HIDE DEF e
<1>9. \A p \in {<<"latency_ms", "latency_ms_max">>, <<"cost_micros", "cost_micros_max">>} :
          e[p[1]] <= Threshold(suite[p[2]])
    BY <1>8
<1> QED
    BY Zenon, <1>2, <1>3, <1>7, <1>9 DEF SoundOn, e

\* Passed runs and suites are never changed, so evidence stays.
LEMMA EvidenceStays ==
    ASSUME RunsOK, NEW release, Evidenced(release),
           \A n \in DOMAIN runs : runs[n].status = "PASSED" =>
                n \in DOMAIN runs' /\ runs'[n] = runs[n],
           \A s \in DOMAIN suites : suites'[s] = suites[s]
    PROVE  Evidenced(release)'
<1>1. PICK n \in DOMAIN runs : /\ runs[n].release = release /\ runs[n].environment = "PRODUCTION"
                               /\ runs[n].status = "PASSED" /\ Sound(runs[n])
    BY Zenon DEF Evidenced
<1>2. n \in DOMAIN runs' /\ runs'[n] = runs[n] /\ suites'[runs[n].suite] = suites[runs[n].suite]
    BY Zenon, <1>1 DEF RunsOK
<1>3. Sound(runs[n])'
    BY Zenon, <1>1, <1>2, SoundIs
<1> QED
    BY Zenon, <1>1, <1>2, <1>3 DEF Evidenced

\* A step of the suites and runs keeps the invariant if it changes no passed run and, while
\* somebody has the lock, no committed one.
LEMMA RunsStep ==
    ASSUME PromotionInv,
           UNCHANGED <<environment, releases, deployments, timeline, request, lock>>,
           suites' \in Seq(SuiteBodies), runs' \in Seq(Run), RunsOK',
           \A n \in DOMAIN runs : runs[n].status = "PASSED" =>
                n \in DOMAIN runs' /\ runs'[n] = runs[n],
           \A s \in DOMAIN suites : suites'[s] = suites[s],
           ~ Unlocked => \A r \in Nat : GateOpen(r) => GateOpen(r)'
    PROVE  PromotionInv'
<1>1. TimelineOK' /\ PreviousOK' /\ BetweenIn(deployments', timeline')
    BY Zenon DEF PromotionInv, TimelineOK, PreviousOK
<1>2. DeploymentTypeOK'
    BY Zenon, <1>1, Types, TypesFrom
<1>3. Pointer' = Pointer /\ Version(Pointer)' = Version(Pointer)
    <2>1. Pointer' = Pointer
        BY Zenon, PointerIs
    <2> QED
        BY Zenon, <2>1 DEF Version
<1>4. CASE Production
    <2>1. ASSUME NEW a \in Admins, request'[a] # Idle, request'[a].at = "gated" PROVE GatedOK(a)'
        <3>1. GatedOK(a) /\ request[a].target \in DOMAIN deployments
            BY Zenon, <1>4, <2>1 DEF PromotionInv, ProductionOK
        <3>2. deployments[request[a].target].release \in Nat
            BY Zenon, <3>1, Types DEF Deployment
        <3>3. ~ Unlocked
            BY Zenon, <2>1, <3>1, DeploymentAssumption DEF GatedOK, Unlocked
        <3>4. GateOpen(deployments[request[a].target].release)'
            BY Zenon, <3>1, <3>2, <3>3 DEF GatedOK
        <3> QED
            BY Zenon, <3>1, <3>4 DEF GatedOK
    <2>2. ProductionOK'
        BY Zenon, <1>4, <2>1 DEF PromotionInv, ProductionOK
    <2>3. \A r : Evidenced(r) => Evidenced(r)'
        BY Zenon, EvidenceStays DEF PromotionInv
    <2>4. PromotedOnEvidence'
        BY ZenonT(60), <1>4, <2>3 DEF PromotionInv, PromotedOnEvidence, Evidenced, Production
    <2> QED
        BY Zenon, <1>1, <1>2, <1>4, <2>2, <2>4 DEF PromotionInv, Production
<1>5. CASE ~ Production
    <2>1. StagingOK'
        BY Zenon, <1>3, <1>5 DEF PromotionInv, StagingOK
    <2> QED
        BY Zenon, <1>1, <1>2, <1>5, <2>1 DEF PromotionInv, Production
<1> QED
    BY Zenon, <1>4, <1>5

\* create_eval_suite.
LEMMA SuiteInv ==
    ASSUME PromotionInv, NEW body \in SuiteBodies, CreateEvalSuite(body)
    PROVE  PromotionInv'
<1>1. /\ suites' = Append(suites, body) /\ runs' = runs /\ suites \in Seq(SuiteBodies)
      /\ runs \in Seq(Run) /\ RunsOK
      /\ UNCHANGED <<environment, releases, deployments, timeline, request, lock>>
    BY Zenon, Types DEF CreateEvalSuite, PromotionInv
<1>2. /\ suites' \in Seq(SuiteBodies) /\ DOMAIN suites \subseteq DOMAIN suites'
      /\ \A s \in DOMAIN suites : suites'[s] = suites[s]
    BY <1>1
<1>3. RunsOK'
    BY Zenon, <1>1, <1>2, SoundIs DEF RunsOK
<1>4. \A r : GateOpen(r) => GateOpen(r)'
    BY Zenon, <1>1 DEF GateOpen, ProductionRuns
<1> QED
    BY Zenon, <1>1, <1>2, <1>3, <1>4, RunsStep

\* A run that begins is not committed.
LEMMA BeginRunInv ==
    ASSUME PromotionInv, NEW release \in DOMAIN releases, NEW env \in {"STAGING", "PRODUCTION"},
           BeginEvalRun(release, env)
    PROVE  PromotionInv'
<1> DEFINE new == [release |-> release, environment |-> env, suite |-> Len(suites),
                   evidence |-> None, status |-> "OPEN"]
<1>1. /\ runs' = Append(runs, new) /\ suites' = suites /\ suites # <<>>
      /\ suites \in Seq(SuiteBodies) /\ runs \in Seq(Run) /\ RunsOK /\ releases \in Seq(ReleaseRow)
      /\ UNCHANGED <<environment, releases, deployments, timeline, request, lock>>
    BY Zenon, Types DEF BeginEvalRun, PromotionInv
<1>2. release \in Nat /\ Len(suites) \in Nat /\ Len(suites) \in DOMAIN suites
    BY <1>1
<1>3. new \in Run /\ new.status = "OPEN" /\ new.suite = Len(suites)
    BY <1>2 DEF Run
<1> HIDE DEF new
<1>4. PICK k \in Nat : k = Len(runs)
    BY <1>1
<1>5. /\ runs' \in Seq(Run) /\ DOMAIN runs = 1..k /\ DOMAIN runs' = 1..(k + 1)
      /\ runs'[k + 1] = new /\ \A n \in 1..k : runs'[n] = runs[n]
    BY <1>1, <1>3, <1>4
<1>6. \A n \in DOMAIN runs' : n = k + 1 \/ n \in DOMAIN runs
    BY <1>4, <1>5
<1>7. \A n \in DOMAIN runs : n \in DOMAIN runs' /\ runs'[n] = runs[n]
    BY <1>4, <1>5
<1>8. RunsOK'
    <2>1. ASSUME NEW n \in DOMAIN runs'
          PROVE  runs'[n].suite \in DOMAIN suites' /\ (runs'[n].status = "PASSED" => Sound(runs[n])')
        <3>1. CASE n = k + 1
            BY <1>1, <1>2, <1>3, <1>5, <3>1
        <3>2. CASE n \in DOMAIN runs
            BY Zenon, <1>1, <1>7, <3>2, SoundIs DEF RunsOK
        <3> QED
            BY Zenon, <1>6, <2>1, <3>1, <3>2
    <2> QED
        BY Zenon, <2>1 DEF RunsOK
<1>9. \A r, n : n \in ProductionRuns(r)' <=> n \in ProductionRuns(r)
    <2>1. runs'[k + 1].status = "OPEN"
        BY Zenon, <1>3, <1>5
    <2> QED
        BY Zenon, <1>6, <1>7, <2>1 DEF ProductionRuns
<1>10. \A r : GateOpen(r) => GateOpen(r)'
    <2>1. \A r : \A n \in ProductionRuns(r) : runs'[n] = runs[n]
        BY Zenon, <1>7 DEF ProductionRuns
    <2> QED
        BY Zenon, <1>9, <2>1 DEF GateOpen
<1> QED
    BY Zenon, <1>1, <1>5, <1>7, <1>8, <1>10, RunsStep

\* A run commits only while nobody has the lock.
LEMMA CommitRunInv ==
    ASSUME PromotionInv, NEW n \in DOMAIN runs, NEW evidence \in Evidences,
           CommitEvalRun(n, evidence)
    PROVE  PromotionInv'
<1>1. /\ runs[n].status = "OPEN" /\ Unlocked /\ suites' = suites
      /\ suites \in Seq(SuiteBodies) /\ runs \in Seq(Run) /\ RunsOK
      /\ UNCHANGED <<environment, releases, deployments, timeline, request, lock>>
    BY Zenon, Types DEF CommitEvalRun, RunMayInsert, PromotionInv
<1>2. runs[n] \in Run /\ runs[n].suite \in DOMAIN suites /\ suites[runs[n].suite] \in SuiteBodies
    BY <1>1 DEF RunsOK
<1>3. PICK status \in {"PASSED", "FAILED"} :
        status = EvaluateEvidence(suites[runs[n].suite], evidence)
    BY Zenon DEF EvaluateEvidence
<1>p. PICK new : new = [runs[n] EXCEPT !.evidence = evidence, !.status = status]
    BY Zenon
<1>4. /\ new \in Run /\ new.suite = runs[n].suite /\ new.status = status
      /\ new.evidence = evidence
    BY Zenon, <1>2, <1>3, <1>p DEF Run
<1>5. runs' = [runs EXCEPT ![n] = new]
    BY Zenon, <1>1, <1>3, <1>p DEF CommitEvalRun
<1>6. /\ runs' \in Seq(Run) /\ DOMAIN runs' = DOMAIN runs /\ runs'[n] = new
      /\ \A m \in DOMAIN runs : m # n => runs'[m] = runs[m]
    BY <1>1, <1>4, <1>5
<1>7. new.status = "PASSED" => SoundOn(suites[new.suite], new)
    BY Zenon, <1>2, <1>3, <1>4, EvaluateSound
<1>8. RunsOK'
    <2>1. ASSUME NEW m \in DOMAIN runs'
          PROVE  runs'[m].suite \in DOMAIN suites' /\ (runs'[m].status = "PASSED" => Sound(runs[m])')
        <3>1. CASE m = n
            BY ZenonT(60), <1>1, <1>2, <1>4, <1>6, <1>7, <3>1, SoundIs
        <3>2. CASE m # n
            BY Zenon, <1>1, <1>6, <2>1, <3>2, SoundIs DEF RunsOK
        <3> QED
            BY Zenon, <3>1, <3>2
    <2> QED
        BY Zenon, <2>1 DEF RunsOK
<1>9. \A m \in DOMAIN runs : runs[m].status = "PASSED" => m \in DOMAIN runs' /\ runs'[m] = runs[m]
    <2>1. runs[n].status # "PASSED"
        BY <1>1
    <2> QED
        BY Zenon, <1>6, <2>1
<1> QED
    BY Zenon, <1>1, <1>6, <1>8, <1>9, RunsStep

-----------------------------------------------------------------------------
(* Requests *)

-----------------------------------------------------------------------------
(* Promotion: what a step that leaves the evidence alone preserves *)

\* GateOpen of these runs.
Open(R, release) ==
    \E n \in DOMAIN R :
        /\ R[n].release = release /\ R[n].environment = "PRODUCTION" /\ R[n].status # "OPEN"
        /\ R[n].status = "PASSED"
        /\ \A m \in DOMAIN R :
                R[m].release = release /\ R[m].environment = "PRODUCTION" /\ R[m].status # "OPEN"
                    => m <= n

\* The gate of an approval, before and after a step of the handlers.
LEMMA GatedIs ==
    \A b : /\ GatedOK(b) <=> /\ lock = b
                             /\ deployments[request[b].target].status = "PENDING_APPROVAL"
                             /\ deployments[request[b].target].initiator # b
                             /\ Open(runs, deployments[request[b].target].release)
           /\ GatedOK(b)' <=> /\ lock' = b
                              /\ deployments'[request'[b].target].status = "PENDING_APPROVAL"
                              /\ deployments'[request'[b].target].initiator # b
                              /\ Open(runs', deployments'[request'[b].target].release)
BY ZenonT(60) DEF GatedOK, GateOpen, ProductionRuns, Open

\* The deployment that one replaces is an older row, and it was activated.
LEMMA PreviousIn ==
    ASSUME PromotionInv, NEW e \in DOMAIN deployments, deployments[e].previous # 0
    PROVE  /\ deployments[e].previous \in DOMAIN deployments /\ deployments[e].previous \in Nat
           /\ deployments[deployments[e].previous].status # "PENDING_APPROVAL"
<1>1. deployments[e].previous \in 0..(e - 1) /\ e \in 1..Len(deployments)
    BY Zenon, Types
<1>2. deployments[e].previous \in DOMAIN deployments /\ deployments[e].previous \in Nat
    BY <1>1, Types
<1> QED
    BY Zenon, <1>2 DEF PromotionInv, PreviousOK

\* Rows are never demoted to PENDING_APPROVAL, so what was activated once stays so.
LEMMA PreviousStays ==
    ASSUME \A e \in DOMAIN deployments : deployments[e].status # "PENDING_APPROVAL" =>
                deployments'[e].status # "PENDING_APPROVAL",
           \A e \in DOMAIN deployments' : deployments'[e].previous # 0 =>
                \E f \in DOMAIN deployments : /\ deployments'[e].previous = f
                                              /\ deployments[f].status # "PENDING_APPROVAL"
    PROVE  PreviousOK'
BY Zenon DEF PreviousOK

\* PromotedOnEvidence after a step, row by row.
LEMMA PromotedFrom ==
    ASSUME \A e \in DOMAIN deployments' : deployments'[e].status # "PENDING_APPROVAL" =>
                /\ deployments'[e].approver \notin {deployments'[e].initiator, Nobody}
                /\ \E r : r = deployments'[e].release /\ Evidenced(r)'
    PROVE  PromotedOnEvidence'
BY Zenon DEF PromotedOnEvidence, Evidenced

\* No row gets past its approval, so those that did before are still evidenced.
LEMMA PromotedStays ==
    ASSUME PromotionInv, Production, runs' = runs, suites' = suites,
           \A e \in DOMAIN deployments' : deployments'[e].status # "PENDING_APPROVAL" =>
                /\ e \in DOMAIN deployments /\ deployments[e].status # "PENDING_APPROVAL"
                /\ deployments'[e].approver = deployments[e].approver
                /\ deployments'[e].initiator = deployments[e].initiator
                /\ deployments'[e].release = deployments[e].release
    PROVE  PromotedOnEvidence'
<1>1. \A r : Evidenced(r) => Evidenced(r)'
    BY Zenon, EvidenceStays DEF PromotionInv
<1>2. ASSUME NEW e \in DOMAIN deployments', deployments'[e].status # "PENDING_APPROVAL"
      PROVE  /\ deployments'[e].approver \notin {deployments'[e].initiator, Nobody}
             /\ \E r : r = deployments'[e].release /\ Evidenced(r)'
    <2>1. /\ deployments[e].approver \notin {deployments[e].initiator, Nobody}
          /\ Evidenced(deployments[e].release)
        BY Zenon, <1>2 DEF PromotionInv, PromotedOnEvidence, Evidenced
    <2> QED
        BY Zenon, <1>1, <1>2, <2>1
<1> QED
    BY Zenon, <1>2, PromotedFrom

\* Requests that begin or end leave the pointer and the order of the deployments alone.
LEMMA SameOrder ==
    ASSUME PromotionInv, deployments' = deployments,
           timeline' \in Seq(Marks), Injective(timeline'),
           \A d \in Nat : In(timeline', Activated(d)) <=> In(timeline, Activated(d)),
           \A d, e \in Nat : Before(timeline', Activated(d), Activated(e)) <=>
                             Before(timeline, Activated(d), Activated(e))
    PROVE  /\ Pointer' = Pointer /\ Version(Pointer)' = Version(Pointer)
           /\ BetweenIn(deployments', timeline')
<1>1. \A d \in ActiveIn(deployments) : /\ d \in Nat /\ deployments[d].previous \in Nat
                                       /\ In(timeline', Activated(d))
    <2>1. \A d \in ActiveIn(deployments) : d \in DOMAIN deployments /\ In(timeline, Activated(d))
        BY Zenon, PointerOK
    <2>2. \A d \in DOMAIN deployments : d \in Nat /\ deployments[d].previous \in Nat
        BY Zenon, Types DEF Deployment
    <2> QED
        BY Zenon, <2>1, <2>2
<1>2. Pointer' = Pointer
    <2>1. Pointer = PointerIn(deployments, timeline) /\ Pointer' = PointerIn(deployments, timeline')
        BY Zenon, PointerIs
    <2>2. CASE ActiveIn(deployments) = {}
        BY Zenon, <2>1, <2>2 DEF PointerIn
    <2>3. CASE ActiveIn(deployments) # {}
        <3>1. Newest(deployments, timeline, Pointer)
            BY Zenon, <2>3, PointerOK
        <3>2. Newest(deployments, timeline', Pointer)
            BY Zenon, <1>1, <3>1 DEF Newest
        <3> QED
            BY Zenon, <1>1, <2>1, <3>2, NewestIsPointer
    <2> QED
        BY Zenon, <2>2, <2>3
<1>3. Version(Pointer)' = Version(Pointer)
    BY Zenon, <1>2 DEF Version
<1>4. BetweenIn(deployments, timeline')
    <2>1. BetweenIn(deployments, timeline)
        BY Zenon DEF PromotionInv
    <2> QED
        BY Zenon, <1>1, <2>1 DEF BetweenIn
<1> QED
    BY Zenon, <1>2, <1>3, <1>4

\* The marks of requests and deployments are different ones.
LEMMA MarksDiffer ==
    /\ \A a, d : Entry(a) # Activated(d)
    /\ \A a, b : Entry(a) = Entry(b) => a = b
    /\ \A d, e : Activated(d) = Activated(e) => d = e
    /\ \A a \in Admins : Entry(a) \in Marks
    /\ \A d \in Nat : Activated(d) \in Marks
BY DEF Entry, Activated, Marks

\* A request begins after everything that has begun so far.
LEMMA BeginInv ==
    ASSUME PromotionInv, NEW a \in Admins, NEW kind \in {"create", "rollback", "approve"},
           NEW target \in Nat, NEW expect \in Nat, Begin(a, kind, target, expect),
           Production => kind = "approve" /\ target \in DOMAIN deployments,
           ~ Production => kind # "approve" /\ expect <= Version(Pointer)
    PROVE  PromotionInv'
<1> DEFINE new == [at |-> "begun", kind |-> kind, target |-> target, expect |-> expect]
<1>1. /\ request[a] = Idle /\ request' = [request EXCEPT ![a] = new]
      /\ timeline' = Append(timeline, Entry(a)) /\ deployments' = deployments
      /\ UNCHANGED <<environment, releases, suites, runs, lock>>
    BY Zenon DEF Begin
<1>2. new \in Request /\ new # Idle
    BY DEF Request, Idle
<1>3. new.at = "begun" /\ new.kind = kind /\ new.target = target /\ new.expect = expect
    BY Zenon
<1> HIDE DEF new
<1>4. /\ request' \in [Admins -> Request]
      /\ \A b \in Admins : request'[b] = IF b = a THEN new ELSE request[b]
    BY Zenon, <1>1, <1>2, Types
<1>5. /\ timeline \in Seq(Marks) /\ Injective(timeline) /\ ~ In(timeline, Entry(a))
      /\ \A d \in Nat : In(timeline, Activated(d)) <=>
            d \in DOMAIN deployments /\ deployments[d].status # "PENDING_APPROVAL"
      /\ \A b \in Admins : In(timeline, Entry(b)) <=> request[b] # Idle
    BY Zenon, <1>1 DEF PromotionInv, TimelineOK
<1>6. /\ timeline' \in Seq(Marks) /\ Injective(timeline')
      /\ \A y : In(timeline', y) <=> In(timeline, y) \/ y = Entry(a)
      /\ \A y, z : Before(timeline', y, z) <=>
                   Before(timeline, y, z) \/ (In(timeline, y) /\ z = Entry(a))
    <2>1. Appended(timeline, Entry(a), timeline')
        BY Zenon, <1>1, <1>5, AppendOrder, MarksDiffer
    <2> QED
        BY Zenon, <2>1 DEF Appended
<1>7. TimelineOK'
    BY ZenonT(60), <1>1, <1>2, <1>4, <1>5, <1>6, MarksDiffer DEF TimelineOK
<1>8. /\ \A d \in Nat : In(timeline', Activated(d)) <=> In(timeline, Activated(d))
      /\ \A d, e \in Nat : Before(timeline', Activated(d), Activated(e)) <=>
                           Before(timeline, Activated(d), Activated(e))
    BY ZenonT(60), <1>6, MarksDiffer
<1>9. /\ Pointer' = Pointer /\ Version(Pointer)' = Version(Pointer)
      /\ BetweenIn(deployments', timeline')
    BY Zenon, <1>1, <1>6, <1>8, SameOrder
<1>10. DeploymentTypeOK' /\ PreviousOK' /\ RunsOK'
    <2>1. PreviousOK' /\ RunsOK'
        BY Zenon, <1>1, SoundIs DEF PromotionInv, PreviousOK, RunsOK
    <2> QED
        BY Zenon, <1>1, <1>4, <1>7, <2>1, Types, TypesFrom
<1>11. CASE Production
    <2>1. ASSUME NEW b \in Admins, request'[b] # Idle
          PROVE  /\ request'[b].kind = "approve" /\ request'[b].target \in DOMAIN deployments'
                 /\ deployments'[request'[b].target].previous # 0 =>
                        Before(timeline', Activated(deployments'[request'[b].target].previous), Entry(b))
                 /\ request'[b].at = "gated" => GatedOK(b)'
        <3>1. CASE b = a
            <4>1. request'[b] = new /\ target \in DOMAIN deployments
                BY ZenonT(60), <1>4, <1>11, <3>1
            <4>2. deployments[target].previous # 0 =>
                    In(timeline, Activated(deployments[target].previous))
                <5>1. deployments[target].previous \in 0..(target - 1)
                    BY Zenon, <4>1, Types
                <5>2. deployments[target].previous # 0 =>
                        /\ deployments[target].previous \in DOMAIN deployments
                        /\ deployments[target].previous \in Nat
                    BY <4>1, <5>1, Types
                <5> QED
                    BY Zenon, <1>5, <4>1, <5>2 DEF PromotionInv, PreviousOK
            <4> QED
                BY SMTT(40), <1>1, <1>3, <1>6, <1>11, <3>1, <4>1, <4>2
        <3>2. CASE b # a
            <4>1. request'[b] = request[b] /\ request[b] # Idle
                BY Zenon, <1>4, <2>1, <3>2
            <4>2. GatedOK(b) => GatedOK(b)'
                BY ZenonT(60), <1>1, <4>1, GatedIs
            <4> QED
                BY ZenonT(60), <1>1, <1>6, <1>11, <4>1, <4>2 DEF PromotionInv, ProductionOK
        <3> QED
            BY ZenonT(60), <3>1, <3>2
    <2>2. PromotedOnEvidence'
        BY Zenon, <1>1, <1>11, SoundIs DEF PromotionInv, PromotedOnEvidence, Production
    <2> QED
        BY Zenon, <1>1, <1>7, <1>9, <1>10, <1>11, <2>1, <2>2 DEF PromotionInv, ProductionOK, Production
<1>12. CASE ~ Production
    <2>1. ASSUME NEW b \in Admins, request'[b] # Idle
          PROVE  /\ request'[b].kind \in {"create", "rollback"} /\ request'[b].at = "begun"
                 /\ request'[b].expect <= Version(Pointer)
                 /\ Pointer # 0 /\ request'[b].expect = Version(Pointer) =>
                        Before(timeline', Activated(Pointer), Entry(b))
        <3>1. CASE b = a
            <4>1. request'[b] = new
                BY Zenon, <1>4, <3>1
            <4>2. Pointer # 0 => In(timeline, Activated(Pointer))
                BY Zenon, PointerOK
            <4> QED
                BY ZenonT(60), <1>3, <1>6, <1>12, <3>1, <4>1, <4>2
        <3>2. CASE b # a
            <4>1. request'[b] = request[b] /\ request[b] # Idle
                BY Zenon, <1>4, <2>1, <3>2
            <4> QED
                BY ZenonT(60), <1>6, <1>12, <4>1 DEF PromotionInv, StagingOK
        <3> QED
            BY Zenon, <3>1, <3>2
    <2>2. StagingOK'
        BY Zenon, <1>1, <1>9, <1>12, <2>1 DEF PromotionInv, StagingOK
    <2> QED
        BY ZenonT(60), <1>1, <1>7, <1>9, <1>10, <1>12, <2>2 DEF PromotionInv, Production
<1> QED
    BY Zenon, <1>11, <1>12

\* What may begin: a create or a rollback outside production, an approval in production.
LEMMA BeginsInv ==
    ASSUME PromotionInv, NEW a \in Admins,
           \/ BeginCreate(a) \/ BeginRollback(a)
           \/ \E d \in DOMAIN deployments : BeginApprove(a, d)
    PROVE  PromotionInv'
<1>1. Version(Pointer) \in Nat /\ Pointer \in Nat /\ 0 \in Nat
    BY PointerOK
<1>2. CASE BeginCreate(a)
    <2>1. PICK expect \in {0, Version(Pointer)} : Begin(a, "create", 0, expect)
        BY Zenon, <1>2 DEF BeginCreate
    <2>2. expect \in Nat /\ expect <= Version(Pointer)
        BY <1>1
    <2> QED
        BY Zenon, <1>1, <1>2, <2>1, <2>2, BeginInv DEF BeginCreate
<1>3. CASE BeginRollback(a)
    <2>1. Version(Pointer) <= Version(Pointer)
        BY <1>1
    <2> QED
        BY Zenon, <1>1, <1>3, <2>1, BeginInv DEF BeginRollback
<1>4. ASSUME NEW d \in DOMAIN deployments, BeginApprove(a, d) PROVE PromotionInv'
    <2>1. d \in Nat /\ d # 0 /\ deployments[d].version \in Nat
        BY Zenon, Types DEF Deployment
    <2>2. Version(d) \in Nat
        BY Zenon, <2>1 DEF Version
    <2>3. Production
        <3>1. deployments[d].status # "ACTIVE"
            BY <1>4 DEF BeginApprove
        <3> QED
            BY Zenon, <3>1 DEF PromotionInv, StagingOK
    <2> QED
        BY Zenon, <1>4, <2>1, <2>2, <2>3, BeginInv DEF BeginApprove
<1> QED
    BY Zenon, <1>2, <1>3, <1>4

\* Idle is a request, and a request that ends leaves the others as they are.
LEMMA EndOfRequest ==
    ASSUME PromotionInv, NEW a \in Admins, request' = [request EXCEPT ![a] = Idle]
    PROVE  /\ request' \in [Admins -> Request] /\ request'[a] = Idle
           /\ \A b \in Admins : b # a => request'[b] = request[b]
           /\ \A b \in Admins : request'[b] # Idle => b # a /\ request'[b] = request[b]
<1>1. Idle \in Request
    BY DEF Idle, Request
<1> QED
    BY Zenon, <1>1, Types

\* A request that is rolled back leaves the timeline and gives the lock back.
LEMMA AbandonInv ==
    ASSUME PromotionInv, NEW a \in Admins, Abandon(a)
    PROVE  PromotionInv'
<1>1. /\ request[a] # Idle /\ request' = [request EXCEPT ![a] = Idle]
      /\ timeline' = SubSeq(timeline, 1, Place(timeline, Entry(a)) - 1)
                        \o SubSeq(timeline, Place(timeline, Entry(a)) + 1, Len(timeline))
      /\ lock' = (IF lock = a THEN Nobody ELSE lock) /\ deployments' = deployments
      /\ UNCHANGED <<environment, releases, suites, runs>>
    BY Zenon DEF Abandon, Without, At, Place
<1>2. /\ request' \in [Admins -> Request] /\ request'[a] = Idle
      /\ \A b \in Admins : b # a => request'[b] = request[b]
      /\ \A b \in Admins : request'[b] # Idle => b # a /\ request'[b] = request[b]
    BY Zenon, <1>1, EndOfRequest
<1>3. /\ timeline \in Seq(Marks) /\ Injective(timeline) /\ In(timeline, Entry(a))
      /\ \A d \in Nat : In(timeline, Activated(d)) <=>
            d \in DOMAIN deployments /\ deployments[d].status # "PENDING_APPROVAL"
      /\ \A b \in Admins : In(timeline, Entry(b)) <=> request[b] # Idle
    BY Zenon, <1>1 DEF PromotionInv, TimelineOK
<1>4. /\ timeline' \in Seq(Marks) /\ Injective(timeline')
      /\ \A z : In(timeline', z) <=> In(timeline, z) /\ z # Entry(a)
      /\ \A u, v : Before(timeline, u, v) /\ u # Entry(a) /\ v # Entry(a) => Before(timeline', u, v)
      /\ \A u, v : Before(timeline', u, v) => Before(timeline, u, v)
    <2>1. Removed(timeline, Entry(a), timeline')
        BY Zenon, <1>1, <1>3, RemoveOrder
    <2> QED
        BY Zenon, <2>1 DEF Removed
<1>5. TimelineOK'
    BY ZenonT(60), <1>1, <1>2, <1>3, <1>4, MarksDiffer DEF TimelineOK
<1>6. /\ \A d \in Nat : In(timeline', Activated(d)) <=> In(timeline, Activated(d))
      /\ \A d, e \in Nat : Before(timeline', Activated(d), Activated(e)) <=>
                           Before(timeline, Activated(d), Activated(e))
    BY Zenon, <1>4, MarksDiffer
<1>7. /\ Pointer' = Pointer /\ Version(Pointer)' = Version(Pointer)
      /\ BetweenIn(deployments', timeline')
    BY Zenon, <1>1, <1>4, <1>6, SameOrder
<1>8. DeploymentTypeOK' /\ PreviousOK' /\ RunsOK' /\ lock' \in Admins \cup {Nobody}
    <2>1. PreviousOK' /\ RunsOK'
        BY Zenon, <1>1, SoundIs DEF PromotionInv, PreviousOK, RunsOK
    <2>2. lock' \in Admins \cup {Nobody}
        BY Zenon, <1>1 DEF PromotionInv
    <2> QED
        BY ZenonT(60), <1>1, <1>2, <1>5, <2>1, <2>2, Types, TypesFrom
<1>9. CASE Production
    <2>1. ASSUME NEW b \in Admins, request'[b] # Idle
          PROVE  /\ request'[b].kind = "approve" /\ request'[b].target \in DOMAIN deployments'
                 /\ deployments'[request'[b].target].previous # 0 =>
                        Before(timeline', Activated(deployments'[request'[b].target].previous), Entry(b))
                 /\ request'[b].at = "gated" => GatedOK(b)'
        <3>1. b # a /\ request'[b] = request[b] /\ request[b] # Idle
            BY Zenon, <1>2, <2>1
        <3>2. GatedOK(b) => GatedOK(b)'
            BY ZenonT(60), <1>1, <3>1, GatedIs
        <3>3. Entry(b) # Entry(a) /\ \A n : Activated(n) # Entry(a)
            BY Zenon, <3>1, MarksDiffer
        <3>4. /\ request[b].kind = "approve" /\ request[b].target \in DOMAIN deployments
              /\ deployments[request[b].target].previous # 0 =>
                    Before(timeline, Activated(deployments[request[b].target].previous), Entry(b))
              /\ request[b].at = "gated" => GatedOK(b)
            BY Zenon, <1>9, <3>1 DEF PromotionInv, ProductionOK
        <3> QED
            BY ZenonT(60), <1>1, <1>4, <3>1, <3>2, <3>3, <3>4
    <2>2. PromotedOnEvidence'
        BY Zenon, <1>1, <1>9, SoundIs DEF PromotionInv, PromotedOnEvidence, Production
    <2> QED
        BY ZenonT(60), <1>1, <1>5, <1>7, <1>8, <1>9, <2>1, <2>2 DEF PromotionInv, ProductionOK, Production
<1>10. CASE ~ Production
    <2>1. ASSUME NEW b \in Admins, request'[b] # Idle
          PROVE  /\ request'[b].kind \in {"create", "rollback"} /\ request'[b].at = "begun"
                 /\ request'[b].expect <= Version(Pointer)
                 /\ Pointer # 0 /\ request'[b].expect = Version(Pointer) =>
                        Before(timeline', Activated(Pointer), Entry(b))
        <3>1. b # a /\ request'[b] = request[b] /\ request[b] # Idle
            BY Zenon, <1>2, <2>1
        <3>2. Entry(b) # Entry(a)
            BY Zenon, <3>1, MarksDiffer
        <3> QED
            BY ZenonT(60), <1>4, <1>10, <3>1, <3>2, MarksDiffer DEF PromotionInv, StagingOK
    <2>2. StagingOK'
        BY Zenon, <1>1, <1>7, <1>10, <2>1 DEF PromotionInv, StagingOK
    <2> QED
        BY ZenonT(60), <1>1, <1>5, <1>7, <1>8, <1>10, <2>2 DEF PromotionInv, Production
<1> QED
    BY Zenon, <1>9, <1>10

-----------------------------------------------------------------------------
(* Handlers *)

\* An approval that finds the gate open takes the lock.
LEMMA GateInv ==
    ASSUME PromotionInv, NEW a \in Admins, ApproveGate(a)
    PROVE  PromotionInv'
<1>1. /\ request[a].at = "begun" /\ request[a].kind = "approve" /\ lock = Nobody
      /\ Approvable(a, request[a].target) /\ GateOpen(deployments[request[a].target].release)
      /\ lock' = a /\ request' = [request EXCEPT ![a].at = "gated"]
      /\ UNCHANGED <<environment, releases, deployments, timeline, suites, runs>>
    BY Zenon DEF ApproveGate, Unlocked
<1>2. request[a] \in Request
    BY Zenon, Types
<1>p. PICK new : new = [request[a] EXCEPT !.at = "gated"]
    BY Zenon
<1>3. /\ new \in Request /\ new.at = "gated"
      /\ new.kind = "approve" /\ new.target = request[a].target
    BY <1>1, <1>2, <1>p DEF Request
<1>4. request' = [request EXCEPT ![a] = new]
    BY Zenon, <1>1, <1>p
<1>5. /\ request' \in [Admins -> Request] /\ request'[a] = new
      /\ \A b \in Admins : b # a => request'[b] = request[b]
    BY Zenon, <1>3, <1>4, Types
<1>6. request[a] # Idle /\ new # Idle
    BY <1>1, <1>3 DEF Idle
<1>7. TimelineOK'
    BY Zenon, <1>1, <1>5, <1>6 DEF PromotionInv, TimelineOK
<1>8. DeploymentTypeOK' /\ PreviousOK' /\ RunsOK' /\ BetweenIn(deployments', timeline')
    <2>1. PreviousOK' /\ RunsOK' /\ BetweenIn(deployments', timeline')
        BY Zenon, <1>1, SoundIs DEF PromotionInv, PreviousOK, RunsOK
    <2> QED
        BY ZenonT(60), <1>1, <1>5, <1>7, <2>1, Types, TypesFrom
<1>9. Production
    <2>1. request[a].kind \notin {"create", "rollback"}
        BY <1>1
    <2> QED
        BY Zenon, <1>6, <2>1 DEF PromotionInv, StagingOK
<1>10. GatedOK(a)'
    <2>1. request'[a].target = request[a].target
        BY Zenon, <1>3, <1>5
    <2> QED
        <3>1. Open(runs, deployments[request[a].target].release)
            BY Zenon, <1>1 DEF GateOpen, ProductionRuns, Open
        <3> QED
            BY ZenonT(60), <1>1, <2>1, <3>1, GatedIs DEF Approvable
<1>11. ASSUME NEW b \in Admins, request'[b] # Idle
       PROVE  /\ request'[b].kind = "approve" /\ request'[b].target \in DOMAIN deployments'
              /\ deployments'[request'[b].target].previous # 0 =>
                    Before(timeline', Activated(deployments'[request'[b].target].previous), Entry(b))
              /\ request'[b].at = "gated" => GatedOK(b)'
    <2>1. CASE b = a
        BY ZenonT(60), <1>1, <1>3, <1>5, <1>6, <1>9, <1>10, <2>1 DEF PromotionInv, ProductionOK
    <2>2. CASE b # a
        <3>1. request'[b] = request[b] /\ request[b] # Idle
            BY Zenon, <1>5, <1>11, <2>2
        <3>2. request[b].at # "gated"
            BY Zenon, <1>1, <1>9, <3>1, DeploymentAssumption DEF PromotionInv, ProductionOK, GatedOK
        <3> QED
            BY Zenon, <1>1, <1>9, <3>1, <3>2 DEF PromotionInv, ProductionOK
    <2> QED
        BY Zenon, <2>1, <2>2
<1>12. PromotedOnEvidence'
    BY Zenon, <1>1, <1>9, SoundIs DEF PromotionInv, PromotedOnEvidence, Production
<1> QED
    BY ZenonT(60), <1>1, <1>7, <1>8, <1>9, <1>11, <1>12 DEF PromotionInv, ProductionOK, Production

\* A failing canary observation: what is left ACTIVE keeps its order.
LEMMA HaltInv ==
    ASSUME PromotionInv, NEW d \in DOMAIN deployments, Halt(d)
    PROVE  PromotionInv'
<1>1. /\ Production /\ deployments[d].status = "ACTIVE"
      /\ deployments' = [deployments EXCEPT ![d].status = "HALTED", ![d].version = @ + 1]
      /\ UNCHANGED <<environment, releases, timeline, request, suites, runs, lock>>
    BY Zenon DEF Halt
<1>2. deployments[d] \in Deployment /\ deployments \in Seq(Deployment)
    BY Zenon, Types
<1>3. deployments[d].version \in Nat
    BY Zenon, <1>2 DEF Deployment
<1>4. deployments[d].version + 1 \in Nat \ {0}
    BY <1>3
<1>p. PICK new :
        new = [deployments[d] EXCEPT !.status = "HALTED", !.version = deployments[d].version + 1]
    BY Zenon
<1>5. /\ new \in Deployment
      /\ new.status = "HALTED" /\ new.previous = deployments[d].previous
      /\ new.release = deployments[d].release /\ new.initiator = deployments[d].initiator
      /\ new.approver = deployments[d].approver
    BY Zenon, <1>2, <1>4, <1>p DEF Deployment
<1>6. deployments' = [deployments EXCEPT ![d] = new]
    BY ZenonT(60), <1>1, <1>2, <1>p
<1>7. /\ deployments' \in Seq(Deployment) /\ Len(deployments') = Len(deployments)
      /\ DOMAIN deployments' = DOMAIN deployments /\ deployments'[d] = new
      /\ \A e \in DOMAIN deployments : e # d => deployments'[e] = deployments[e]
    BY <1>2, <1>5, <1>6
<1>8. \A e \in DOMAIN deployments :
        /\ deployments'[e].previous = deployments[e].previous
        /\ deployments'[e].release = deployments[e].release
        /\ deployments'[e].initiator = deployments[e].initiator
        /\ deployments'[e].approver = deployments[e].approver
        /\ deployments'[e].status = "PENDING_APPROVAL" <=> deployments[e].status = "PENDING_APPROVAL"
    BY <1>1, <1>5, <1>7
<1>9. TimelineOK'
    BY Zenon, <1>1, <1>7, <1>8 DEF PromotionInv, TimelineOK
<1>10. DeploymentTypeOK'
    BY ZenonT(60), <1>1, <1>7, <1>8, <1>9, Types, TypesFrom
<1>11. PreviousOK' /\ RunsOK'
    <2>1. PreviousOK'
        BY Zenon, <1>7, <1>8, PreviousIn, PreviousStays
    <2>2. RunsOK'
        BY Zenon, <1>1, SoundIs DEF PromotionInv, RunsOK
    <2> QED
        BY Zenon, <2>1, <2>2
<1>12. BetweenIn(deployments', timeline')
    <2>1. \A e \in ActiveIn(deployments') : /\ e \in ActiveIn(deployments)
                                            /\ deployments'[e].previous = deployments[e].previous
        BY <1>5, <1>7, <1>8 DEF ActiveIn
    <2>2. BetweenIn(deployments, timeline)
        BY Zenon DEF PromotionInv
    <2> QED
        BY ZenonT(60), <1>1, <2>1, <2>2 DEF BetweenIn
<1>13. ASSUME NEW b \in Admins, request'[b] # Idle
       PROVE  /\ request'[b].kind = "approve" /\ request'[b].target \in DOMAIN deployments'
              /\ deployments'[request'[b].target].previous # 0 =>
                    Before(timeline', Activated(deployments'[request'[b].target].previous), Entry(b))
              /\ request'[b].at = "gated" => GatedOK(b)'
    <2>1. /\ request[b].kind = "approve" /\ request[b].target \in DOMAIN deployments
          /\ deployments[request[b].target].previous # 0 =>
                Before(timeline, Activated(deployments[request[b].target].previous), Entry(b))
          /\ request[b].at = "gated" => GatedOK(b)
        BY Zenon, <1>1, <1>13 DEF PromotionInv, ProductionOK
    <2>2. GatedOK(b) => GatedOK(b)'
        BY ZenonT(60), <1>1, <1>8, <2>1, GatedIs
    <2> QED
        BY ZenonT(60), <1>1, <1>7, <1>8, <2>1, <2>2
<1>14. PromotedOnEvidence'
    BY ZenonT(60), <1>1, <1>7, <1>8, PromotedStays
<1> QED
    BY ZenonT(60), <1>1, <1>9, <1>10, <1>11, <1>12, <1>13, <1>14 DEF PromotionInv, ProductionOK, Production

\* An approval that finds the pointer unmoved: its deployment is the pointer from then on.
LEMMA ActivateInv ==
    ASSUME PromotionInv, NEW a \in Admins, ApproveActivate(a)
    PROVE  /\ PromotionInv' /\ Pointer' = request[a].target
           /\ Production /\ GatedOK(a) /\ request[a].target \in DOMAIN deployments
           /\ DOMAIN deployments' = DOMAIN deployments
           /\ \A e \in DOMAIN deployments : e # request[a].target => deployments'[e] = deployments[e]
<1>1. PICK d : d = request[a].target
    BY Zenon
<1>2. /\ request[a].at = "gated" /\ PointerUnmoved(d)
      /\ deployments' = [deployments EXCEPT ![d].status = "ACTIVE", ![d].approver = a,
                                            ![d].version = @ + 1]
      /\ timeline' = [timeline EXCEPT ![Place(timeline, Entry(a))] = Activated(d)]
      /\ request' = [request EXCEPT ![a] = Idle] /\ lock' = Nobody
      /\ UNCHANGED <<environment, releases, suites, runs>>
    BY Zenon, <1>1 DEF ApproveActivate, At, Place
<1>3. request[a] # Idle
    BY <1>2 DEF Idle
<1>4. Production
    <2>1. request[a].at # "begun"
        BY <1>2
    <2> QED
        BY Zenon, <1>3, <2>1 DEF PromotionInv, StagingOK
<1>5. /\ GatedOK(a) /\ d \in DOMAIN deployments /\ lock = a
      /\ deployments[d].status = "PENDING_APPROVAL" /\ deployments[d].initiator # a
      /\ deployments[d].previous # 0 => Before(timeline, Activated(deployments[d].previous), Entry(a))
      /\ GateOpen(deployments[d].release)
    BY ZenonT(60), <1>1, <1>2, <1>3, <1>4 DEF PromotionInv, ProductionOK, GatedOK
<1>6. deployments[d] \in Deployment /\ deployments \in Seq(Deployment) /\ d \in Nat /\ d # 0
    BY Zenon, <1>5, Types
<1>7. deployments[d].version \in Nat
    BY Zenon, <1>6 DEF Deployment
<1>8. deployments[d].version + 1 \in Nat \ {0}
    BY <1>7
<1>p. PICK new : new = [deployments[d] EXCEPT !.status = "ACTIVE", !.approver = a,
                                              !.version = deployments[d].version + 1]
    BY Zenon
<1>9. /\ new \in Deployment
      /\ new.status = "ACTIVE" /\ new.previous = deployments[d].previous
      /\ new.release = deployments[d].release /\ new.initiator = deployments[d].initiator
      /\ new.approver = a
    BY Zenon, <1>6, <1>8, <1>p DEF Deployment
<1>10. deployments' = [deployments EXCEPT ![d] = new]
    BY ZenonT(60), <1>2, <1>6, <1>p
<1>11. /\ deployments' \in Seq(Deployment) /\ Len(deployments') = Len(deployments)
       /\ DOMAIN deployments' = DOMAIN deployments /\ deployments'[d] = new
       /\ \A e \in DOMAIN deployments : e # d => deployments'[e] = deployments[e]
    BY <1>5, <1>6, <1>9, <1>10
<1>12. \A e \in DOMAIN deployments :
        /\ deployments'[e].previous = deployments[e].previous
        /\ deployments'[e].release = deployments[e].release
        /\ deployments'[e].initiator = deployments[e].initiator
    BY Zenon, <1>9, <1>11
<1>13. /\ request' \in [Admins -> Request] /\ request'[a] = Idle
       /\ \A b \in Admins : b # a => request'[b] = request[b]
       /\ \A b \in Admins : request'[b] # Idle => b # a /\ request'[b] = request[b]
    BY Zenon, <1>2, EndOfRequest
<1>14. /\ timeline \in Seq(Marks) /\ Injective(timeline) /\ In(timeline, Entry(a))
       /\ ~ In(timeline, Activated(d))
       /\ \A e \in Nat : In(timeline, Activated(e)) <=>
             e \in DOMAIN deployments /\ deployments[e].status # "PENDING_APPROVAL"
       /\ \A b \in Admins : In(timeline, Entry(b)) <=> request[b] # Idle
    BY Zenon, <1>3, <1>5, <1>6 DEF PromotionInv, TimelineOK
<1>15. /\ timeline' \in Seq(Marks) /\ Injective(timeline')
       /\ \A z : In(timeline', z) <=> z = Activated(d) \/ (In(timeline, z) /\ z # Entry(a))
       /\ \A u, v : Before(timeline, u, v) /\ u # Entry(a) /\ v # Entry(a) => Before(timeline', u, v)
    <2>1. Replaced(timeline, Entry(a), Activated(d), timeline')
        BY ZenonT(60), <1>2, <1>6, <1>14, ReplaceOrder, MarksDiffer
    <2> QED
        BY Zenon, <2>1 DEF Replaced
<1>16. new.status # "PENDING_APPROVAL"
    BY <1>9
<1>17. TimelineOK'
    <2>1. ASSUME NEW e \in Nat
          PROVE  In(timeline', Activated(e)) <=>
                    e \in DOMAIN deployments' /\ deployments'[e].status # "PENDING_APPROVAL"
        BY ZenonT(60), <1>5, <1>11, <1>14, <1>15, <1>16, MarksDiffer
    <2>2. ASSUME NEW b \in Admins PROVE In(timeline', Entry(b)) <=> request'[b] # Idle
        BY Zenon, <1>13, <1>14, <1>15, MarksDiffer
    <2> QED
        BY Zenon, <1>15, <2>1, <2>2 DEF TimelineOK
<1>18. DeploymentTypeOK'
    BY ZenonT(60), <1>2, <1>11, <1>12, <1>13, <1>17, Types, TypesFrom
<1>19. PreviousOK' /\ RunsOK'
    <2>2. \A e \in DOMAIN deployments : deployments[e].status # "PENDING_APPROVAL" =>
            deployments'[e].status # "PENDING_APPROVAL"
        BY Zenon, <1>11, <1>16
    <2>3. PreviousOK'
        BY ZenonT(60), <1>11, <1>12, <2>2, PreviousIn, PreviousStays
    <2>4. RunsOK'
        BY Zenon, <1>2, SoundIs DEF PromotionInv, RunsOK
    <2> QED
        BY Zenon, <2>3, <2>4
<1>20. Newest(deployments', timeline', d) /\ BetweenIn(deployments', timeline')
    <2>1. ActiveIn(deployments') = ActiveIn(deployments) \cup {d}
        BY ZenonT(60), <1>5, <1>9, <1>11 DEF ActiveIn
    <2>2. \A e \in ActiveIn(deployments) :
            /\ In(timeline, Activated(e)) /\ deployments'[e].previous = deployments[e].previous
            /\ deployments[e].previous # 0 => In(timeline, Activated(deployments[e].previous))
        <3> SUFFICES ASSUME NEW e \in ActiveIn(deployments)
                     PROVE  /\ In(timeline, Activated(e))
                            /\ deployments'[e].previous = deployments[e].previous
                            /\ deployments[e].previous # 0 =>
                                    In(timeline, Activated(deployments[e].previous))
            BY Zenon
        <3>1. e \in DOMAIN deployments /\ In(timeline, Activated(e))
            BY Zenon, PointerOK
        <3>2. deployments[e].previous \in 0..(e - 1) /\ e \in 1..Len(deployments)
            BY ZenonT(60), <3>1, Types
        <3>3. deployments[e].previous # 0 => /\ deployments[e].previous \in DOMAIN deployments
                                             /\ deployments[e].previous \in Nat
            BY <3>2, Types
        <3> QED
            BY ZenonT(60), <1>12, <1>14, <3>1, <3>3 DEF PromotionInv, PreviousOK
    <2>3. deployments[d].previous = Pointer
        BY <1>2 DEF PointerUnmoved
    <2>4. /\ deployments'[d].previous = PointerIn(deployments, timeline) /\ 0 \notin ActiveIn(deployments)
          /\ ActiveIn(deployments) # {} =>
                Before(timeline, Activated(PointerIn(deployments, timeline)), Entry(a))
        BY ZenonT(60), <1>5, <1>12, <2>3, PointerOK
    <2>5. BetweenIn(deployments, timeline)
        BY Zenon DEF PromotionInv
    <2>6. Activating(deployments, timeline, deployments', timeline', a, d)
        BY ZenonT(60), <1>2, <1>14, <2>1, <2>2, <2>4, <2>5 DEF Activating
    <2> QED
        BY ZenonT(60), <1>6, <1>14, <2>6, ActivationOrder
<1>21. Pointer' = d
    <2>1. \A e \in ActiveIn(deployments') : In(timeline', Activated(e))
        <3>1. \A e \in ActiveIn(deployments') : /\ e \in DOMAIN deployments' /\ e \in Nat
                                                /\ deployments'[e].status # "PENDING_APPROVAL"
            BY <1>11 DEF ActiveIn
        <3> QED
            BY ZenonT(60), <1>17, <3>1 DEF TimelineOK
    <2>2. PointerIn(deployments', timeline') = d
        BY ZenonT(60), <1>15, <1>20, <2>1, NewestIsPointer
    <2> QED
        BY Zenon, <2>2, PointerIs
<1>22. ProductionOK'
    <2>1. ASSUME NEW b \in Admins, request'[b] # Idle
          PROVE  /\ request'[b].kind = "approve" /\ request'[b].target \in DOMAIN deployments'
                 /\ deployments'[request'[b].target].previous # 0 =>
                        Before(timeline', Activated(deployments'[request'[b].target].previous), Entry(b))
                 /\ request'[b].at # "gated"
        <3>1. b # a /\ request'[b] = request[b] /\ request[b] # Idle /\ Entry(b) # Entry(a)
            BY ZenonT(60), <1>13, <2>1, MarksDiffer
        <3>2. request[b].at # "gated"
            BY ZenonT(60), <1>4, <1>5, <3>1 DEF PromotionInv, ProductionOK, GatedOK
        <3>3. /\ request[b].kind = "approve" /\ request[b].target \in DOMAIN deployments
              /\ deployments[request[b].target].previous # 0 =>
                    Before(timeline, Activated(deployments[request[b].target].previous), Entry(b))
            BY Zenon, <1>4, <3>1 DEF PromotionInv, ProductionOK
        <3>4. \A n : Activated(n) # Entry(a)
            BY Zenon, MarksDiffer
        <3> QED
            BY ZenonT(60), <1>11, <1>12, <1>15, <3>1, <3>2, <3>3, <3>4
    <2> QED
        BY Zenon, <2>1 DEF ProductionOK
<1>23. PromotedOnEvidence'
    <2>1. Evidenced(deployments[d].release)
        <3>1. PICK n \in ProductionRuns(deployments[d].release) : runs[n].status = "PASSED"
            BY Zenon, <1>5 DEF GateOpen
        <3> QED
            BY Zenon, <3>1 DEF Evidenced, ProductionRuns, PromotionInv, RunsOK
    <2>2. \A r : Evidenced(r) => Evidenced(r)'
        BY Zenon, <1>2, EvidenceStays DEF PromotionInv
    <2>3. a # Nobody
        BY Zenon, DeploymentAssumption
    <2>4. ASSUME NEW e \in DOMAIN deployments', deployments'[e].status # "PENDING_APPROVAL"
          PROVE  /\ deployments'[e].approver \notin {deployments'[e].initiator, Nobody}
                 /\ \E r : r = deployments'[e].release /\ Evidenced(r)'
        <3>1. CASE e = d
            BY ZenonT(60), <1>5, <1>9, <1>11, <2>1, <2>2, <2>3, <3>1
        <3>2. CASE e # d
            <4>1. e \in DOMAIN deployments /\ deployments'[e] = deployments[e]
                BY ZenonT(60), <1>11, <2>4, <3>2
            <4>2. /\ deployments[e].approver \notin {deployments[e].initiator, Nobody}
                  /\ Evidenced(deployments[e].release)
                BY ZenonT(60), <1>4, <2>4, <4>1 DEF PromotionInv, PromotedOnEvidence, Evidenced
            <4> QED
                BY Zenon, <2>2, <4>1, <4>2
        <3> QED
            BY Zenon, <3>1, <3>2
    <2> QED
        BY Zenon, <2>4 DEF PromotedOnEvidence, Evidenced
<1>24. lock' \in Admins \cup {Nobody} /\ releases' \in Seq(ReleaseRow) /\ Production'
    BY ZenonT(60), <1>2, <1>4 DEF PromotionInv, Production
<1> QED
    BY ZenonT(60), <1>1, <1>4, <1>5, <1>11, <1>17, <1>18, <1>19, <1>20, <1>21, <1>22, <1>23, <1>24
       DEF PromotionInv

\* The INSERT of a row that nobody has approved changes neither pointer nor order.
LEMMA PendingInv ==
    ASSUME PromotionInv, NEW a \in Admins, NEW release \in DOMAIN releases, NEW full \in BOOLEAN,
           Production, request[a] = Idle, Insert(a, release, full)
    PROVE  /\ PromotionInv'
           /\ \A d \in DOMAIN deployments : deployments'[d] = deployments[d]
           /\ \A d \in DOMAIN deployments' :
                d \notin DOMAIN deployments => deployments'[d].status = "PENDING_APPROVAL"
<1>1. PICK k \in Nat : k = Len(deployments)
    BY ZenonT(60), Types
<1> DEFINE new == [release |-> release, previous_release |-> ReleaseOf(Pointer),
                   previous |-> Pointer, previous_version |-> Version(Pointer), full |-> full,
                   status |-> "PENDING_APPROVAL", initiator |-> a, approver |-> Nobody,
                   version |-> Version(Pointer) + 1]
<1>2. /\ k + 1 <= MaxDeployments /\ deployments' = Append(deployments, new)
      /\ timeline' = timeline /\ request' = [request EXCEPT ![a] = Idle]
      /\ UNCHANGED <<environment, releases, suites, runs, lock>>
    BY <1>1 DEF Insert, InsertedStatus
<1>3. new \in Deployment /\ new.status = "PENDING_APPROVAL" /\ new.release = release
      /\ new.previous = Pointer
    <2>1. release \in Nat
        BY DEF PromotionInv
    <2>2. ReleaseOf(Pointer) \in Nat
        BY ZenonT(60), PointerOK, Types DEF ReleaseOf, Deployment
    <2>3. Pointer \in Nat /\ Version(Pointer) \in Nat /\ Version(Pointer) + 1 \in Nat \ {0}
        BY SMTT(40), PointerOK
    <2> QED
        BY ZenonT(60), <2>1, <2>2, <2>3 DEF Deployment
<1> HIDE DEF new
<1>4. /\ deployments \in Seq(Deployment) /\ DOMAIN deployments = 1..k
      /\ deployments' \in Seq(Deployment) /\ Len(deployments') = k + 1
      /\ DOMAIN deployments' = 1..(k + 1)
      /\ deployments'[k + 1] = new /\ \A e \in 1..k : deployments'[e] = deployments[e]
    BY SMTT(40), <1>1, <1>2, <1>3, Types
<1>5. /\ \A e \in DOMAIN deployments' : e = k + 1 \/ e \in DOMAIN deployments
      /\ \A e \in DOMAIN deployments : e \in DOMAIN deployments' /\ deployments'[e] = deployments[e]
      /\ k + 1 \in DOMAIN deployments' /\ k + 1 \notin DOMAIN deployments
    BY <1>1, <1>4
<1>6. /\ request' \in [Admins -> Request] /\ \A b \in Admins : request'[b] = request[b]
    BY ZenonT(60), <1>2, EndOfRequest
<1>7. TimelineOK'
    BY ZenonT(60), <1>2, <1>3, <1>4, <1>5, <1>6 DEF PromotionInv, TimelineOK
<1>8. Pointer # 0 => /\ Pointer \in DOMAIN deployments
                     /\ deployments[Pointer].status # "PENDING_APPROVAL"
    <2>1. Pointer # 0 => Pointer \in ActiveIn(deployments)
        BY ZenonT(60), PointerOK
    <2> QED
        BY <2>1 DEF ActiveIn
<1>9. \A e \in DOMAIN deployments : deployments[e].previous # 0 =>
        deployments[e].previous \in DOMAIN deployments
    <2> SUFFICES ASSUME NEW e \in DOMAIN deployments, deployments[e].previous # 0
                 PROVE  deployments[e].previous \in DOMAIN deployments
        BY Zenon
    <2>1. deployments[e].previous \in 0..(e - 1) /\ e \in 1..Len(deployments)
        BY Zenon, Types
    <2> QED
        BY <2>1, Types
<1>10. DeploymentTypeOK'
    <2>1. new.previous \in 0..((k + 1) - 1)
        BY <1>1, <1>3, <1>4, <1>8, PointerOK
    <2>2. \A e \in DOMAIN deployments' : /\ deployments'[e].release \in DOMAIN releases'
                                         /\ deployments'[e].previous \in 0..(e - 1)
        BY ZenonT(60), <1>2, <1>3, <1>4, <1>5, <2>1, Types
    <2>3. Len(deployments') <= MaxDeployments
        BY ZenonT(60), <1>2, <1>4
    <2> QED
        BY ZenonT(60), <1>2, <1>4, <1>6, <1>7, <2>2, <2>3, Types, TypesFrom
<1>11. PreviousOK' /\ RunsOK'
    <2>1. PreviousOK'
        <3>1. ASSUME NEW e \in DOMAIN deployments', deployments'[e].previous # 0
              PROVE  \E f \in DOMAIN deployments : /\ deployments'[e].previous = f
                                                   /\ deployments[f].status # "PENDING_APPROVAL"
            <4>1. CASE e = k + 1
                BY ZenonT(60), <1>3, <1>4, <1>8, <3>1, <4>1
            <4>2. CASE e \in DOMAIN deployments
                BY ZenonT(60), <1>5, <3>1, <4>2, PreviousIn
            <4> QED
                BY ZenonT(60), <1>5, <3>1, <4>1, <4>2
        <3> QED
            BY ZenonT(60), <1>5, <3>1, PreviousStays
    <2> QED
        BY ZenonT(60), <1>2, <2>1, SoundIs DEF PromotionInv, RunsOK
<1>12. BetweenIn(deployments', timeline')
    <2>1. \A e \in ActiveIn(deployments') : /\ e \in ActiveIn(deployments)
                                            /\ deployments'[e].previous = deployments[e].previous
        BY <1>3, <1>4, <1>5 DEF ActiveIn
    <2>2. BetweenIn(deployments, timeline)
        BY Zenon DEF PromotionInv
    <2> QED
        BY ZenonT(60), <1>2, <2>1, <2>2 DEF BetweenIn
<1>13. ASSUME NEW b \in Admins, request'[b] # Idle
       PROVE  /\ request'[b].kind = "approve" /\ request'[b].target \in DOMAIN deployments'
              /\ deployments'[request'[b].target].previous # 0 =>
                    Before(timeline', Activated(deployments'[request'[b].target].previous), Entry(b))
              /\ request'[b].at = "gated" => GatedOK(b)'
    <2>1. /\ request[b].kind = "approve" /\ request[b].target \in DOMAIN deployments
          /\ deployments[request[b].target].previous # 0 =>
                Before(timeline, Activated(deployments[request[b].target].previous), Entry(b))
          /\ request[b].at = "gated" => GatedOK(b)
        BY ZenonT(60), <1>6, <1>13 DEF PromotionInv, ProductionOK
    <2>2. GatedOK(b) => GatedOK(b)'
        <3>1. /\ request'[b].target = request[b].target
              /\ deployments'[request[b].target] = deployments[request[b].target]
            BY Zenon, <1>5, <1>6, <2>1
        <3> QED
            BY ZenonT(60), <1>2, <3>1, GatedIs
    <2> QED
        BY ZenonT(60), <1>2, <1>5, <1>6, <2>1, <2>2
<1>14. PromotedOnEvidence'
    BY Zenon, <1>2, <1>3, <1>4, <1>5, PromotedStays
<1>15. \A d \in DOMAIN deployments' :
        d \notin DOMAIN deployments => deployments'[d].status = "PENDING_APPROVAL"
    BY Zenon, <1>3, <1>4, <1>5
<1>16. lock' \in Admins \cup {Nobody} /\ releases' \in Seq(ReleaseRow) /\ Production'
    BY Zenon, <1>2 DEF PromotionInv, Production
<1> QED
    BY ZenonT(60), <1>5, <1>7, <1>10, <1>11, <1>12, <1>13, <1>14, <1>15, <1>16
       DEF PromotionInv, ProductionOK

\* Outside production the row is the pointer as soon as it is inserted, because the request
\* named the version of the pointer and so began after it.
LEMMA StagedInv ==
    ASSUME PromotionInv, NEW a \in Admins, NEW release \in DOMAIN releases, NEW full \in BOOLEAN,
           ~ Production, request[a] # Idle,
           Pointer # 0 => request[a].expect = Version(Pointer), Insert(a, release, full)
    PROVE  /\ PromotionInv' /\ Pointer' = Len(deployments) + 1
           /\ \A d \in DOMAIN deployments : deployments'[d] = deployments[d]
           /\ \A d \in DOMAIN deployments' :
                d \in DOMAIN deployments \/ d = Len(deployments) + 1
<1>1. PICK k \in Nat : k = Len(deployments)
    BY ZenonT(60), Types
<1> DEFINE new == [release |-> release, previous_release |-> ReleaseOf(Pointer),
                   previous |-> Pointer, previous_version |-> Version(Pointer), full |-> full,
                   status |-> "ACTIVE", initiator |-> a, approver |-> Nobody,
                   version |-> Version(Pointer) + 1]
<1>2. /\ k + 1 <= MaxDeployments /\ deployments' = Append(deployments, new)
      /\ timeline' = [timeline EXCEPT ![Place(timeline, Entry(a))] = Activated(k + 1)]
      /\ request' = [request EXCEPT ![a] = Idle]
      /\ UNCHANGED <<environment, releases, suites, runs, lock>>
    BY <1>1 DEF Insert, InsertedStatus, At, Place
<1>3. /\ new \in Deployment /\ new.status = "ACTIVE" /\ new.release = release
      /\ new.previous = Pointer /\ new.version = Version(Pointer) + 1
    <2>1. release \in Nat
        BY DEF PromotionInv
    <2>2. ReleaseOf(Pointer) \in Nat
        BY ZenonT(60), PointerOK, Types DEF ReleaseOf, Deployment
    <2>3. Pointer \in Nat /\ Version(Pointer) \in Nat /\ Version(Pointer) + 1 \in Nat \ {0}
        BY SMTT(40), PointerOK
    <2> QED
        BY ZenonT(60), <2>1, <2>2, <2>3 DEF Deployment
<1> HIDE DEF new
<1>4. /\ deployments \in Seq(Deployment) /\ DOMAIN deployments = 1..k
      /\ deployments' \in Seq(Deployment) /\ Len(deployments') = k + 1
      /\ DOMAIN deployments' = 1..(k + 1)
      /\ deployments'[k + 1] = new /\ \A e \in 1..k : deployments'[e] = deployments[e]
    BY SMTT(40), <1>1, <1>2, <1>3, Types
<1>5. /\ \A e \in DOMAIN deployments' : e = k + 1 \/ e \in DOMAIN deployments
      /\ \A e \in DOMAIN deployments : e \in DOMAIN deployments' /\ deployments'[e] = deployments[e]
      /\ k + 1 \in DOMAIN deployments' /\ k + 1 \notin DOMAIN deployments
      /\ k + 1 \in Nat /\ k + 1 # 0
    BY <1>1, <1>4
<1>6. PICK d \in Nat : d = k + 1
    BY Zenon, <1>5
<1>7. /\ request' \in [Admins -> Request] /\ request'[a] = Idle
      /\ \A b \in Admins : b # a => request'[b] = request[b]
      /\ \A b \in Admins : request'[b] # Idle => b # a /\ request'[b] = request[b]
    BY Zenon, <1>2, EndOfRequest
<1>8. /\ timeline \in Seq(Marks) /\ Injective(timeline) /\ In(timeline, Entry(a))
      /\ ~ In(timeline, Activated(d))
      /\ \A e \in Nat : In(timeline, Activated(e)) <=>
            e \in DOMAIN deployments /\ deployments[e].status # "PENDING_APPROVAL"
      /\ \A b \in Admins : In(timeline, Entry(b)) <=> request[b] # Idle
    BY Zenon, <1>5, <1>6 DEF PromotionInv, TimelineOK
<1>9. /\ timeline' \in Seq(Marks) /\ Injective(timeline')
      /\ \A z : In(timeline', z) <=> z = Activated(d) \/ (In(timeline, z) /\ z # Entry(a))
      /\ \A u, v : Before(timeline, u, v) /\ u # Entry(a) /\ v # Entry(a) => Before(timeline', u, v)
    <2>1. Replaced(timeline, Entry(a), Activated(d), timeline')
        BY ZenonT(60), <1>2, <1>6, <1>8, ReplaceOrder, MarksDiffer
    <2> QED
        BY Zenon, <2>1 DEF Replaced
<1>10. new.status # "PENDING_APPROVAL" /\ deployments'[d] = new /\ d \in DOMAIN deployments'
    BY SMTT(40), <1>3, <1>4, <1>5, <1>6
<1>11. TimelineOK'
    <2>1. ASSUME NEW e \in Nat
          PROVE  In(timeline', Activated(e)) <=>
                    e \in DOMAIN deployments' /\ deployments'[e].status # "PENDING_APPROVAL"
        BY ZenonT(60), <1>5, <1>6, <1>8, <1>9, <1>10, MarksDiffer
    <2>2. ASSUME NEW b \in Admins PROVE In(timeline', Entry(b)) <=> request'[b] # Idle
        <3>1. Entry(b) # Activated(d) /\ (Entry(b) = Entry(a) <=> b = a)
            BY Zenon, MarksDiffer
        <3>2. In(timeline', Entry(b)) <=> In(timeline, Entry(b)) /\ b # a
            BY ZenonT(60), <1>9, <3>1
        <3> QED
            BY ZenonT(60), <1>7, <1>8, <3>2
    <2> QED
        BY ZenonT(60), <1>9, <2>1, <2>2 DEF TimelineOK
<1>12. Pointer # 0 => /\ Pointer \in DOMAIN deployments
                      /\ deployments[Pointer].status # "PENDING_APPROVAL"
    <2>1. Pointer # 0 => Pointer \in ActiveIn(deployments)
        BY ZenonT(60), PointerOK
    <2> QED
        BY <2>1 DEF ActiveIn
<1>13. \A e \in DOMAIN deployments : deployments[e].previous # 0 =>
        deployments[e].previous \in DOMAIN deployments /\ deployments[e].previous \in Nat
    <2> SUFFICES ASSUME NEW e \in DOMAIN deployments, deployments[e].previous # 0
                 PROVE  deployments[e].previous \in DOMAIN deployments /\ deployments[e].previous \in Nat
        BY Zenon
    <2>1. deployments[e].previous \in 0..(e - 1) /\ e \in 1..Len(deployments)
        BY Zenon, Types
    <2> QED
        BY <2>1, Types
<1>14. DeploymentTypeOK'
    <2>1. new.previous \in 0..((k + 1) - 1)
        BY SMTT(40), <1>1, <1>3, <1>4, <1>12, PointerOK
    <2>2. \A e \in DOMAIN deployments' : /\ deployments'[e].release \in DOMAIN releases'
                                         /\ deployments'[e].previous \in 0..(e - 1)
        BY ZenonT(60), <1>2, <1>3, <1>4, <1>5, <2>1, Types
    <2>3. Len(deployments') <= MaxDeployments
        BY Zenon, <1>2, <1>4
    <2> QED
        BY ZenonT(60), <1>2, <1>4, <1>7, <1>11, <2>2, <2>3, Types, TypesFrom
<1>15. PreviousOK' /\ RunsOK'
    <2>1. PreviousOK'
        <3>1. ASSUME NEW e \in DOMAIN deployments', deployments'[e].previous # 0
              PROVE  \E f \in DOMAIN deployments : /\ deployments'[e].previous = f
                                                   /\ deployments[f].status # "PENDING_APPROVAL"
            <4>1. CASE e = k + 1
                BY ZenonT(60), <1>3, <1>4, <1>12, <3>1, <4>1
            <4>2. CASE e \in DOMAIN deployments
                BY ZenonT(60), <1>5, <3>1, <4>2, PreviousIn
            <4> QED
                BY ZenonT(60), <1>5, <3>1, <4>1, <4>2
        <3> QED
            BY ZenonT(60), <1>5, <3>1, PreviousStays
    <2> QED
        BY ZenonT(60), <1>2, <2>1, SoundIs DEF PromotionInv, RunsOK
<1>16. Newest(deployments', timeline', d) /\ BetweenIn(deployments', timeline')
    <2>1. ActiveIn(deployments') = ActiveIn(deployments) \cup {d}
        BY ZenonT(60), <1>3, <1>5, <1>6, <1>10 DEF ActiveIn
    <2>2. \A e \in ActiveIn(deployments) :
            /\ In(timeline, Activated(e)) /\ deployments'[e].previous = deployments[e].previous
            /\ deployments[e].previous # 0 => In(timeline, Activated(deployments[e].previous))
        <3> SUFFICES ASSUME NEW e \in ActiveIn(deployments)
                     PROVE  /\ In(timeline, Activated(e))
                            /\ deployments'[e].previous = deployments[e].previous
                            /\ deployments[e].previous # 0 =>
                                    In(timeline, Activated(deployments[e].previous))
            BY Zenon
        <3>1. e \in DOMAIN deployments /\ In(timeline, Activated(e))
            BY Zenon, PointerOK
        <3> QED
            BY ZenonT(60), <1>5, <1>8, <1>13, <3>1 DEF PromotionInv, PreviousOK
    <2>3. Pointer # 0 => Before(timeline, Activated(Pointer), Entry(a))
        BY Zenon DEF PromotionInv, StagingOK
    <2>4. /\ deployments'[d].previous = PointerIn(deployments, timeline) /\ 0 \notin ActiveIn(deployments)
          /\ ActiveIn(deployments) # {} =>
                Before(timeline, Activated(PointerIn(deployments, timeline)), Entry(a))
        BY ZenonT(60), <1>3, <1>10, <2>3, PointerOK
    <2>5. BetweenIn(deployments, timeline)
        BY Zenon DEF PromotionInv
    <2>6. Activating(deployments, timeline, deployments', timeline', a, d)
        BY ZenonT(60), <1>2, <1>6, <1>8, <2>1, <2>2, <2>4, <2>5 DEF Activating
    <2> QED
        BY ZenonT(60), <1>8, <2>6, ActivationOrder
<1>17. Pointer' = d
    <2>1. \A e \in ActiveIn(deployments') : In(timeline', Activated(e))
        <3>1. \A e \in ActiveIn(deployments') : /\ e \in DOMAIN deployments' /\ e \in Nat
                                                /\ deployments'[e].status # "PENDING_APPROVAL"
            BY <1>4 DEF ActiveIn
        <3> QED
            BY ZenonT(60), <1>11, <3>1 DEF TimelineOK
    <2>2. PointerIn(deployments', timeline') = d
        BY ZenonT(60), <1>9, <1>16, <2>1, NewestIsPointer
    <2> QED
        BY ZenonT(60), <2>2, PointerIs
<1>18. StagingOK'
    <2>1. Version(Pointer)' = Version(Pointer) + 1
        <3>1. Version(Pointer)' = deployments'[d].version
            BY ZenonT(60), <1>5, <1>6, <1>17 DEF Version
        <3> QED
            BY ZenonT(60), <1>3, <1>10, <3>1
    <2>2. ASSUME NEW b \in Admins, request'[b] # Idle
          PROVE  /\ request'[b].kind \in {"create", "rollback"} /\ request'[b].at = "begun"
                 /\ request'[b].expect <= Version(Pointer) + 1
                 /\ request'[b].expect # Version(Pointer) + 1
        <3>1. request'[b] = request[b] /\ request[b] # Idle
            BY ZenonT(60), <1>7, <2>2
        <3>2. /\ request[b].kind \in {"create", "rollback"} /\ request[b].at = "begun"
              /\ request[b].expect <= Version(Pointer)
            BY Zenon, <3>1 DEF PromotionInv, StagingOK
        <3>3. request[b].expect \in Nat /\ Version(Pointer) \in Nat
            BY ZenonT(60), PointerOK, Types DEF Request
        <3>4. request[b].expect <= Version(Pointer) + 1 /\ request[b].expect # Version(Pointer) + 1
            BY <3>2, <3>3
        <3> QED
            BY ZenonT(60), <3>1, <3>2, <3>4
    <2>3. \A e \in DOMAIN deployments' : deployments'[e].status = "ACTIVE"
        BY ZenonT(60), <1>3, <1>5, <1>6, <1>10 DEF PromotionInv, StagingOK
    <2> QED
        BY ZenonT(60), <2>1, <2>2, <2>3 DEF StagingOK
<1>19. lock' \in Admins \cup {Nobody} /\ releases' \in Seq(ReleaseRow) /\ ~ Production'
    BY Zenon, <1>2 DEF PromotionInv, Production
<1> QED
    BY ZenonT(60), <1>1, <1>5, <1>6, <1>11, <1>14, <1>15, <1>16, <1>17, <1>18, <1>19 DEF PromotionInv

\* create_deployment and rollback_deployment.
LEMMA InsertsInv ==
    ASSUME PromotionInv, NEW a \in Admins, NEW release \in DOMAIN releases,
           \/ RollbackDeployment(a, release)
           \/ \E full \in BOOLEAN : CreateDeployment(a, release, full)
    PROVE  /\ PromotionInv'
           /\ \A d \in DOMAIN deployments : deployments'[d] = deployments[d]
           /\ \A d \in DOMAIN deployments' : d \notin DOMAIN deployments =>
                deployments'[d].status = "PENDING_APPROVAL" \/ Pointer' = d
<1>1. PICK full \in BOOLEAN :
        /\ Insert(a, release, full)
        /\ Production => request[a] = Idle
        /\ ~ Production => /\ request[a].at = "begun"
                           /\ Pointer # 0 => request[a].expect = Version(Pointer)
    BY Zenon DEF RollbackDeployment, CreateDeployment, Sent, Replaces
<1>2. request[a].at = "begun" => request[a] # Idle
    BY DEF Idle
<1> QED
    BY ZenonT(60), <1>1, <1>2, PendingInv, StagedInv

-----------------------------------------------------------------------------
(* Promotion: every step *)

MovesStep == \A d \in DOMAIN deployments' : Activates(d) => Pointer' = d

StandsStep ==
    \A d \in DOMAIN deployments :
       deployments[d].status = "PENDING_APPROVAL" /\ deployments'[d].status = "ACTIVE"
          => LET R == {n \in DOMAIN runs : /\ runs[n].release = deployments[d].release
                                           /\ runs[n].environment = "PRODUCTION"
                                           /\ runs[n].status # "OPEN"} IN
             \E n \in R : runs[n].status = "PASSED" /\ \A m \in R : m <= n

\* A step that makes no deployment ACTIVE says nothing to either.
LEMMA QuietStep ==
    ASSUME \A d \in DOMAIN deployments : d \in DOMAIN deployments',
           \A d \in DOMAIN deployments' : deployments'[d].status = "ACTIVE" =>
                d \in DOMAIN deployments /\ deployments[d].status = "ACTIVE"
    PROVE  MovesStep /\ StandsStep
<1>1. MovesStep
    BY Zenon DEF MovesStep, Activates
<1>2. ASSUME NEW d \in DOMAIN deployments, deployments[d].status = "PENDING_APPROVAL",
             deployments'[d].status = "ACTIVE"
      PROVE  FALSE
    BY <1>2
<1> QED
    BY Zenon, <1>1, <1>2 DEF StandsStep

\* Every step of promotion keeps the invariant; what it activates is the pointer and rests on
\* evidence that stands.
LEMMA PromotionStep ==
    ASSUME PromotionInv, PromotionNext
    PROVE  PromotionInv' /\ MovesStep /\ StandsStep /\ releases' = releases
<1>1. ASSUME deployments' = deployments PROVE MovesStep /\ StandsStep
    BY Zenon, <1>1, QuietStep
<1>2. CASE \E body \in SuiteBodies : CreateEvalSuite(body)
    <2>1. deployments' = deployments /\ releases' = releases
        BY Zenon, <1>2 DEF CreateEvalSuite
    <2> QED
        BY ZenonT(60), <1>1, <1>2, <2>1, SuiteInv
<1>3. CASE \E release \in DOMAIN releases, env \in {"STAGING", "PRODUCTION"} :
                BeginEvalRun(release, env)
    <2>1. deployments' = deployments /\ releases' = releases
        BY Zenon, <1>3 DEF BeginEvalRun
    <2> QED
        BY ZenonT(60), <1>1, <1>3, <2>1, BeginRunInv
<1>4. CASE \E n \in DOMAIN runs, evidence \in Evidences : CommitEvalRun(n, evidence)
    <2>1. deployments' = deployments /\ releases' = releases
        BY Zenon, <1>4 DEF CommitEvalRun
    <2> QED
        BY ZenonT(60), <1>1, <1>4, <2>1, CommitRunInv
<1>5. ASSUME NEW a \in Admins,
             \/ BeginCreate(a) \/ BeginRollback(a)
             \/ \E d \in DOMAIN deployments : BeginApprove(a, d)
      PROVE  PromotionInv' /\ MovesStep /\ StandsStep /\ releases' = releases
    <2>1. deployments' = deployments /\ releases' = releases
        BY Zenon, <1>5 DEF BeginCreate, BeginRollback, BeginApprove, Begin
    <2> QED
        BY ZenonT(60), <1>1, <1>5, <2>1, BeginsInv
<1>6. ASSUME NEW a \in Admins, Abandon(a)
      PROVE  PromotionInv' /\ MovesStep /\ StandsStep /\ releases' = releases
    <2>1. deployments' = deployments /\ releases' = releases
        BY ZenonT(60), <1>6 DEF Abandon
    <2> QED
        BY ZenonT(60), <1>1, <1>6, <2>1, AbandonInv
<1>7. ASSUME NEW a \in Admins, ApproveGate(a)
      PROVE  PromotionInv' /\ MovesStep /\ StandsStep /\ releases' = releases
    <2>1. deployments' = deployments /\ releases' = releases
        BY Zenon, <1>7 DEF ApproveGate
    <2> QED
        BY Zenon, <1>1, <1>7, <2>1, GateInv
<1>8. ASSUME NEW a \in Admins, ApproveActivate(a)
      PROVE  PromotionInv' /\ MovesStep /\ StandsStep /\ releases' = releases
    <2>1. PICK t : t = request[a].target
        BY Zenon
    <2>2. /\ PromotionInv' /\ Pointer' = t /\ GatedOK(a) /\ t \in DOMAIN deployments
          /\ DOMAIN deployments' = DOMAIN deployments
          /\ \A e \in DOMAIN deployments : e # t => deployments'[e] = deployments[e]
        BY Zenon, <1>8, <2>1, ActivateInv
    <2>3. MovesStep
        BY Zenon, <2>2 DEF MovesStep, Activates
    <2>4. ASSUME NEW d \in DOMAIN deployments, deployments[d].status = "PENDING_APPROVAL",
                 deployments'[d].status = "ACTIVE"
          PROVE  d = t
        <3>1. deployments'[d] # deployments[d]
            BY <2>4
        <3> QED
            BY ZenonT(60), <2>2, <3>1
    <2>5. GateOpen(deployments[t].release)
        BY ZenonT(60), <2>1, <2>2 DEF GatedOK
    <2>6. StandsStep
        BY ZenonT(60), <2>4, <2>5 DEF StandsStep, GateOpen, ProductionRuns
    <2>7. releases' = releases
        BY Zenon, <1>8 DEF ApproveActivate
    <2> QED
        BY ZenonT(60), <2>2, <2>3, <2>6, <2>7
<1>9. ASSUME NEW a \in Admins, NEW release \in DOMAIN releases,
             \/ RollbackDeployment(a, release)
             \/ \E full \in BOOLEAN : CreateDeployment(a, release, full)
      PROVE  PromotionInv' /\ MovesStep /\ StandsStep /\ releases' = releases
    <2>1. /\ PromotionInv'
          /\ \A d \in DOMAIN deployments : deployments'[d] = deployments[d]
          /\ \A d \in DOMAIN deployments' : d \notin DOMAIN deployments =>
                deployments'[d].status = "PENDING_APPROVAL" \/ Pointer' = d
        BY ZenonT(60), <1>9, InsertsInv
    <2>2. ASSUME NEW d \in DOMAIN deployments', Activates(d) PROVE Pointer' = d
        <3>1. deployments'[d].status # "PENDING_APPROVAL"
            BY <2>2 DEF Activates
        <3> QED
            BY ZenonT(60), <2>1, <2>2, <3>1 DEF Activates
    <2>3. ASSUME NEW d \in DOMAIN deployments, deployments[d].status = "PENDING_APPROVAL",
                 deployments'[d].status = "ACTIVE"
          PROVE  FALSE
        <3>1. deployments'[d] # deployments[d]
            BY <2>3
        <3> QED
            BY Zenon, <2>1, <3>1
    <2>4. releases' = releases
        BY ZenonT(60), <1>9 DEF RollbackDeployment, CreateDeployment, Insert
    <2> QED
        BY ZenonT(60), <2>1, <2>2, <2>3, <2>4 DEF MovesStep, StandsStep
<1>10. ASSUME NEW d \in DOMAIN deployments, Halt(d)
       PROVE  PromotionInv' /\ MovesStep /\ StandsStep /\ releases' = releases
    <2>1. /\ deployments' = [deployments EXCEPT ![d].status = "HALTED", ![d].version = @ + 1]
          /\ deployments[d].status = "ACTIVE" /\ releases' = releases
        BY Zenon, <1>10 DEF Halt
    <2>2. DOMAIN deployments' = DOMAIN deployments
        BY Zenon, <2>1
    <2>3. \A e \in DOMAIN deployments : e # d => deployments'[e] = deployments[e]
        BY Zenon, <2>1
    <2>4. MovesStep /\ StandsStep
        BY ZenonT(60), <2>1, <2>2, <2>3, QuietStep
    <2> QED
        BY ZenonT(60), <1>10, <2>1, <2>4, HaltInv
<1> QED
    BY ZenonT(60), <1>2, <1>3, <1>4, <1>5, <1>6, <1>7, <1>8, <1>9, <1>10 DEF PromotionNext

-----------------------------------------------------------------------------
(* Authoring *)

\* What a publication has read was valid when it was read, and a release is what was read.
AuthorInv ==
    /\ DraftTypeOK /\ SnapshotsAreDrafts
    /\ \A a \in Admins : publisher[a] # None => Valid(publisher[a].content)

\* The number of a new draft's life, one more than the largest an editor has in mind.
LEMMA Max0Nat ==
    ASSUME NEW S, NEW top \in Nat, S \subseteq 0..top
    PROVE  Max0(S) \in Nat
<1>1. CASE S = {}
    BY <1>1 DEF Max0
<1>2. CASE S # {}
    <2>1. \E v \in S : \A w \in S : w <= v
        BY Zenon, <1>2, GreatestExists
    <2>2. Max0(S) \in S
        BY Zenon, <1>2, <2>1 DEF Max0
    <2>3. \A w \in 0..top : w \in Nat
        OBVIOUS
    <2> QED
        BY ZenonT(60), <2>2, <2>3
<1> QED
    BY ZenonT(60), <1>1, <1>2

\* The application row: releases disappear with it and are not changed otherwise.
LEMMA ApplicationInv ==
    ASSUME AuthorInv, CreateApplication \/ UpdateApplication \/ DeleteApplication
    PROVE  AuthorInv'
<1> DEFINE rows == [status : {"absent", "live", "deleted"}, version : 1..MaxEdits]
<1>1. application \in rows
    BY Zenon DEF AuthorInv, DraftTypeOK
<1>2. application' \in rows
    <2>1. CASE CreateApplication
        BY <2>1, DraftAssumption DEF CreateApplication
    <2>2. CASE UpdateApplication
        <3>1. application.version \in 1..MaxEdits /\ application.version < MaxEdits
            BY <1>1, <2>2 DEF UpdateApplication
        <3>2. application.version + 1 \in 1..MaxEdits
            BY <3>1, DraftAssumption
        <3> QED
            BY <1>1, <2>2, <3>2 DEF UpdateApplication
    <2>3. CASE DeleteApplication
        BY <1>1, <2>3 DEF DeleteApplication
    <2> QED
        BY ZenonT(60), <2>1, <2>2, <2>3
<1> HIDE DEF rows
<1>3. /\ draft' \in Drafts \cup {None} /\ editor' = editor /\ publisher' = publisher /\ lock' = lock
      /\ releases' = releases \/ releases' = <<>>
    BY Zenon DEF AuthorInv, DraftTypeOK, CreateApplication, UpdateApplication, DeleteApplication
<1>4. releases' \in Seq(ReleaseRow) /\ SnapshotsAreDrafts'
    <2>1. CASE releases' = releases
        BY Zenon, <2>1 DEF AuthorInv, DraftTypeOK, SnapshotsAreDrafts
    <2>2. CASE releases' = <<>>
        BY <2>2 DEF SnapshotsAreDrafts
    <2> QED
        BY ZenonT(60), <1>3, <2>1, <2>2
<1> QED
    BY Zenon, <1>2, <1>3, <1>4 DEF AuthorInv, DraftTypeOK, rows

\* The draft: what editors and publications have in mind stays.
LEMMA DraftInv ==
    ASSUME AuthorInv,
           \/ \E content \in Contents : CreateDraft(content)
           \/ \E a \in Admins : \/ ReadDraft(a) \/ DeleteDraft(a)
                                \/ \E content \in Contents : UpdateDraft(a, content)
    PROVE  AuthorInv'
<1>1. /\ application' = application /\ releases' = releases /\ publisher' = publisher /\ lock' = lock
    BY Zenon DEF CreateDraft, ReadDraft, DeleteDraft, UpdateDraft
<1>2. draft \in Drafts \cup {None} /\ editor \in [Admins -> Drafts \cup {None}]
    BY Zenon DEF AuthorInv, DraftTypeOK
<1>3. draft' \in Drafts \cup {None} /\ editor' \in [Admins -> Drafts \cup {None}]
    <2>1. ASSUME NEW content \in Contents, CreateDraft(content)
          PROVE  draft' \in Drafts \cup {None} /\ editor' \in [Admins -> Drafts \cup {None}]
        <3> DEFINE lives == {editor[a].life : a \in {b \in Admins : editor[b] # None}}
        <3>1. \A b \in Admins : editor[b] # None => editor[b].life \in 0..MaxLives
            <4> SUFFICES ASSUME NEW b \in Admins, editor[b] # None
                         PROVE  editor[b].life \in 0..MaxLives
                BY Zenon
            <4>1. editor[b] \in Drafts
                BY Zenon, <1>2
            <4> QED
                BY <4>1, DraftAssumption DEF Drafts
        <3>2. lives \subseteq 0..MaxLives
            BY Zenon, <3>1
        <3>3. Max0(lives) \in Nat
            BY ZenonT(60), <3>2, Max0Nat, DraftAssumption
        <3>4. /\ 1 + Max0(lives) <= MaxLives /\ editor' = editor
              /\ draft' = [version |-> 1, content |-> content, life |-> 1 + Max0(lives)]
            BY ZenonT(60), <2>1 DEF CreateDraft
        <3> HIDE DEF lives
        <3>5. 1 \in 1..MaxVersion /\ 1 + Max0(lives) \in 1..MaxLives
            BY <3>3, <3>4, DraftAssumption
        <3>6. draft' \in Drafts
            BY Zenon, <3>4, <3>5 DEF Drafts
        <3> QED
            BY ZenonT(60), <1>2, <3>4, <3>6
    <2>2. ASSUME NEW a \in Admins, ReadDraft(a)
          PROVE  draft' \in Drafts \cup {None} /\ editor' \in [Admins -> Drafts \cup {None}]
        BY Zenon, <1>2, <2>2 DEF ReadDraft
    <2>3. ASSUME NEW a \in Admins, DeleteDraft(a)
          PROVE  draft' \in Drafts \cup {None} /\ editor' \in [Admins -> Drafts \cup {None}]
        BY Zenon, <1>2, <2>3 DEF DeleteDraft
    <2>4. ASSUME NEW a \in Admins, NEW content \in Contents, UpdateDraft(a, content)
          PROVE  draft' \in Drafts \cup {None} /\ editor' \in [Admins -> Drafts \cup {None}]
        <3>1. /\ draft \in Drafts /\ draft.version < MaxVersion
              /\ draft' = [draft EXCEPT !.version = draft.version + 1, !.content = content]
              /\ editor' = [editor EXCEPT ![a] = draft']
            BY Zenon, <1>2, <2>4 DEF UpdateDraft, Matches
        <3>2. draft.version \in 1..MaxVersion
            BY Zenon, <3>1 DEF Drafts
        <3>3. draft.version + 1 \in 1..MaxVersion
            BY <3>1, <3>2, DraftAssumption
        <3>4. draft' \in Drafts
            BY Zenon, <3>1, <3>3 DEF Drafts
        <3> QED
            BY Zenon, <1>2, <3>1, <3>4
    <2> QED
        BY ZenonT(60), <2>1, <2>2, <2>3, <2>4
<1> QED
    BY Zenon, <1>1, <1>3 DEF AuthorInv, DraftTypeOK, SnapshotsAreDrafts

\* Publication: the release is the row that was read and validated, whatever happened to the
\* draft in between.
LEMMA PublishInv ==
    ASSUME AuthorInv, NEW a \in Admins, PublishRead(a) \/ PublishCommit(a) \/ PublishFails(a)
    PROVE  AuthorInv'
<1>1. /\ application' = application /\ draft' = draft /\ editor' = editor
      /\ publisher \in [Admins -> Drafts \cup {None}] /\ draft \in Drafts \cup {None}
      /\ releases \in Seq(ReleaseRow)
    BY Zenon DEF AuthorInv, DraftTypeOK, PublishRead, PublishCommit, PublishFails
<1>2. CASE PublishRead(a)
    <2>1. /\ publisher' = [publisher EXCEPT ![a] = draft] /\ lock' = a /\ releases' = releases
          /\ Valid(draft.content)
        BY Zenon, <1>2 DEF PublishRead, Publishable
    <2>2. /\ publisher' \in [Admins -> Drafts \cup {None}]
          /\ \A b \in Admins : publisher'[b] = IF b = a THEN draft ELSE publisher[b]
        BY Zenon, <1>1, <2>1
    <2> QED
        BY Zenon, <1>1, <2>1, <2>2 DEF AuthorInv, DraftTypeOK, SnapshotsAreDrafts
<1>3. CASE PublishCommit(a) \/ PublishFails(a)
    <2>1. /\ publisher' = [publisher EXCEPT ![a] = None] /\ lock' = Nobody /\ publisher[a] # None
          /\ \/ releases' = releases
             \/ releases' = Append(releases, Snapshot(publisher[a]))
        BY Zenon, <1>3 DEF PublishCommit, PublishFails
    <2>2. /\ publisher' \in [Admins -> Drafts \cup {None}]
          /\ \A b \in Admins : publisher'[b] = IF b = a THEN None ELSE publisher[b]
        BY ZenonT(60), <1>1, <2>1
    <2>3. PICK d \in Drafts : d = publisher[a] /\ Valid(d.content)
        BY ZenonT(60), <1>1, <2>1 DEF AuthorInv
    <2>4. d.version \in 1..MaxVersion
        BY Zenon DEF Drafts
    <2>p. PICK new : new = Snapshot(d)
        BY ZenonT(60)
    <2>5. new \in ReleaseRow /\ new.version = d.version /\ new.row = d
        BY <2>4, <2>p DEF ReleaseRow, Snapshot
    <2>6. releases' \in Seq(ReleaseRow) /\ SnapshotsAreDrafts'
        <3>1. CASE releases' = releases
            BY ZenonT(60), <1>1, <3>1 DEF AuthorInv, SnapshotsAreDrafts
        <3>2. CASE releases' = Append(releases, new)
            <4>1. /\ releases' \in Seq(ReleaseRow)
                  /\ \A n \in DOMAIN releases' :
                        \/ n \in DOMAIN releases /\ releases'[n] = releases[n]
                        \/ releases'[n] = new
                BY <1>1, <2>5, <3>2
            <4> QED
                BY ZenonT(60), <2>3, <2>5, <4>1 DEF AuthorInv, SnapshotsAreDrafts
        <3> QED
            BY ZenonT(60), <2>1, <2>3, <2>p, <3>1, <3>2
    <2> QED
        BY ZenonT(60), <1>1, <2>1, <2>2, <2>6 DEF AuthorInv, DraftTypeOK
<1> QED
    BY Zenon, <1>2, <1>3

\* Every step of authoring keeps its invariant.
LEMMA AuthoringStep ==
    ASSUME AuthorInv, AuthoringNext
    PROVE  AuthorInv'
BY ZenonT(60), ApplicationInv, DraftInv, PublishInv DEF AuthoringNext

-----------------------------------------------------------------------------
(* Governance *)

\* What an activation has locked: its own row and the ones it retires, which still have the
\* status it found when it got their locks.
LockedOK(a) ==
    LET t == activation[a] IN
    t # None =>
        /\ t.version \in DOMAIN bundles /\ rowLock[t.version] = a /\ t.found \subseteq DOMAIN bundles
        /\ \A v \in t.retired : /\ v \in DOMAIN bundles /\ rowLock[v] = a
                                /\ bundles[v] \in Retirable(t.status)

SomeGoverns == \E v \in DOMAIN bundles : bundles[v] \in {"ACTIVE", "CANARY"}

GovernInv ==
    /\ BundleTypeOK /\ \A a \in Admins : LockedOK(a)
    /\ (\E v \in DOMAIN bundles : bundles[v] # "DRAFT") => SomeGoverns

\* The types of the statuses, the activations and the locks.
LEMMA GovernTypes ==
    ASSUME GovernInv
    PROVE  /\ bundles \in Seq({"DRAFT", "ACTIVE", "CANARY", "RETIRED"}) /\ Len(bundles) <= MaxBundles
           /\ Len(bundles) \in Nat /\ DOMAIN bundles = 1..Len(bundles)
           /\ DOMAIN bundles \subseteq Versions
           /\ drafting \in [Admins -> Versions \cup {None}]
           /\ activation \in [Admins -> Activation \cup {None}]
           /\ rowLock \in [Versions -> Admins \cup {Nobody}]
           /\ \A a \in Admins : activation[a] # None => activation[a] \in Activation
<1>1. /\ bundles \in Seq({"DRAFT", "ACTIVE", "CANARY", "RETIRED"}) /\ Len(bundles) <= MaxBundles
      /\ drafting \in [Admins -> Versions \cup {None}]
      /\ activation \in [Admins -> Activation \cup {None}]
      /\ rowLock \in [Versions -> Admins \cup {Nobody}]
    BY Zenon DEF GovernInv, BundleTypeOK
<1>2. /\ Len(bundles) \in Nat /\ DOMAIN bundles = 1..Len(bundles)
      /\ DOMAIN bundles \subseteq Versions
    BY <1>1, PublishedAssumption DEF Versions
<1> QED
    BY Zenon, <1>1, <1>2

\* A version is created: what is locked and what governs stays.
LEMMA VersionInv ==
    ASSUME GovernInv, NEW a \in Admins, NextVersion(a) \/ CreateVersion(a)
    PROVE  GovernInv'
<1>1. activation' = activation /\ rowLock' = rowLock
    BY Zenon DEF NextVersion, CreateVersion
<1>2. drafting' \in [Admins -> Versions \cup {None}]
    <2>1. CASE NextVersion(a)
        <3>1. Len(bundles) + 1 \in Versions
            BY <2>1, GovernTypes, PublishedAssumption DEF NextVersion, Versions
        <3> QED
            BY ZenonT(60), <2>1, <3>1, GovernTypes DEF NextVersion
    <2>2. CASE CreateVersion(a)
        BY Zenon, <2>2, GovernTypes DEF CreateVersion
    <2> QED
        BY Zenon, <2>1, <2>2
<1>3. \/ bundles' = bundles
      \/ bundles' = Append(bundles, "DRAFT") /\ Len(bundles) + 1 <= MaxBundles
    <2>1. CASE NextVersion(a)
        BY Zenon, <2>1 DEF NextVersion
    <2>2. CASE CreateVersion(a)
        <3>1. /\ drafting[a] \in Versions
              /\ bundles' = IF drafting[a] = Len(bundles) + 1 THEN Append(bundles, "DRAFT") ELSE bundles
            BY Zenon, <2>2, GovernTypes DEF CreateVersion
        <3>2. drafting[a] = Len(bundles) + 1 => Len(bundles) + 1 <= MaxBundles
            BY <3>1, PublishedAssumption DEF Versions
        <3> QED
            BY Zenon, <3>1, <3>2
    <2> QED
        BY Zenon, <2>1, <2>2
<1>4. /\ bundles' \in Seq({"DRAFT", "ACTIVE", "CANARY", "RETIRED"}) /\ Len(bundles') <= MaxBundles
      /\ \A v \in DOMAIN bundles : v \in DOMAIN bundles' /\ bundles'[v] = bundles[v]
      /\ \A v \in DOMAIN bundles' : v \in DOMAIN bundles \/ bundles'[v] = "DRAFT"
    <2>1. CASE bundles' = bundles
        BY ZenonT(60), <2>1, GovernTypes
    <2>2. CASE bundles' = Append(bundles, "DRAFT") /\ Len(bundles) + 1 <= MaxBundles
        BY <2>2, GovernTypes
    <2> QED
        BY Zenon, <1>3, <2>1, <2>2
<1>5. BundleTypeOK'
    BY ZenonT(60), <1>1, <1>2, <1>4, GovernTypes DEF BundleTypeOK
<1>6. \A b \in Admins : LockedOK(b)'
    BY Zenon, <1>1, <1>4 DEF GovernInv, LockedOK
<1>7. (\E v \in DOMAIN bundles' : bundles'[v] # "DRAFT") => SomeGoverns'
    BY Zenon, <1>4 DEF GovernInv, SomeGoverns
<1> QED
    BY ZenonT(60), <1>5, <1>6, <1>7 DEF GovernInv

\* A step of activate before its commit: only its own activation changes, and only free rows
\* are locked.
LEMMA LockingInv ==
    ASSUME GovernInv, NEW a \in Admins, NEW t \in Activation, bundles' = bundles,
           drafting' = drafting, activation' = [activation EXCEPT ![a] = t],
           rowLock' \in [Versions -> Admins \cup {Nobody}],
           \A v \in Versions : rowLock'[v] = rowLock[v] \/ (rowLock[v] = Nobody /\ rowLock'[v] = a),
           t.version \in DOMAIN bundles, rowLock'[t.version] = a, t.found \subseteq DOMAIN bundles,
           \A v \in t.retired : /\ v \in DOMAIN bundles /\ rowLock'[v] = a
                                /\ bundles[v] \in Retirable(t.status)
    PROVE  GovernInv'
<1>1. /\ activation' \in [Admins -> Activation \cup {None}] /\ activation'[a] = t
      /\ \A b \in Admins : b # a => activation'[b] = activation[b]
    BY Zenon, GovernTypes
<1>2. BundleTypeOK'
    BY Zenon, <1>1, GovernTypes DEF BundleTypeOK
<1>3. ASSUME NEW b \in Admins PROVE LockedOK(b)'
    <2>1. CASE b = a
        BY Zenon, <1>1, <2>1 DEF LockedOK
    <2>2. CASE b # a
        <3>1. \A v \in DOMAIN bundles : rowLock[v] = b => rowLock'[v] = b
            BY Zenon, GovernTypes, DeploymentAssumption
        <3> QED
            BY ZenonT(60), <1>1, <2>2, <3>1 DEF GovernInv, LockedOK
    <2> QED
        BY Zenon, <2>1, <2>2
<1> QED
    BY Zenon, <1>2, <1>3 DEF GovernInv, SomeGoverns

\* SELECT ... FOR UPDATE of the version.
LEMMA ActivateRowInv ==
    ASSUME GovernInv, NEW a \in Admins, NEW v \in Versions, NEW status \in {"ACTIVE", "CANARY"},
           Activate(a, v, status)
    PROVE  GovernInv'
<1> DEFINE t == [version |-> v, status |-> status, at |-> "locked", found |-> {}, retired |-> {}]
<1>1. /\ v \in DOMAIN bundles /\ rowLock[v] = Nobody /\ bundles' = bundles /\ drafting' = drafting
      /\ activation' = [activation EXCEPT ![a] = t] /\ rowLock' = [rowLock EXCEPT ![v] = a]
    BY Zenon DEF Activate
<1>2. t \in Activation /\ t.version = v /\ t.retired = {} /\ t.found = {}
    BY DEF Activation
<1> HIDE DEF t
<1>3. /\ rowLock' \in [Versions -> Admins \cup {Nobody}] /\ rowLock'[v] = a
      /\ \A w \in Versions : w # v => rowLock'[w] = rowLock[w]
    BY Zenon, <1>1, GovernTypes
<1> QED
    BY Zenon, <1>1, <1>2, <1>3, LockingInv

\* The UPDATE finds its rows.
LEMMA FindRowsInv ==
    ASSUME GovernInv, NEW a \in Admins, FindRows(a)
    PROVE  GovernInv'
<1>1. PICK t : t = activation[a]
    BY Zenon
<1>2. PICK rows : rows = {w \in DOMAIN bundles \ {t.version} : bundles[w] \in Retirable(t.status)}
    BY Zenon
<1>3. /\ t # None /\ bundles' = bundles /\ drafting' = drafting /\ rowLock' = rowLock
      /\ activation' = [activation EXCEPT ![a].at = "retiring", ![a].found = rows]
    BY ZenonT(60), <1>1, <1>2 DEF FindRows
<1>4. t \in Activation /\ rows \subseteq Versions /\ rows \subseteq DOMAIN bundles /\ activation \in [Admins -> Activation \cup {None}]
    BY ZenonT(60), <1>1, <1>2, <1>3, GovernTypes
<1>p. PICK new : new = [t EXCEPT !.at = "retiring", !.found = rows]
    BY Zenon
<1>5. /\ new \in Activation /\ new.version = t.version /\ new.status = t.status
      /\ new.retired = t.retired /\ new.found = rows
    BY Zenon, <1>4, <1>p DEF Activation
<1>6. activation' = [activation EXCEPT ![a] = new]
    BY Zenon, <1>1, <1>3, <1>4, <1>p
<1>7. /\ t.version \in DOMAIN bundles /\ rowLock[t.version] = a
      /\ \A v \in t.retired : /\ v \in DOMAIN bundles /\ rowLock[v] = a
                              /\ bundles[v] \in Retirable(t.status)
    BY Zenon, <1>1, <1>3 DEF GovernInv, LockedOK
<1>8. /\ new.version \in DOMAIN bundles /\ rowLock'[new.version] = a
      /\ new.found \subseteq DOMAIN bundles
      /\ \A v \in new.retired : /\ v \in DOMAIN bundles /\ rowLock'[v] = a
                                /\ bundles[v] \in Retirable(new.status)
    BY ZenonT(60), <1>3, <1>4, <1>5, <1>7
<1>9. /\ rowLock' \in [Versions -> Admins \cup {Nobody}]
      /\ \A v \in Versions : rowLock'[v] = rowLock[v]
    BY ZenonT(60), <1>3, GovernTypes
<1> QED
    BY ZenonT(60), <1>3, <1>5, <1>6, <1>8, <1>9, LockingInv

\* The UPDATE gets one row.
LEMMA RetireRowInv ==
    ASSUME GovernInv, NEW a \in Admins, NEW w \in Versions, RetireRow(a, w)
    PROVE  GovernInv'
<1>1. PICK t : t = activation[a]
    BY Zenon
<1>2. /\ t # None /\ w \in t.found /\ rowLock[w] = Nobody
      /\ bundles' = bundles /\ drafting' = drafting
    BY Zenon, <1>1 DEF RetireRow
<1>3. t \in Activation /\ activation \in [Admins -> Activation \cup {None}]
    BY ZenonT(60), <1>1, <1>2, GovernTypes
<1>4. PICK retired \in SUBSET Versions :
        retired = IF bundles[w] \in Retirable(t.status) THEN t.retired \cup {w} ELSE t.retired
    <2>1. t.retired \in SUBSET Versions
        BY Zenon, <1>3 DEF Activation
    <2> QED
        BY Zenon, <2>1
<1>p. PICK new : new = [t EXCEPT !.found = t.found \ {w}, !.retired = retired]
    BY Zenon
<1>5. /\ new \in Activation /\ new.version = t.version /\ new.status = t.status
      /\ new.retired = retired /\ new.found = t.found \ {w}
    BY Zenon, <1>3, <1>4, <1>p DEF Activation
<1>6. activation' = [activation EXCEPT ![a] = new]
    BY ZenonT(60), <1>1, <1>3, <1>4, <1>p DEF RetireRow
<1>7. /\ t.version \in DOMAIN bundles /\ rowLock[t.version] = a /\ t.found \subseteq DOMAIN bundles
      /\ \A v \in t.retired : /\ v \in DOMAIN bundles /\ rowLock[v] = a
                              /\ bundles[v] \in Retirable(t.status)
    BY Zenon, <1>1, <1>2 DEF GovernInv, LockedOK
<1>8. rowLock' = IF bundles[w] \in Retirable(t.status) THEN [rowLock EXCEPT ![w] = a] ELSE rowLock
    BY Zenon, <1>1 DEF RetireRow
<1>9. /\ rowLock' \in [Versions -> Admins \cup {Nobody}]
      /\ \A v \in Versions : v # w => rowLock'[v] = rowLock[v]
      /\ rowLock'[w] = IF bundles[w] \in Retirable(t.status) THEN a ELSE Nobody
    BY ZenonT(60), <1>2, <1>8, GovernTypes
<1>10. \A v \in Versions : rowLock[v] = a => rowLock'[v] = a
    BY ZenonT(60), <1>2, <1>9, DeploymentAssumption
<1>11. \A v \in new.retired : /\ v \in DOMAIN bundles /\ rowLock'[v] = a
                              /\ bundles[v] \in Retirable(new.status)
    BY ZenonT(60), <1>2, <1>4, <1>5, <1>7, <1>9, <1>10, GovernTypes
<1>12. /\ new.version \in DOMAIN bundles /\ rowLock'[new.version] = a
       /\ new.found \subseteq DOMAIN bundles
    BY Zenon, <1>5, <1>7, <1>10, GovernTypes
<1>13. \A v \in Versions : rowLock'[v] = rowLock[v] \/ (rowLock[v] = Nobody /\ rowLock'[v] = a)
    BY ZenonT(60), <1>2, <1>9
<1> QED
    BY ZenonT(60), <1>2, <1>5, <1>6, <1>9, <1>11, <1>12, <1>13, LockingInv

\* The end of an activation: its locks are released, and the others keep theirs.
LEMMA ReleasedLocks ==
    ASSUME GovernInv, NEW a \in Admins, rowLock' = Released(a),
           activation' = [activation EXCEPT ![a] = None]
    PROVE  /\ rowLock' \in [Versions -> Admins \cup {Nobody}]
           /\ activation' \in [Admins -> Activation \cup {None}] /\ activation'[a] = None
           /\ \A b \in Admins : b # a => /\ activation'[b] = activation[b]
                                         /\ \A v \in Versions : rowLock[v] = b => rowLock'[v] = b
<1>1. \A v \in Versions : rowLock'[v] = IF rowLock[v] = a THEN Nobody ELSE rowLock[v]
    BY Zenon DEF Released
<1>2. rowLock' \in [Versions -> Admins \cup {Nobody}]
    BY Zenon, GovernTypes DEF Released
<1> QED
    BY ZenonT(60), <1>1, <1>2, GovernTypes

\* A rollback changes no status.
LEMMA RollBackInv ==
    ASSUME GovernInv, NEW a \in Admins, RollBackActivation(a)
    PROVE  GovernInv'
<1>1. /\ rowLock' = Released(a) /\ activation' = [activation EXCEPT ![a] = None]
      /\ bundles' = bundles /\ drafting' = drafting
    BY Zenon DEF RollBackActivation
<1>2. /\ rowLock' \in [Versions -> Admins \cup {Nobody}]
      /\ activation' \in [Admins -> Activation \cup {None}] /\ activation'[a] = None
      /\ \A b \in Admins : b # a => /\ activation'[b] = activation[b]
                                    /\ \A v \in Versions : rowLock[v] = b => rowLock'[v] = b
    BY ZenonT(60), <1>1, ReleasedLocks
<1>3. BundleTypeOK'
    BY ZenonT(60), <1>1, <1>2, GovernTypes DEF BundleTypeOK
<1>4. \A b \in Admins : LockedOK(b)'
    <2> SUFFICES ASSUME NEW b \in Admins, b # a PROVE LockedOK(b)'
        BY Zenon, <1>2 DEF LockedOK
    <2> QED
        BY ZenonT(60), <1>1, <1>2, GovernTypes DEF GovernInv, LockedOK
<1> QED
    BY ZenonT(60), <1>1, <1>3, <1>4 DEF GovernInv, SomeGoverns

\* The commit of an activation: the version it marks governs, and what others have locked is
\* as they found it.
LEMMA MarkRowInv ==
    ASSUME GovernInv, NEW a \in Admins, MarkRow(a)
    PROVE  GovernInv'
<1>1. PICK t : t = activation[a]
    BY Zenon
<1>2. /\ t # None /\ rowLock' = Released(a) /\ activation' = [activation EXCEPT ![a] = None]
      /\ drafting' = drafting
      /\ bundles' = [v \in DOMAIN bundles |-> IF v = t.version THEN t.status
                                              ELSE IF v \in t.retired THEN "RETIRED" ELSE bundles[v]]
    BY Zenon, <1>1 DEF MarkRow
<1>3. /\ rowLock' \in [Versions -> Admins \cup {Nobody}]
      /\ activation' \in [Admins -> Activation \cup {None}] /\ activation'[a] = None
      /\ \A b \in Admins : b # a => /\ activation'[b] = activation[b]
                                    /\ \A v \in Versions : rowLock[v] = b => rowLock'[v] = b
    BY ZenonT(60), <1>2, ReleasedLocks
<1>4. /\ t \in Activation /\ t.version \in DOMAIN bundles /\ rowLock[t.version] = a
      /\ \A v \in t.retired : v \in DOMAIN bundles /\ rowLock[v] = a
    BY ZenonT(60), <1>1, <1>2, GovernTypes DEF GovernInv, LockedOK
<1>5. t.status \in {"ACTIVE", "CANARY"}
    BY ZenonT(60), <1>4 DEF Activation
<1>6. /\ bundles' \in Seq({"DRAFT", "ACTIVE", "CANARY", "RETIRED"}) /\ Len(bundles') = Len(bundles)
      /\ DOMAIN bundles' = DOMAIN bundles
    BY <1>2, <1>5, GovernTypes
<1>7. /\ bundles'[t.version] = t.status
      /\ \A v \in DOMAIN bundles : v # t.version /\ v \notin t.retired => bundles'[v] = bundles[v]
    BY Zenon, <1>2, <1>4
<1>8. BundleTypeOK'
    BY ZenonT(60), <1>2, <1>3, <1>6, GovernTypes DEF BundleTypeOK
<1>9. \A b \in Admins : LockedOK(b)'
    <2> SUFFICES ASSUME NEW b \in Admins, b # a PROVE LockedOK(b)'
        BY Zenon, <1>3 DEF LockedOK
    <2>1. \A v \in DOMAIN bundles : rowLock[v] = b => bundles'[v] = bundles[v]
        BY Zenon, <1>4, <1>7
    <2>2. activation'[b] = activation[b] /\ \A v \in DOMAIN bundles : rowLock[v] = b => rowLock'[v] = b
        BY Zenon, <1>3, GovernTypes
    <2>3. LockedOK(b)
        BY Zenon DEF GovernInv
    <2> QED
        BY ZenonT(60), <1>6, <2>1, <2>2, <2>3 DEF LockedOK
<1>10. SomeGoverns'
    BY ZenonT(60), <1>4, <1>5, <1>6, <1>7 DEF SomeGoverns
<1> QED
    BY ZenonT(60), <1>8, <1>9, <1>10 DEF GovernInv

\* Every step of governance keeps its invariant.
LEMMA GovernanceStep ==
    ASSUME GovernInv, GovernanceNext
    PROVE  GovernInv'
BY ZenonT(60), VersionInv, ActivateRowInv, FindRowsInv, RetireRowInv, MarkRowInv, RollBackInv
   DEF GovernanceNext

\* LowestOf is the least version of a set that has one.
LEMMA LowestIs ==
    ASSUME NEW S, S # {}, S \subseteq Nat
    PROVE  LowestOf(S) \in S /\ \A w \in S : LowestOf(S) <= w
BY Zenon, LeastExists DEF LowestOf

\* Once a version was activated, resolve finds one or refuses.
LEMMA Governed ==
    ASSUME GovernInv
    PROVE  StaysGoverned
<1> SUFFICES ASSUME NEW inShare \in BOOLEAN, \E v \in DOMAIN bundles : bundles[v] # "DRAFT"
             PROVE  Resolved(inShare) # NoPolicy
    BY Zenon DEF StaysGoverned
<1>1. PICK stable : stable = WithStatus("ACTIVE")
    BY Zenon
<1>2. PICK canary : canary = WithStatus("CANARY")
    BY Zenon
<1>3. stable \cup canary # {}
    BY ZenonT(60), <1>1, <1>2 DEF GovernInv, SomeGoverns, WithStatus
<1>4. /\ stable \subseteq DOMAIN bundles /\ canary \subseteq DOMAIN bundles
      /\ DOMAIN bundles \subseteq Nat /\ 0 \notin DOMAIN bundles
    BY <1>1, <1>2, GovernTypes DEF WithStatus
<1>5. Resolved(inShare) = IF stable = {} THEN -1
                          ELSE IF inShare /\ canary # {} THEN LowestOf(canary) ELSE LowestOf(stable)
    BY ZenonT(60), <1>1, <1>2, <1>3 DEF Resolved, Unavailable
<1>6. CASE stable = {}
    BY <1>5, <1>6 DEF NoPolicy
<1>7. CASE stable # {} /\ inShare /\ canary # {}
    <2>1. LowestOf(canary) \in canary
        BY ZenonT(60), <1>4, <1>7, LowestIs
    <2> QED
        BY ZenonT(60), <1>4, <1>5, <1>7, <2>1 DEF NoPolicy
<1>8. CASE stable # {} /\ ~ (inShare /\ canary # {})
    <2>1. LowestOf(stable) \in stable
        BY ZenonT(60), <1>4, <1>8, LowestIs
    <2> QED
        BY ZenonT(60), <1>4, <1>5, <1>8, <2>1 DEF NoPolicy
<1> QED
    BY ZenonT(60), <1>6, <1>7, <1>8

KeepsStableStep ==
    \A a \in Admins :
        MarkRow(a) /\ activation[a].status = "CANARY" /\ Resolved(FALSE) \in Versions
            /\ activation[a].version # Resolved(FALSE)
                => Resolved(FALSE)' = Resolved(FALSE)

\* A canary retires canaries only, so the stable version outside its share is the one before.
LEMMA KeepsStable ==
    ASSUME GovernInv
    PROVE  KeepsStableStep
<1> SUFFICES ASSUME NEW a \in Admins, MarkRow(a), activation[a].status = "CANARY",
                    Resolved(FALSE) \in Versions, activation[a].version # Resolved(FALSE)
             PROVE  Resolved(FALSE)' = Resolved(FALSE)
    BY Zenon DEF KeepsStableStep
<1>1. PICK t : t = activation[a]
    BY Zenon
<1>2. /\ t # None /\ t.status = "CANARY"
      /\ bundles' = [v \in DOMAIN bundles |-> IF v = t.version THEN t.status
                                              ELSE IF v \in t.retired THEN "RETIRED" ELSE bundles[v]]
    BY Zenon, <1>1 DEF MarkRow
<1>3. \A v \in t.retired : v \in DOMAIN bundles /\ bundles[v] = "CANARY"
    BY ZenonT(60), <1>1, <1>2 DEF GovernInv, LockedOK, Retirable
<1>4. PICK stable : stable = {v \in DOMAIN bundles : bundles[v] = "ACTIVE"}
    BY Zenon
<1>5. PICK after : after = {v \in DOMAIN bundles' : bundles'[v] = "ACTIVE"}
    BY Zenon
<1>6. after = stable \ {t.version}
    <2>1. \A v \in DOMAIN bundles : bundles'[v] = "ACTIVE" <=> bundles[v] = "ACTIVE" /\ v # t.version
        BY <1>2, <1>3
    <2>2. DOMAIN bundles' = DOMAIN bundles
        BY ZenonT(60), <1>2
    <2> QED
        BY ZenonT(60), <1>4, <1>5, <2>1, <2>2
<1>7. stable \subseteq Nat
    BY <1>4, GovernTypes
<1>8. stable # {} /\ Resolved(FALSE) = LowestOf(stable)
    <2>1. NoPolicy \notin Versions /\ Unavailable \notin Versions
        BY PublishedAssumption DEF NoPolicy, Unavailable, Versions
    <2> QED
        BY ZenonT(60), <1>4, <2>1 DEF Resolved, WithStatus
<1>9. PICK low \in Nat : low = LowestOf(stable) /\ low \in stable /\ \A w \in stable : low <= w
    BY ZenonT(60), <1>7, <1>8, LowestIs
<1>10. low \in after /\ \A w \in after : low <= w
    BY ZenonT(60), <1>1, <1>6, <1>8, <1>9
<1>11. LowestOf(after) \in after /\ LowestOf(after) <= low
    BY ZenonT(60), <1>6, <1>7, <1>10, LowestIs
<1>12. LowestOf(after) = low
    <2>1. LowestOf(after) \in Nat /\ low <= LowestOf(after)
        BY ZenonT(60), <1>6, <1>7, <1>10, <1>11
    <2> QED
        BY <1>11, <2>1
<1>13. Resolved(FALSE)' = LowestOf(after)
    BY ZenonT(60), <1>5, <1>10 DEF Resolved, WithStatus
<1> QED
    BY ZenonT(60), <1>8, <1>9, <1>12, <1>13

-----------------------------------------------------------------------------
(* The composition *)

ReleasesInv ==
    /\ about \in {"authoring", "promotion", "governance"}
    /\ AuthorInv /\ GovernInv
    /\ PromotionInv
    /\ about # "promotion" => NotPromoting /\ ~ Production

\* Nothing is deployed, so nothing can be wrong with it.
LEMMA NotPromotingInv ==
    ASSUME NotPromoting', ~ Production', environment' \in {"STAGING", "PRODUCTION"},
           lock' \in Admins \cup {Nobody}, releases' \in Seq(ReleaseRow)
    PROVE  PromotionInv'
<1>1. /\ DOMAIN deployments' = {} /\ DOMAIN timeline' = {} /\ DOMAIN runs' = {}
      /\ deployments' \in Seq(Deployment) /\ timeline' \in Seq(Marks) /\ suites' \in Seq(SuiteBodies)
      /\ runs' \in Seq(Run) /\ Len(deployments') = 0
    BY DEF NotPromoting
<1>2. Len(deployments') <= MaxDeployments
    BY SMTT(40), <1>1, DeploymentAssumption
<1>3. Idle \in Request
    BY DEF Idle, Request
<1>4. request' \in [Admins -> Request] /\ \A a \in Admins : request'[a] = Idle
    BY Zenon, <1>3 DEF NotPromoting
<1>5. TimelineOK'
    BY ZenonT(60), <1>1, <1>4 DEF TimelineOK, Injective, In
<1>6. DeploymentTypeOK'
    BY ZenonT(60), <1>1, <1>2, <1>4, <1>5, TypesFrom
<1>7. PreviousOK' /\ RunsOK' /\ StagingOK' /\ BetweenIn(deployments', timeline')
    BY Zenon, <1>1, <1>4 DEF PreviousOK, RunsOK, StagingOK, BetweenIn, ActiveIn
<1> QED
    BY ZenonT(60), <1>5, <1>6, <1>7 DEF PromotionInv

\* The invariant holds initially ...
LEMMA ReleasesInit ==
    Init => ReleasesInv
<1> SUFFICES ASSUME Init PROVE ReleasesInv
    BY Zenon
<1>1. AuthorInv
    <2>1. application \in [status : {"absent", "live", "deleted"}, version : 1..MaxEdits]
        BY DraftAssumption DEF Init
    <2>2. editor \in [Admins -> Drafts \cup {None}] /\ publisher \in [Admins -> Drafts \cup {None}]
        BY Zenon DEF Init
    <2>3. releases \in Seq(ReleaseRow) /\ SnapshotsAreDrafts
        BY PublishedAssumption DEF Init, SnapshotsAreDrafts
    <2>4. \A a \in Admins : publisher[a] = None
        BY Zenon DEF Init
    <2> QED
        BY ZenonT(60), <2>1, <2>2, <2>3, <2>4 DEF Init, AuthorInv, DraftTypeOK
<1>2. GovernInv
    <2>1. bundles \in Seq({"DRAFT", "ACTIVE", "CANARY", "RETIRED"}) /\ Len(bundles) <= MaxBundles
          /\ DOMAIN bundles = {}
        BY PublishedAssumption DEF Init, BundleInit
    <2>2. /\ drafting \in [Admins -> Versions \cup {None}]
          /\ activation \in [Admins -> Activation \cup {None}]
          /\ rowLock \in [Versions -> Admins \cup {Nobody}]
          /\ \A a \in Admins : activation[a] = None
        BY Zenon DEF Init, BundleInit
    <2> QED
        BY ZenonT(60), <2>1, <2>2 DEF GovernInv, BundleTypeOK, LockedOK
<1>3. PromotionInv
    <2>1. /\ DOMAIN deployments = {} /\ DOMAIN timeline = {} /\ DOMAIN runs = {}
          /\ deployments \in Seq(Deployment) /\ timeline \in Seq(Marks) /\ suites \in Seq(SuiteBodies)
          /\ timeline \in Seq(({"request"} \X Admins) \cup ({"deployment"} \X Nat))
          /\ runs \in Seq(Run) /\ Len(deployments) = 0
        BY DEF Init
    <2>2. Len(deployments) <= MaxDeployments
        BY <2>1, DeploymentAssumption
    <2>3. Idle \in Request
        BY DEF Idle, Request
    <2>4. request \in [Admins -> Request] /\ \A a \in Admins : request[a] = Idle
        BY Zenon, <2>3 DEF Init
    <2>5. environment \in {"STAGING", "PRODUCTION"}
        BY DEF Init
    <2>6. TimelineOK
        BY Zenon, <2>1, <2>4 DEF TimelineOK, Injective, In
    <2>7. DeploymentTypeOK
        BY ZenonT(60), <2>1, <2>2, <2>4, <2>5 DEF DeploymentTypeOK
    <2>8. PreviousOK /\ RunsOK /\ StagingOK /\ ProductionOK /\ BetweenIn(deployments, timeline)
        BY Zenon, <2>1, <2>4 DEF PreviousOK, RunsOK, StagingOK, ProductionOK, BetweenIn, ActiveIn
    <2>9. PromotedOnEvidence
        BY Zenon, <2>1 DEF PromotedOnEvidence
    <2>10. lock \in Admins \cup {Nobody} /\ releases \in Seq(ReleaseRow)
        BY Zenon, <1>1 DEF AuthorInv, DraftTypeOK
    <2> QED
        BY ZenonT(60), <2>6, <2>7, <2>8, <2>9, <2>10 DEF PromotionInv
<1>4. about # "promotion" => NotPromoting /\ ~ Production
    BY DEF Init, NotPromoting, Production
<1> QED
    BY ZenonT(60), <1>1, <1>2, <1>3, <1>4 DEF Init, ReleasesInv

\* ... and every step keeps it.
LEMMA ReleasesNext ==
    ReleasesInv /\ [Next]_vars => /\ ReleasesInv' /\ [MovesStep]_deploymentVars
                                  /\ [StandsStep]_deploymentVars /\ [KeepsStableStep]_bundleVars
<1> SUFFICES ASSUME ReleasesInv, [Next]_vars
             PROVE  /\ ReleasesInv' /\ [MovesStep]_deploymentVars
                    /\ [StandsStep]_deploymentVars /\ [KeepsStableStep]_bundleVars
    BY Zenon
<1>1. KeepsStableStep
    BY Zenon, KeepsStable DEF ReleasesInv
<1>2. CASE Author
    <2>1. /\ about = "authoring" /\ about' = about /\ AuthoringNext
          /\ UNCHANGED <<environment, deployments, timeline, request, suites, runs>>
          /\ UNCHANGED <<bundles, drafting, activation, rowLock>>
        BY Zenon, <1>2 DEF Author, promoted, governed
    <2>2. AuthorInv'
        BY Zenon, <2>1, AuthoringStep DEF ReleasesInv
    <2>3. GovernInv'
        BY Zenon, <2>1 DEF ReleasesInv, GovernInv, BundleTypeOK, LockedOK, SomeGoverns
    <2>4. NotPromoting' /\ ~ Production' /\ environment' \in {"STAGING", "PRODUCTION"}
        <3>1. NotPromoting /\ ~ Production /\ environment \in {"STAGING", "PRODUCTION"}
            BY <2>1, Types DEF ReleasesInv
        <3> QED
            BY ZenonT(60), <2>1, <3>1 DEF NotPromoting, Production
    <2>5. PromotionInv'
        BY ZenonT(60), <2>2, <2>4, NotPromotingInv DEF AuthorInv, DraftTypeOK
    <2>6. MovesStep /\ StandsStep
        BY Zenon, <2>1, QuietStep
    <2> QED
        BY ZenonT(60), <1>1, <2>1, <2>2, <2>3, <2>4, <2>5, <2>6 DEF ReleasesInv
<1>3. CASE Promote
    <2>1. /\ about = "promotion" /\ about' = about /\ PromotionNext
          /\ UNCHANGED <<application, draft, editor, publisher>>
          /\ UNCHANGED <<bundles, drafting, activation, rowLock>>
        BY Zenon, <1>3 DEF Promote, authored, governed
    <2>2. PromotionInv' /\ MovesStep /\ StandsStep /\ releases' = releases
        BY Zenon, <2>1, PromotionStep DEF ReleasesInv
    <2>3. GovernInv'
        BY Zenon, <2>1 DEF ReleasesInv, GovernInv, BundleTypeOK, LockedOK, SomeGoverns
    <2>4. AuthorInv'
        BY Zenon, <2>1, <2>2 DEF ReleasesInv, PromotionInv, AuthorInv, DraftTypeOK, SnapshotsAreDrafts
    <2> QED
        BY ZenonT(60), <1>1, <2>1, <2>2, <2>3, <2>4 DEF ReleasesInv
<1>4. CASE Govern
    <2>1. /\ about = "governance" /\ about' = about /\ GovernanceNext
          /\ UNCHANGED <<application, draft, editor, publisher>> /\ releases' = releases /\ lock' = lock
          /\ UNCHANGED <<environment, deployments, timeline, request, suites, runs>>
        BY Zenon, <1>4 DEF Govern, authored, promoted
    <2>2. GovernInv'
        BY Zenon, <2>1, GovernanceStep DEF ReleasesInv
    <2>3. AuthorInv'
        BY Zenon, <2>1 DEF ReleasesInv, AuthorInv, DraftTypeOK, SnapshotsAreDrafts
    <2>4. NotPromoting' /\ ~ Production' /\ environment' \in {"STAGING", "PRODUCTION"}
        <3>1. NotPromoting /\ ~ Production /\ environment \in {"STAGING", "PRODUCTION"}
            BY SMTT(40), <2>1, Types DEF ReleasesInv
        <3> QED
            BY ZenonT(60), <2>1, <3>1 DEF NotPromoting, Production
    <2>5. PromotionInv'
        BY Zenon, <2>3, <2>4, NotPromotingInv DEF AuthorInv, DraftTypeOK
    <2>6. MovesStep /\ StandsStep
        BY Zenon, <2>1, QuietStep
    <2> QED
        BY ZenonT(60), <1>1, <2>1, <2>2, <2>3, <2>4, <2>5, <2>6 DEF ReleasesInv
<1>5. CASE UNCHANGED vars
    <2>1. /\ about' = about /\ UNCHANGED <<application, draft, editor, publisher, releases, lock>>
          /\ UNCHANGED <<bundles, drafting, activation, rowLock>>
          /\ UNCHANGED <<environment, deployments, timeline, request, suites, runs>>
        BY Zenon, <1>5 DEF vars
    <2>2. GovernInv'
        BY Zenon, <2>1 DEF ReleasesInv, GovernInv, BundleTypeOK, LockedOK, SomeGoverns
    <2>3. AuthorInv'
        BY Zenon, <2>1 DEF ReleasesInv, AuthorInv, DraftTypeOK, SnapshotsAreDrafts
    <2>4. PromotionInv'
        <3>1. \A r : GateOpen(r) => GateOpen(r)'
            BY Zenon, <2>1 DEF GateOpen, ProductionRuns
        <3>2. RunsOK' /\ PromotionInv
            BY Zenon, <2>1, SoundIs DEF ReleasesInv, PromotionInv, RunsOK
        <3> QED
            BY ZenonT(60), <2>1, <3>1, <3>2, Types, RunsStep
    <2>5. MovesStep /\ StandsStep
        BY Zenon, <2>1, QuietStep
    <2>6. about' # "promotion" => NotPromoting' /\ ~ Production'
        BY Zenon, <2>1 DEF ReleasesInv, NotPromoting, Production
    <2> QED
        BY ZenonT(60), <1>1, <2>1, <2>2, <2>3, <2>4, <2>5, <2>6 DEF ReleasesInv
<1> QED
    BY ZenonT(60), <1>2, <1>3, <1>4, <1>5 DEF Next

\* The invariant of authoring, promotion and governance.
THEOREM ReleasesInvariant ==
    Spec => []ReleasesInv
<1>1. ReleasesInv /\ [Next]_vars => ReleasesInv'
    BY Zenon, ReleasesNext
<1> QED
    BY ReleasesInit, <1>1, PTL DEF Spec

\* Drafts, releases, deployments, evaluation runs and policy bundles have their types.
THEOREM ReleasesTypeCorrect ==
    Spec => []TypeOK
<1>1. ReleasesInv => TypeOK
    BY Zenon DEF ReleasesInv, AuthorInv, PromotionInv, GovernInv, TypeOK
<1> QED
    BY ReleasesInvariant, <1>1, PTL

\* publish_release: a release is one valid draft that really was there, for every number of
\* editors and publications that overlap.
THEOREM ReleasesAreDrafts ==
    Spec => []SnapshotsAreDrafts
<1>1. ReleasesInv => SnapshotsAreDrafts
    BY ZenonT(60) DEF ReleasesInv, AuthorInv
<1> QED
    BY ReleasesInvariant, <1>1, PTL

\* approve_deployment: production routes only by deployments that a second person approved and
\* that have a sound production run.
THEOREM ProductionEvidenced ==
    Spec => []PromotedOnEvidence
<1>1. ReleasesInv => PromotedOnEvidence
    BY ZenonT(60) DEF ReleasesInv, PromotionInv, PromotedOnEvidence
<1> QED
    BY ReleasesInvariant, <1>1, PTL

\* approve_deployment and create_deployment: no update of the pointer is lost.
THEOREM PointerUpdatesKept ==
    Spec => []NothingActiveBetween
<1>1. ReleasesInv => NothingActiveBetween
    <2> SUFFICES ASSUME PromotionInv, NEW d \in DOMAIN deployments, NEW e \in DOMAIN deployments,
                        {d, e} \subseteq Active, At(Activated(e)) < At(Activated(d))
                 PROVE  /\ deployments[d].previous # 0
                        /\ At(Activated(e)) <= At(Activated(deployments[d].previous))
        BY Zenon DEF ReleasesInv, NothingActiveBetween
    <2>1. timeline \in Seq(Marks) /\ Injective(timeline) /\ BetweenIn(deployments, timeline)
        BY Zenon DEF PromotionInv, TimelineOK
    <2>2. d \in ActiveIn(deployments) /\ e \in ActiveIn(deployments)
        BY Zenon, PointerIs
    <2>3. In(timeline, Activated(d)) /\ In(timeline, Activated(e))
        BY Zenon, <2>2, PointerOK
    <2>4. PICK i \in DOMAIN timeline : timeline[i] = Activated(e) /\ At(Activated(e)) = i
        BY ZenonT(60), <2>1, <2>3, PlaceIs DEF In, At, Place
    <2>5. PICK j \in DOMAIN timeline : timeline[j] = Activated(d) /\ At(Activated(d)) = j
        BY ZenonT(60), <2>1, <2>3, PlaceIs DEF In, At, Place
    <2>6. Before(timeline, Activated(e), Activated(d))
        BY Zenon, <2>4, <2>5 DEF Before
    <2>7. PICK q : q = deployments[d].previous
        BY Zenon
    <2>8. q # 0 /\ (e = q \/ Before(timeline, Activated(e), Activated(q)))
        BY ZenonT(60), <2>1, <2>2, <2>6, <2>7 DEF BetweenIn
    <2>9. CASE e = q
        <3>1. i <= i
            BY <2>1, <2>4
        <3> QED
            BY ZenonT(60), <2>4, <2>7, <2>8, <2>9, <3>1
    <2>10. CASE Before(timeline, Activated(e), Activated(q))
        <3>1. PICK k, l \in DOMAIN timeline :
                k < l /\ timeline[k] = Activated(e) /\ timeline[l] = Activated(q)
            BY Zenon, <2>10 DEF Before
        <3>2. k = i /\ At(Activated(q)) = l
            BY ZenonT(60), <2>1, <2>4, <3>1, PlaceIs DEF Injective, At, Place
        <3>3. i <= l
            BY SMTT(40), <2>1, <3>1, <3>2
        <3> QED
            BY ZenonT(60), <2>4, <2>7, <2>8, <3>2, <3>3
    <2> QED
        BY ZenonT(60), <2>8, <2>9, <2>10
<1> QED
    BY ReleasesInvariant, <1>1, PTL

\* policy_bundles.py: once a version was activated, no decision is taken without a policy.
THEOREM AlwaysGoverned ==
    Spec => []StaysGoverned
<1>1. ReleasesInv => StaysGoverned
    BY Zenon, Governed DEF ReleasesInv
<1> QED
    BY ReleasesInvariant, <1>1, PTL

\* evals.py: the evidence an approval has asked for still stands when it commits.
THEOREM EvidenceStandsAtCommit ==
    Spec => EvidenceStands
<1>1. ReleasesInv /\ [Next]_vars => [StandsStep]_deploymentVars
    BY Zenon, ReleasesNext
<1> QED
    BY ReleasesInvariant, <1>1, PTL DEF Spec, EvidenceStands, StandsStep

\* agents.py: a deployment that is activated is the pointer, whoever began or committed before.
THEOREM ActivatedIsPointer ==
    Spec => ActivationMovesPointer
<1>1. ReleasesInv /\ [Next]_vars => [MovesStep]_deploymentVars
    BY Zenon, ReleasesNext
<1> QED
    BY ReleasesInvariant, <1>1, PTL DEF Spec, ActivationMovesPointer, MovesStep

\* policy_bundles.py, activate: a canary changes nothing outside its share.
THEOREM CanaryCoexists ==
    Spec => CanaryKeepsStable
<1>1. ReleasesInv /\ [Next]_vars => [KeepsStableStep]_bundleVars
    BY Zenon, ReleasesNext
<1> QED
    BY ReleasesInvariant, <1>1, PTL DEF Spec, CanaryKeepsStable, KeepsStableStep

=============================================================================
