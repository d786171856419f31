---------------------------- MODULE DesktopsProofs ----------------------------
(***************************************************************************)
(* The windowing system, for any number of windows, desktops and screen    *)
(* cells: the list of windows is exact, the marked window is the active    *)
(* one and the one a click hits, culling changes nothing that is seen, and *)
(* the current desktop is an active one.                                   *)
(***************************************************************************)
EXTENDS MCDesktops, WellFoundedInduction, FiniteSetTheorems, TLAPS

-----------------------------------------------------------------------------
(* Numbers.                                                                *)

\* A set of natural numbers that is not empty has a least element.
LEMMA Least ==
  ASSUME NEW S \in SUBSET Nat, S # {}
  PROVE  \E k \in S : \A j \in S : k <= j
<1>1. PICK k \in S : \A j \in S : ~(<<j, k>> \in OpToRel(<, Nat))
  BY NatLessThanWellFounded, WFMin
<1>2. \A j \in S : k <= j
  <2> TAKE j \in S
  <2>1. j \in Nat /\ k \in Nat /\ <<j, k>> \in Nat \X Nat
    OBVIOUS
  <2>2. ~(j < k)
    BY <1>1, <2>1 DEF OpToRel
  <2> QED BY <2>1, <2>2
<1> QED BY <1>2

\* What the constants are.
LEMMA Numbers ==
  /\ MaxIds \in Nat \ {0} /\ MaxWindows \in Nat \ {0} /\ Desktops \in Nat \ {0}
  /\ MaxMoves \in Nat /\ AtBoot \in 1 .. Desktops
  /\ 1 \in Ids /\ WM \in Cells /\ WM \notin Ids /\ NULL \notin Ids /\ NULL \notin Cells
  /\ Ids \in SUBSET Cells /\ Ids \in SUBSET Nat /\ Cells \in SUBSET Int
<1>1. /\ MaxIds \in Nat \ {0} /\ MaxWindows \in Nat \ {0} /\ Desktops \in Nat
      /\ MaxMoves \in Nat /\ AtBoot \in 1 .. Desktops
  BY WMAssumption, VDAssumption, BootAssumption
<1>2. Desktops # 0
  BY <1>1
<1> QED BY <1>1, <1>2 DEF Ids, Cells, WM, NULL

\* The heads of the desktops' lists are cells, each its own.
LEMMA Heads ==
  /\ \A i \in Slots : VD(i) \in Cells /\ VD(i) # WM /\ VD(i) \notin Ids
  /\ \A i, j \in Slots : VD(i) = VD(j) => i = j
<1>1. Desktops \in Nat \ {0} /\ MaxIds \in Nat
  BY Numbers
<1>2. \A i \in Slots : i \in Int /\ 0 <= i /\ i <= Desktops - 1
  BY <1>1 DEF Slots
<1> QED BY <1>1, <1>2 DEF VD, WM, Cells, Ids

-----------------------------------------------------------------------------
(* Lists: the cells a loop visits from the head c are p[0], p[1], ... p[N].  *)

Links == [Cells -> Ids \cup {NULL}]

Chain(n, c, p, N) ==
  /\ N \in Nat /\ p \in [0 .. N -> Cells] /\ p[0] = c
  /\ \A i \in 1 .. N : p[i] \in Ids
  /\ \A i, j \in 0 .. N : p[i] = p[j] => i = j
  /\ \A i \in 0 .. N : i < N => n[p[i]] = p[i + 1]
  /\ n[p[N]] = NULL

\* A chain has no more windows than there are.
LEMMA ChainShort ==
  ASSUME NEW n, NEW c, NEW p, NEW N, Chain(n, c, p, N)
  PROVE  N \in 0 .. MaxIds
<1>1. N \in Nat /\ MaxIds \in Nat
  BY Numbers DEF Chain
<1>2. IsFiniteSet(1 .. N) /\ Cardinality(1 .. N) = N /\ IsFiniteSet(1 .. MaxIds) /\ Cardinality(1 .. MaxIds) = MaxIds
  BY <1>1, FS_Interval
<1>3. PICK f : f = [i \in 1 .. N |-> p[i]]
  OBVIOUS
<1>4. f \in Injection(1 .. N, 1 .. MaxIds)
  <2>1. \A i \in 1 .. N : i \in 0 .. N
    BY <1>1
  <2> QED BY <1>3, <2>1 DEF Chain, Ids, Injection, IsInjective
<1>5. Cardinality(1 .. N) <= Cardinality(1 .. MaxIds)
  BY <1>2, <1>4, FS_Injection
<1> QED BY <1>1, <1>2, <1>5

\* What a walk is: the head, and then from cell to cell until there is none.
WalkIs(n, c, at) ==
  at = [k \in 0 .. MaxIds + 1 |->
          IF k = 0 THEN c ELSE IF at[k - 1] = NULL THEN NULL ELSE n[at[k - 1]]]

\* Walk is the function its recursion chooses.
LEMMA WalkChosen == \A n, c : Walk(n, c) = CHOOSE at : WalkIs(n, c, at)
  BY Zenon DEF Walk, WalkIs

\* The walk of a list visits its chain.
LEMMA ChainWalk ==
  ASSUME NEW n, NEW c, NEW p, NEW N, Chain(n, c, p, N)
  PROVE  \A k \in 0 .. MaxIds + 1 : Walk(n, c)[k] = IF k <= N THEN p[k] ELSE NULL
<1>0. MaxIds \in Nat /\ N \in 0 .. MaxIds /\ N \in Nat
  BY Numbers, ChainShort
<1>1. PICK t : t = [k \in 0 .. MaxIds + 1 |-> IF k <= N THEN p[k] ELSE NULL]
  OBVIOUS
<1>2. \A k \in 0 .. N : p[k] # NULL /\ p[k] \in Cells
  BY Numbers DEF Chain
<1>3. WalkIs(n, c, t)
  <2>1. ASSUME NEW k \in 0 .. MaxIds + 1
        PROVE  t[k] = IF k = 0 THEN c ELSE IF t[k - 1] = NULL THEN NULL ELSE n[t[k - 1]]
    <3>1. CASE k = 0
      BY <1>0, <1>1, <3>1 DEF Chain
    <3>2. CASE k # 0 /\ k <= N
      <4>1. k - 1 \in 0 .. N /\ k - 1 < N /\ k - 1 \in 0 .. MaxIds + 1 /\ (k - 1) + 1 = k
        BY <1>0, <3>2
      <4>2. t[k - 1] = p[k - 1] /\ t[k] = p[k] /\ p[k - 1] # NULL
        BY <1>0, <1>1, <1>2, <3>2, <4>1
      <4>3. n[p[k - 1]] = p[k]
        BY <4>1 DEF Chain
      <4> QED BY <3>2, <4>2, <4>3
    <3>3. CASE k = N + 1
      <4>1. k - 1 = N /\ k - 1 \in 0 .. MaxIds + 1 /\ N \in 0 .. N /\ k # 0
        BY <1>0, <3>3
      <4>2. t[k - 1] = p[N] /\ t[k] = NULL /\ p[N] # NULL
        BY <1>0, <1>1, <1>2, <3>3, <4>1
      <4>3. n[p[N]] = NULL
        BY DEF Chain
      <4> QED BY <4>1, <4>2, <4>3
    <3>4. CASE k > N + 1
      <4>1. k - 1 \in 0 .. MaxIds + 1 /\ ~(k - 1 <= N) /\ ~(k <= N) /\ k # 0
        BY <1>0, <3>4
      <4> QED BY <1>1, <4>1
    <3> QED BY <1>0, <3>1, <3>2, <3>3, <3>4
  <2>2. t = [k \in 0 .. MaxIds + 1 |-> t[k]]
    BY <1>1
  <2> QED BY <2>1, <2>2 DEF WalkIs
<1>4. PICK at : at = Walk(n, c)
  OBVIOUS
<1>5. WalkIs(n, c, at)
  BY <1>3, <1>4, WalkChosen, Zenon
<1>6. ASSUME NEW k \in 0 .. MaxIds + 1, at[k] # t[k] PROVE FALSE
  <2> DEFINE S == {j \in 0 .. MaxIds + 1 : at[j] # t[j]}
  <2>1. S \in SUBSET Nat /\ S # {}
    BY <1>0, <1>6
  <2>2. PICK m \in S : \A j \in S : m <= j
    BY <2>1, Least
  <2>3. m \in 0 .. MaxIds + 1 /\ at[m] # t[m]
    BY <2>2
  <2>4. at[m] = IF m = 0 THEN c ELSE IF at[m - 1] = NULL THEN NULL ELSE n[at[m - 1]]
    BY <1>5, <2>3 DEF WalkIs
  <2>5. t[m] = IF m = 0 THEN c ELSE IF t[m - 1] = NULL THEN NULL ELSE n[t[m - 1]]
    BY <1>3, <2>3 DEF WalkIs
  <2>6. m # 0
    BY <2>3, <2>4, <2>5
  <2>7. m - 1 \in 0 .. MaxIds + 1 /\ ~(m <= m - 1)
    BY <1>0, <2>3, <2>6
  <2>8. at[m - 1] = t[m - 1]
    BY <2>2, <2>7
  <2> QED BY <2>3, <2>4, <2>5, <2>8
<1> QED BY <1>1, <1>4, <1>6

\* So it ends, and its windows are those of the chain.
LEMMA ChainEnds ==
  ASSUME NEW n, NEW c, NEW p, NEW N, Chain(n, c, p, N)
  PROVE  Ends(n, c) /\ Members(n, c) = {p[i] : i \in 1 .. N}
<1>0. MaxIds \in Nat /\ N \in 0 .. MaxIds /\ N \in Nat
  BY Numbers, ChainShort
<1>1. \A k \in 0 .. MaxIds + 1 : Walk(n, c)[k] = IF k <= N THEN p[k] ELSE NULL
  BY ChainWalk
<1>2. Ends(n, c)
  <2>1. MaxIds + 1 \in 0 .. MaxIds + 1 /\ ~(MaxIds + 1 <= N)
    BY <1>0
  <2> QED BY <1>1, <2>1 DEF Ends
<1>3. \A i \in 1 .. N : p[i] # NULL
  BY Numbers DEF Chain
<1>4. \A e : e \in Members(n, c) <=> e # NULL /\ \E k \in 1 .. MaxIds + 1 : Walk(n, c)[k] = e
  BY DEF Members
<1>5. \A e \in Members(n, c) : \E i \in 1 .. N : p[i] = e
  <2> TAKE e \in Members(n, c)
  <2>1. PICK k \in 1 .. MaxIds + 1 : Walk(n, c)[k] = e /\ e # NULL
    BY <1>4
  <2>2. k \in 0 .. MaxIds + 1
    BY <1>0
  <2>3. k <= N /\ e = p[k]
    BY <1>1, <2>1, <2>2
  <2> QED BY <1>0, <2>1, <2>3
<1>6. \A i \in 1 .. N : p[i] \in Members(n, c)
  <2> TAKE i \in 1 .. N
  <2>1. i \in 0 .. MaxIds + 1 /\ i \in 1 .. MaxIds + 1 /\ i <= N
    BY <1>0
  <2> QED BY <1>1, <1>3, <1>4, <2>1
<1> QED BY <1>2, <1>5, <1>6

\* Where the loop of wm_unlink finds w.
FoundAt(n, c, w, k) ==
  /\ Walk(n, c)[k] # NULL /\ n[Walk(n, c)[k]] = w
  /\ \A j \in 0 .. k - 1 : n[Walk(n, c)[j]] # w

\* Unlinked with its search for the predecessor written out.
LEMMA UnlinkedIs ==
  \A n, c, w :
    Unlinked(n, c, w) =
      IF \E k \in 0 .. MaxIds : FoundAt(n, c, w, k)
        THEN [n EXCEPT ![Walk(n, c)[CHOOSE k \in 0 .. MaxIds : FoundAt(n, c, w, k)]] = n[w]]
        ELSE n
  BY Zenon DEF Unlinked, StopsAt, FoundAt

Without(p, N, k) == [i \in 0 .. N - 1 |-> IF i < k THEN p[i] ELSE p[i + 1]]

IsCut(n, c, p, N, k) ==
  /\ Chain(Unlinked(n, c, p[k]), c, Without(p, N, k), N - 1)
  /\ {Without(p, N, k)[i] : i \in 1 .. N - 1} = {p[i] : i \in 1 .. N} \ {p[k]}
  /\ Unlinked(n, c, p[k]) \in Links
  /\ \A d \in Cells : (\A i \in 0 .. N : p[i] # d) => Unlinked(n, c, p[k])[d] = n[d]

\* Unlinking the k-th window takes it out of the chain and leaves every other cell.
LEMMA ChainUnlinked ==
  ASSUME NEW n \in Links, NEW c, NEW p, NEW N, Chain(n, c, p, N), NEW k \in 1 .. N
  PROVE  IsCut(n, c, p, N, k)
<1>0. MaxIds \in Nat /\ N \in 0 .. MaxIds /\ N \in Nat /\ k \in Nat
  BY Numbers, ChainShort
<1>1. \A j \in 0 .. MaxIds + 1 : Walk(n, c)[j] = IF j <= N THEN p[j] ELSE NULL
  BY ChainWalk
<1>2. /\ \A j \in 0 .. N : /\ p[j] \in Cells /\ p[j] # NULL /\ (j < N => n[p[j]] = p[j + 1])
                           /\ (j >= 1 => p[j] \in Ids)
      /\ n[p[N]] = NULL /\ p[0] = c /\ \A i, j \in 0 .. N : p[i] = p[j] => i = j
  BY <1>0, Numbers DEF Chain
<1>3. k - 1 \in 0 .. MaxIds /\ k - 1 \in 0 .. N /\ k \in 0 .. N /\ k - 1 < N /\ (k - 1) + 1 = k
  BY <1>0
<1>4. \A j \in 0 .. N : n[p[j]] = p[k] => j = k - 1
  <2> TAKE j \in 0 .. N
  <2>1. j = N \/ (j < N /\ j + 1 \in 0 .. N)
    BY <1>0
  <2>2. CASE j = N
    BY <1>2, <1>3, <2>2
  <2>3. CASE j < N /\ j + 1 \in 0 .. N
    <3>1. n[p[j]] = p[k] => j + 1 = k
      BY <1>2, <1>3, <2>3
    <3> QED BY <1>0, <3>1
  <2> QED BY <2>1, <2>2, <2>3
<1>5. FoundAt(n, c, p[k], k - 1)
  <2>1. Walk(n, c)[k - 1] = p[k - 1]
    BY <1>0, <1>1, <1>3
  <2>2. \A j \in 0 .. (k - 1) - 1 : n[Walk(n, c)[j]] # p[k]
    <3> TAKE j \in 0 .. (k - 1) - 1
    <3>1. j \in 0 .. N /\ j \in 0 .. MaxIds + 1 /\ j <= N /\ j # k - 1
      BY <1>0
    <3> QED BY <1>1, <1>4, <3>1
  <2> QED BY <1>2, <1>3, <2>1, <2>2 DEF FoundAt
<1>6. \A j \in 0 .. MaxIds : FoundAt(n, c, p[k], j) => j = k - 1
  <2> SUFFICES ASSUME NEW j \in 0 .. MaxIds, FoundAt(n, c, p[k], j) PROVE j = k - 1
    OBVIOUS
  <2>1. Walk(n, c)[j] # NULL /\ n[Walk(n, c)[j]] = p[k] /\ j \in 0 .. MaxIds + 1
    BY <1>0 DEF FoundAt
  <2>2. j \in 0 .. N /\ Walk(n, c)[j] = p[j]
    BY <1>0, <1>1, <2>1
  <2> QED BY <1>4, <2>1, <2>2
<1>7. PICK m : m = Unlinked(n, c, p[k])
  OBVIOUS
<1>8. m = [n EXCEPT ![p[k - 1]] = n[p[k]]]
  <2>1. PICK x : x = CHOOSE j \in 0 .. MaxIds : FoundAt(n, c, p[k], j)
    OBVIOUS
  <2>2. x \in 0 .. MaxIds /\ FoundAt(n, c, p[k], x)
    BY <1>3, <1>5, <2>1, Zenon
  <2>3. x = k - 1
    BY <1>6, <2>2
  <2>4. Walk(n, c)[x] = p[k - 1]
    BY <1>0, <1>1, <1>3, <2>3
  <2>5. Unlinked(n, c, p[k]) = [n EXCEPT ![Walk(n, c)[x]] = n[p[k]]]
    BY <1>3, <1>5, <2>1, UnlinkedIs, Zenon
  <2> QED BY <1>7, <2>4, <2>5, Zenon
<1>9. m \in Links /\ m[p[k - 1]] = n[p[k]]
      /\ \A d \in Cells : d # p[k - 1] => m[d] = n[d]
  <2>1. n[p[k]] \in Ids \cup {NULL}
    BY <1>2, <1>3 DEF Links
  <2>2. PICK a \in Cells : a = p[k - 1]
    BY <1>2, <1>3
  <2>3. PICK b \in Ids \cup {NULL} : b = n[p[k]]
    BY <2>1
  <2>4. m = [n EXCEPT ![a] = b]
    BY <1>8, <2>2, <2>3
  <2> QED BY <2>2, <2>3, <2>4 DEF Links
<1>10. \A j \in 0 .. N : j # k - 1 => m[p[j]] = n[p[j]]
  BY <1>2, <1>3, <1>9
<1>11. PICK q : q = Without(p, N, k)
  OBVIOUS
<1>12. \A i \in 0 .. N - 1 : /\ i < k => q[i] = p[i]
                             /\ ~(i < k) => q[i] = p[i + 1]
  BY <1>11 DEF Without
<1>13. Chain(m, c, q, N - 1)
  <2>1. N - 1 \in Nat /\ 0 \in 0 .. N - 1 /\ 0 < k
    BY <1>0
  <2>2. \A i \in 0 .. N - 1 : i \in 0 .. N /\ i + 1 \in 0 .. N
    BY <1>0
  <2>3. q \in [0 .. N - 1 -> Cells]
    BY <1>2, <1>11, <2>2 DEF Without
  <2>4. q[0] = c
    BY <1>2, <1>12, <2>1
  <2>5. \A i \in 1 .. N - 1 : q[i] \in Ids
    <3> TAKE i \in 1 .. N - 1
    <3>1. i \in 0 .. N - 1 /\ i >= 1 /\ i + 1 >= 1
      BY <1>0
    <3> QED BY <1>2, <1>12, <2>2, <3>1
  <2>6. \A i, j \in 0 .. N - 1 : q[i] = q[j] => i = j
    <3> SUFFICES ASSUME NEW i \in 0 .. N - 1, NEW j \in 0 .. N - 1, q[i] = q[j] PROVE i = j
      OBVIOUS
    <3>1. i \in 0 .. N /\ j \in 0 .. N /\ i + 1 \in 0 .. N /\ j + 1 \in 0 .. N /\ i \in Int /\ j \in Int
      BY <1>0
    <3>2. CASE i < k /\ j < k
      BY <1>2, <1>12, <3>1, <3>2
    <3>3. CASE i < k /\ ~(j < k)
      <4>1. p[i] = p[j + 1]
        BY <1>12, <3>3
      <4>2. i = j + 1
        BY <1>2, <3>1, <4>1
      <4> QED BY <1>0, <3>1, <3>3, <4>2
    <3>4. CASE ~(i < k) /\ j < k
      <4>1. p[j] = p[i + 1]
        BY <1>12, <3>4
      <4>2. j = i + 1
        BY <1>2, <3>1, <4>1
      <4> QED BY <1>0, <3>1, <3>4, <4>2
    <3>5. CASE ~(i < k) /\ ~(j < k)
      <4>1. p[i + 1] = p[j + 1]
        BY <1>12, <3>5
      <4>2. i + 1 = j + 1
        BY <1>2, <3>1, <4>1
      <4> QED BY <3>1, <4>2
    <3> QED BY <3>2, <3>3, <3>4, <3>5
  <2>7. \A i \in 0 .. N - 1 : i < N - 1 => m[q[i]] = q[i + 1]
    <3> SUFFICES ASSUME NEW i \in 0 .. N - 1, i < N - 1 PROVE m[q[i]] = q[i + 1]
      OBVIOUS
    <3>1. /\ i \in 0 .. N /\ i + 1 \in 0 .. N /\ i + 1 \in 0 .. N - 1 /\ i < N /\ i + 1 < N
          /\ (i + 1) + 1 \in 0 .. N /\ i \in Int
      BY <1>0
    <3>2. CASE i < k - 1
      <4>1. i < k /\ i + 1 < k /\ i # k - 1
        BY <1>0, <3>1, <3>2
      <4> QED BY <1>2, <1>10, <1>12, <3>1, <4>1
    <3>3. CASE i = k - 1
      <4>1. i < k /\ ~(i + 1 < k) /\ k < N
        BY <1>0, <3>1, <3>3
      <4>2. q[i] = p[k - 1] /\ q[i + 1] = p[(i + 1) + 1] /\ (i + 1) + 1 = k + 1
        BY <1>0, <1>12, <3>1, <3>3, <4>1
      <4>3. n[p[k]] = p[k + 1]
        BY <1>2, <1>3, <4>1
      <4> QED BY <1>9, <4>2, <4>3
    <3>4. CASE ~(i < k)
      <4>1. i + 1 # k - 1 /\ ~(i + 1 < k)
        BY <1>0, <3>1, <3>4
      <4>2. q[i] = p[i + 1] /\ q[i + 1] = p[(i + 1) + 1]
        BY <1>12, <3>1, <3>4, <4>1
      <4>3. n[p[i + 1]] = p[(i + 1) + 1]
        BY <1>2, <3>1
      <4>4. m[p[i + 1]] = n[p[i + 1]]
        BY <1>10, <3>1, <4>1
      <4> QED BY <4>2, <4>3, <4>4
    <3> QED BY <1>0, <3>1, <3>2, <3>3, <3>4
  <2>8. m[q[N - 1]] = NULL
    <3>1. N - 1 \in 0 .. N - 1 /\ (N - 1) + 1 = N /\ N \in 0 .. N
      BY <1>0, <2>1
    <3>2. CASE k = N
      <4>1. q[N - 1] = p[k - 1]
        BY <1>0, <1>12, <3>1, <3>2
      <4> QED BY <1>2, <1>9, <3>2, <4>1
    <3>3. CASE k # N
      <4>1. ~(N - 1 < k) /\ N # k - 1
        BY <1>0, <3>3
      <4>2. q[N - 1] = p[N]
        BY <1>12, <3>1, <4>1
      <4> QED BY <1>2, <1>10, <3>1, <4>1, <4>2
    <3> QED BY <3>2, <3>3
  <2> QED BY <2>1, <2>3, <2>4, <2>5, <2>6, <2>7, <2>8 DEF Chain
<1>14. {q[i] : i \in 1 .. N - 1} = {p[i] : i \in 1 .. N} \ {p[k]}
  <2>1. \A i \in 1 .. N - 1 : \E j \in 1 .. N : q[i] = p[j] /\ j # k
    <3> TAKE i \in 1 .. N - 1
    <3>1. i \in 0 .. N - 1 /\ i \in 1 .. N /\ i + 1 \in 1 .. N /\ i \in Int
      BY <1>0
    <3>2. CASE i < k
      <4>1. q[i] = p[i] /\ i # k
        BY <1>0, <1>12, <3>1, <3>2
      <4> QED BY <3>1, <4>1
    <3>3. CASE ~(i < k)
      <4>1. q[i] = p[i + 1] /\ i + 1 # k
        BY <1>0, <1>12, <3>1, <3>3
      <4> QED BY <3>1, <4>1
    <3> QED BY <3>2, <3>3
  <2>2. \A j \in 1 .. N : j # k => \E i \in 1 .. N - 1 : q[i] = p[j]
    <3> SUFFICES ASSUME NEW j \in 1 .. N, j # k PROVE \E i \in 1 .. N - 1 : q[i] = p[j]
      OBVIOUS
    <3>1. CASE j < k
      <4>1. j \in 1 .. N - 1 /\ j \in 0 .. N - 1
        BY <1>0, <3>1
      <4> QED BY <1>12, <3>1, <4>1
    <3>2. CASE ~(j < k)
      <4>1. j - 1 \in 1 .. N - 1 /\ j - 1 \in 0 .. N - 1 /\ ~(j - 1 < k) /\ (j - 1) + 1 = j
        BY <1>0, <3>2
      <4>2. q[j - 1] = p[j]
        BY <1>12, <4>1
      <4> QED BY <4>1, <4>2
    <3> QED BY <3>1, <3>2
  <2>3. \A j \in 1 .. N : j \in 0 .. N
    BY <1>0
  <2>4. \A j \in 1 .. N : p[j] = p[k] => j = k
    BY <1>2, <1>3, <2>3
  <2> QED BY <2>1, <2>2, <2>4
<1>15. \A d \in Cells : (\A i \in 0 .. N : p[i] # d) => m[d] = n[d]
  BY <1>3, <1>9
<1> QED BY <1>7, <1>9, <1>11, <1>13, <1>14, <1>15 DEF IsCut

\* Where the loop of wm_insert_sorted stops.
HigherAt(n, c, zs, w, k) ==
  /\ Walk(n, c)[k] # NULL
  /\ n[Walk(n, c)[k]] = NULL \/ IsHigher(zs, n[Walk(n, c)[k]], w)
  /\ \A j \in 0 .. k - 1 : ~(n[Walk(n, c)[j]] = NULL \/ IsHigher(zs, n[Walk(n, c)[j]], w))

\* Inserted with its search for the place before the first higher window written out.
LEMMA InsertedIs ==
  \A n, c, zs, w :
    Inserted(n, c, zs, w) =
      IF \E k \in 0 .. MaxIds : HigherAt(n, c, zs, w, k)
        THEN [n EXCEPT ![Walk(n, c)[CHOOSE k \in 0 .. MaxIds : HigherAt(n, c, zs, w, k)]] = w,
                       ![w] = n[Walk(n, c)[CHOOSE k \in 0 .. MaxIds : HigherAt(n, c, zs, w, k)]]]
        ELSE n
<1> TAKE n, c, zs, w
<1>1. PICK at : at = Walk(n, c)
  OBVIOUS
<1>2. Inserted(n, c, zs, w) =
      IF \E k \in 0 .. MaxIds : HigherAt(n, c, zs, w, k)
        THEN [n EXCEPT ![at[CHOOSE k \in 0 .. MaxIds : HigherAt(n, c, zs, w, k)]] = w,
                       ![w] = n[at[CHOOSE k \in 0 .. MaxIds : HigherAt(n, c, zs, w, k)]]]
        ELSE n
  BY <1>1, Zenon DEF Inserted, StopsAt, HigherAt
<1> QED BY <1>1, <1>2, Zenon

WithLast(p, N, w) == [i \in 0 .. N + 1 |-> IF i <= N THEN p[i] ELSE w]

IsLonger(n, c, p, N, w, m, q) ==
  /\ Chain(m, c, q, N + 1)
  /\ {q[i] : i \in 1 .. N + 1} = {p[i] : i \in 1 .. N} \cup {w}
  /\ m \in Links
  /\ \A d \in Cells \ Ids : d # c => m[d] = n[d]

\* A window nobody is higher than is inserted behind all others.
LEMMA ChainInserted ==
  ASSUME NEW n \in Links, NEW c, NEW p, NEW N, Chain(n, c, p, N),
         NEW w \in Ids, \A i \in 0 .. N : p[i] # w,
         NEW zs, \A e \in Ids : ~IsHigher(zs, e, w)
  PROVE  IsLonger(n, c, p, N, w, Inserted(n, c, zs, w), WithLast(p, N, w))
<1>0. MaxIds \in Nat /\ N \in 0 .. MaxIds /\ N \in Nat /\ w \in Cells
  BY Numbers, ChainShort
<1>1. \A j \in 0 .. MaxIds + 1 : Walk(n, c)[j] = IF j <= N THEN p[j] ELSE NULL
  BY ChainWalk
<1>2. /\ \A j \in 0 .. N : /\ p[j] \in Cells /\ p[j] # NULL /\ (j < N => n[p[j]] = p[j + 1] /\ n[p[j]] \in Ids)
                           /\ (j >= 1 => p[j] \in Ids)
      /\ n[p[N]] = NULL /\ p[0] = c /\ \A i, j \in 0 .. N : p[i] = p[j] => i = j
  <2>1. \A j \in 0 .. N : j < N => p[j + 1] \in Ids
    BY <1>0 DEF Chain
  <2> QED BY <1>0, <2>1, Numbers DEF Chain
<1>3. N \in 0 .. N /\ N \in 0 .. MaxIds + 1 /\ p[N] # NULL /\ p[N] \in Cells
  BY <1>0, <1>2
<1>4. \A j \in 0 .. N : (n[p[j]] = NULL \/ IsHigher(zs, n[p[j]], w)) => j = N
  <2> TAKE j \in 0 .. N
  <2>1. j < N => n[p[j]] \in Ids /\ n[p[j]] # NULL
    BY <1>2, Numbers
  <2> QED BY <1>0, <2>1
<1>5. HigherAt(n, c, zs, w, N)
  <2>1. \A j \in 0 .. N - 1 : j \in 0 .. N /\ j \in 0 .. MaxIds + 1 /\ j <= N /\ j # N
    BY <1>0
  <2>2. \A j \in 0 .. N - 1 : Walk(n, c)[j] = p[j] /\ ~(n[p[j]] = NULL \/ IsHigher(zs, n[p[j]], w))
    BY <1>1, <1>4, <2>1
  <2>3. Walk(n, c)[N] = p[N]
    BY <1>0, <1>1, <1>3
  <2> QED BY <1>2, <1>3, <2>2, <2>3 DEF HigherAt
<1>6. \A j \in 0 .. MaxIds : HigherAt(n, c, zs, w, j) => j = N
  <2> SUFFICES ASSUME NEW j \in 0 .. MaxIds, HigherAt(n, c, zs, w, j) PROVE j = N
    OBVIOUS
  <2>1. Walk(n, c)[j] # NULL /\ (n[Walk(n, c)[j]] = NULL \/ IsHigher(zs, n[Walk(n, c)[j]], w)) /\ j \in 0 .. MaxIds + 1
    BY <1>0 DEF HigherAt
  <2>2. j \in 0 .. N /\ Walk(n, c)[j] = p[j]
    BY <1>0, <1>1, <2>1
  <2> QED BY <1>4, <2>1, <2>2
<1>7. PICK m : m = Inserted(n, c, zs, w)
  OBVIOUS
<1>8. PICK a \in Cells : a = p[N]
  BY <1>3
<1>9. m = [n EXCEPT ![a] = w, ![w] = NULL]
  <2>1. PICK x : x = CHOOSE j \in 0 .. MaxIds : HigherAt(n, c, zs, w, j)
    OBVIOUS
  <2>2. x \in 0 .. MaxIds /\ HigherAt(n, c, zs, w, x)
    BY <1>0, <1>5, <2>1, Zenon
  <2>3. x = N
    BY <1>6, <2>2
  <2>4. Walk(n, c)[x] = a /\ n[a] = NULL
    BY <1>0, <1>1, <1>2, <1>3, <1>8, <2>3
  <2>5. Inserted(n, c, zs, w) = [n EXCEPT ![Walk(n, c)[x]] = w, ![w] = n[Walk(n, c)[x]]]
    BY <1>0, <1>5, <2>1, InsertedIs, Zenon
  <2> QED BY <1>7, <2>4, <2>5, Zenon
<1>10. a # w
  BY <1>3, <1>8
<1>11. m \in Links /\ m[a] = w /\ m[w] = NULL
       /\ \A d \in Cells : d # a /\ d # w => m[d] = n[d]
  BY <1>0, <1>9, <1>10 DEF Links
<1>12. PICK q : q = WithLast(p, N, w)
  OBVIOUS
<1>13. q \in [0 .. N + 1 -> Cells] /\ q[N + 1] = w /\ \A i \in 0 .. N : q[i] = p[i] /\ q[i] # w
  <2>1. \A i \in 0 .. N : i \in 0 .. N + 1 /\ i <= N
    BY <1>0
  <2>2. N + 1 \in 0 .. N + 1 /\ ~(N + 1 <= N)
    BY <1>0
  <2>3. \A i \in 0 .. N + 1 : i <= N => i \in 0 .. N
    BY <1>0
  <2> QED BY <1>0, <1>2, <1>12, <2>1, <2>2, <2>3 DEF WithLast
<1>14. \A i \in 0 .. N + 1 : i = N + 1 \/ i \in 0 .. N
  BY <1>0
<1>15. Chain(m, c, q, N + 1)
  <2>1. N + 1 \in Nat /\ 0 \in 0 .. N
    BY <1>0
  <2>2. q[0] = c
    BY <1>2, <1>13, <2>1
  <2>3. \A i \in 1 .. N + 1 : q[i] \in Ids
    <3> TAKE i \in 1 .. N + 1
    <3>1. i = N + 1 \/ (i \in 0 .. N /\ i >= 1)
      BY <1>0
    <3> QED BY <1>2, <1>13, <3>1
  <2>4. \A i, j \in 0 .. N + 1 : q[i] = q[j] => i = j
    BY <1>2, <1>13, <1>14
  <2>5. \A i \in 0 .. N + 1 : i < N + 1 => m[q[i]] = q[i + 1]
    <3> SUFFICES ASSUME NEW i \in 0 .. N + 1, i < N + 1 PROVE m[q[i]] = q[i + 1]
      OBVIOUS
    <3>1. i \in 0 .. N /\ (i = N \/ (i < N /\ i + 1 \in 0 .. N))
      BY <1>0
    <3>2. CASE i = N
      BY <1>3, <1>8, <1>11, <1>13, <3>2
    <3>3. CASE i < N /\ i + 1 \in 0 .. N
      <4>1. p[i] # a
        BY <1>0, <1>2, <1>3, <1>8, <3>1, <3>3
      <4> QED BY <1>2, <1>11, <1>13, <3>1, <3>3, <4>1
    <3> QED BY <3>1, <3>2, <3>3
  <2> QED BY <1>11, <1>13, <2>1, <2>2, <2>3, <2>4, <2>5 DEF Chain
<1>16. {q[i] : i \in 1 .. N + 1} = {p[i] : i \in 1 .. N} \cup {w}
  <2>1. \A i \in 1 .. N + 1 : i = N + 1 \/ (i \in 1 .. N /\ i \in 0 .. N)
    BY <1>0
  <2>2. \A i \in 1 .. N : i \in 1 .. N + 1 /\ i \in 0 .. N
    BY <1>0
  <2>3. N + 1 \in 1 .. N + 1
    BY <1>0
  <2> QED BY <1>13, <2>1, <2>2, <2>3
<1>17. \A d \in Cells \ Ids : d # c => m[d] = n[d]
  <2> SUFFICES ASSUME NEW d \in Cells \ Ids, d # c PROVE d # a /\ d # w
    BY <1>11
  <2>1. N = 0 \/ N >= 1
    BY <1>0
  <2>2. a = c \/ a \in Ids
    BY <1>2, <1>3, <1>8, <2>1
  <2> QED BY <2>2
<1> QED BY <1>7, <1>11, <1>12, <1>15, <1>16, <1>17 DEF IsLonger

WithFirst(p, N, w) == [i \in 0 .. N + 1 |-> IF i = 0 THEN p[0] ELSE IF i = 1 THEN w ELSE p[i - 1]]

\* A window put at the head is before all others (wm_lower_window).
LEMMA ChainFront ==
  ASSUME NEW n \in Links, NEW c \in Cells, NEW p, NEW N, Chain(n, c, p, N),
         NEW w \in Ids, \A i \in 0 .. N : p[i] # w,
         NEW m, m = [n EXCEPT ![c] = w, ![w] = n[c]]
  PROVE  IsLonger(n, c, p, N, w, m, WithFirst(p, N, w))
<1>0. N \in Nat /\ w \in Cells /\ 0 \in 0 .. N /\ N \in 0 .. N
  BY Numbers DEF Chain
<1>1. /\ \A j \in 0 .. N : p[j] \in Cells /\ (j < N => n[p[j]] = p[j + 1])
      /\ \A j \in 1 .. N : p[j] \in Ids
      /\ n[p[N]] = NULL /\ p[0] = c /\ \A i, j \in 0 .. N : p[i] = p[j] => i = j
  BY DEF Chain
<1>2. c # w
  BY <1>0, <1>1
<1>3. m \in Links /\ m[c] = w /\ m[w] = n[c] /\ \A d \in Cells : d # c /\ d # w => m[d] = n[d]
  BY <1>0, <1>2 DEF Links
<1>4. PICK q : q = WithFirst(p, N, w)
  OBVIOUS
<1>5. q \in [0 .. N + 1 -> Cells] /\ q[0] = c /\ q[1] = w
      /\ \A i \in 2 .. N + 1 : q[i] = p[i - 1]
  <2>1. 0 \in 0 .. N + 1 /\ 1 \in 0 .. N + 1
    BY <1>0
  <2>2. \A i \in 0 .. N + 1 : i = 0 \/ i = 1 \/ (i # 0 /\ i # 1 /\ i - 1 \in 0 .. N)
    BY <1>0
  <2>3. \A i \in 2 .. N + 1 : i \in 0 .. N + 1 /\ i # 0 /\ i # 1
    BY <1>0
  <2> QED BY <1>0, <1>1, <1>4, <2>1, <2>2, <2>3 DEF WithFirst
<1>6. Chain(m, c, q, N + 1)
  <2>1. \A i \in 0 .. N + 1 : i = 0 \/ i = 1 \/ (i \in 2 .. N + 1 /\ i - 1 \in 1 .. N /\ i - 1 \in 0 .. N)
    BY <1>0
  <2>2. \A i \in 1 .. N + 1 : i = 1 \/ (i \in 2 .. N + 1 /\ i - 1 \in 1 .. N)
    BY <1>0
  <2>3. \A i \in 1 .. N + 1 : q[i] \in Ids
    BY <1>1, <1>5, <2>2
  <2>4. \A i, j \in 0 .. N + 1 : q[i] = q[j] => i = j
    <3> SUFFICES ASSUME NEW i \in 0 .. N + 1, NEW j \in 0 .. N + 1, q[i] = q[j] PROVE i = j
      OBVIOUS
    <3>1. \A k \in 2 .. N + 1 : q[k] # c /\ q[k] # w
      <4> TAKE k \in 2 .. N + 1
      <4>1. k - 1 \in 0 .. N /\ k - 1 # 0
        BY <1>0
      <4> QED BY <1>0, <1>1, <1>5, <4>1
    <3>2. CASE i \in 2 .. N + 1 /\ j \in 2 .. N + 1
      <4>1. i - 1 \in 0 .. N /\ j - 1 \in 0 .. N /\ i \in Int /\ j \in Int
        BY <1>0, <3>2
      <4>2. i - 1 = j - 1
        BY <1>1, <1>5, <3>2, <4>1
      <4> QED BY <4>1, <4>2
    <3> QED BY <1>2, <1>5, <2>1, <3>1, <3>2
  <2>5. \A i \in 0 .. N + 1 : i < N + 1 => m[q[i]] = q[i + 1]
    <3> SUFFICES ASSUME NEW i \in 0 .. N + 1, i < N + 1 PROVE m[q[i]] = q[i + 1]
      OBVIOUS
    <3>1. CASE i = 0
      BY <1>3, <1>5, <3>1
    <3>2. CASE i = 1
      <4>1. 2 \in 2 .. N + 1 /\ 0 < N /\ i + 1 = 2 /\ 2 - 1 = 0 + 1
        BY <1>0, <3>2
      <4>2. q[2] = p[0 + 1] /\ n[p[0]] = p[0 + 1]
        BY <1>0, <1>1, <1>5, <4>1
      <4> QED BY <1>1, <1>3, <1>5, <3>2, <4>1, <4>2
    <3>3. CASE i \in 2 .. N + 1
      <4>1. i + 1 \in 2 .. N + 1 /\ i - 1 \in 0 .. N /\ i - 1 < N /\ (i + 1) - 1 = (i - 1) + 1 /\ i - 1 # 0
        BY <1>0, <3>3
      <4>2. q[i] = p[i - 1] /\ q[i + 1] = p[(i - 1) + 1] /\ n[p[i - 1]] = p[(i - 1) + 1]
        BY <1>1, <1>5, <3>3, <4>1
      <4>3. p[i - 1] # c /\ p[i - 1] # w
        BY <1>0, <1>1, <4>1
      <4> QED BY <1>1, <1>3, <4>1, <4>2, <4>3
    <3> QED BY <2>1, <3>1, <3>2, <3>3
  <2>6. m[q[N + 1]] = NULL
    <3>1. CASE N = 0
      BY <1>1, <1>3, <1>5, <3>1
    <3>2. CASE N # 0
      <4>1. N + 1 \in 2 .. N + 1 /\ (N + 1) - 1 = N
        BY <1>0, <3>2
      <4>2. p[N] # c /\ p[N] # w
        BY <1>0, <1>1, <3>2
      <4> QED BY <1>0, <1>1, <1>3, <1>5, <4>1, <4>2
    <3> QED BY <3>1, <3>2
  <2>7. N + 1 \in Nat
    BY <1>0
  <2> QED BY <1>5, <2>3, <2>4, <2>5, <2>6, <2>7 DEF Chain
<1>7. {q[i] : i \in 1 .. N + 1} = {p[i] : i \in 1 .. N} \cup {w}
  <2>1. \A i \in 1 .. N + 1 : i = 1 \/ (i \in 2 .. N + 1 /\ i - 1 \in 1 .. N)
    BY <1>0
  <2>2. \A i \in 1 .. N : i + 1 \in 1 .. N + 1 /\ i + 1 \in 2 .. N + 1 /\ (i + 1) - 1 = i
    BY <1>0
  <2>3. 1 \in 1 .. N + 1
    BY <1>0
  <2>4. \A i \in 1 .. N : q[i + 1] = p[i]
    BY <1>5, <2>2
  <2> QED BY <1>5, <2>1, <2>2, <2>3, <2>4
<1> QED BY <1>3, <1>4, <1>6, <1>7 DEF IsLonger

-----------------------------------------------------------------------------
(* Any pointers, lists or not.                                              *)

\* A walk of k steps.
StepsTo(n, c, at, k) ==
  at = [j \in 0 .. k |-> IF j = 0 THEN c ELSE IF at[j - 1] = NULL THEN NULL ELSE n[at[j - 1]]]

\* Walk satisfies its recursion.
LEMMA WalkExists == \A n, c : WalkIs(n, c, Walk(n, c))
<1> TAKE n, c
<1>1. ASSUME NEW k \in Nat PROVE \E at : StepsTo(n, c, at, k)
  <2> DEFINE S == {j \in Nat : ~ \E at : StepsTo(n, c, at, j)}
  <2>1. CASE k \in S
    <3>1. PICK m \in S : \A j \in S : m <= j
      <4>1. S \in SUBSET Nat /\ S # {}
        BY <2>1
      <4> QED BY <4>1, Least
    <3>2. m \in Nat /\ ~ \E at : StepsTo(n, c, at, m)
      BY <3>1
    <3>3. m # 0
      <4>1. PICK at : at = [j \in 0 .. 0 |-> c]
        OBVIOUS
      <4>2. \A j \in 0 .. 0 : j = 0
        OBVIOUS
      <4>3. StepsTo(n, c, at, 0)
        BY <4>1, <4>2 DEF StepsTo
      <4> QED BY <3>2, <4>3
    <3>4. m - 1 \in Nat /\ m - 1 \notin S
      <4>1. m - 1 \in Nat /\ ~(m <= m - 1)
        BY <3>2, <3>3
      <4> QED BY <3>1, <4>1
    <3>5. PICK f : StepsTo(n, c, f, m - 1)
      BY <3>4
    <3>6. PICK at : at = [j \in 0 .. m |-> IF j = m THEN IF f[m - 1] = NULL THEN NULL ELSE n[f[m - 1]] ELSE f[j]]
      OBVIOUS
    <3>7. \A j \in 0 .. m - 1 : at[j] = f[j] /\ j \in 0 .. m
      <4>1. \A j \in 0 .. m - 1 : j \in 0 .. m /\ j # m
        BY <3>2
      <4> QED BY <3>6, <4>1
    <3>8. ASSUME NEW j \in 0 .. m
          PROVE  at[j] = IF j = 0 THEN c ELSE IF at[j - 1] = NULL THEN NULL ELSE n[at[j - 1]]
      <4>1. CASE j = m
        <5>1. m - 1 \in 0 .. m - 1
          BY <3>2, <3>3
        <5>2. at[m - 1] = f[m - 1]
          BY <3>7, <5>1
        <5> QED BY <3>3, <3>6, <4>1, <5>2
      <4>2. CASE j # m
        <5>1. j \in 0 .. m - 1 /\ (j # 0 => j - 1 \in 0 .. m - 1)
          BY <3>2, <4>2
        <5>2. f[j] = IF j = 0 THEN c ELSE IF f[j - 1] = NULL THEN NULL ELSE n[f[j - 1]]
          BY <3>5, <5>1 DEF StepsTo
        <5>3. at[j] = f[j] /\ (j # 0 => at[j - 1] = f[j - 1])
          BY <3>7, <5>1
        <5> QED BY <5>2, <5>3
      <4> QED BY <4>1, <4>2
    <3>9. at = [j \in 0 .. m |-> at[j]]
      BY <3>6
    <3>10. StepsTo(n, c, at, m)
      BY <3>8, <3>9 DEF StepsTo
    <3> QED BY <3>2, <3>10
  <2> QED BY <2>1
<1>2. MaxIds + 1 \in Nat
  BY Numbers
<1>3. PICK at : StepsTo(n, c, at, MaxIds + 1)
  BY <1>1, <1>2
<1>4. WalkIs(n, c, at)
  BY <1>3 DEF StepsTo, WalkIs
<1> QED BY <1>4, WalkChosen, Zenon

\* A walk that starts in a cell stays in the cells until it ends.
LEMMA WalkCells ==
  ASSUME NEW n \in Links, NEW c \in Cells
  PROVE  \A k \in 0 .. MaxIds + 1 : Walk(n, c)[k] \in Cells \cup {NULL}
<1>0. MaxIds \in Nat /\ Ids \in SUBSET Cells
  BY Numbers
<1>1. PICK at : at = Walk(n, c)
  OBVIOUS
<1>2. WalkIs(n, c, at)
  BY <1>1, WalkExists
<1>3. ASSUME NEW k \in 0 .. MaxIds + 1, at[k] \notin Cells \cup {NULL} PROVE FALSE
  <2> DEFINE S == {j \in 0 .. MaxIds + 1 : at[j] \notin Cells \cup {NULL}}
  <2>1. S \in SUBSET Nat /\ S # {}
    BY <1>0, <1>3
  <2>2. PICK m \in S : \A j \in S : m <= j
    BY <2>1, Least
  <2>3. m \in 0 .. MaxIds + 1 /\ at[m] \notin Cells \cup {NULL}
    BY <2>2
  <2>4. at[m] = IF m = 0 THEN c ELSE IF at[m - 1] = NULL THEN NULL ELSE n[at[m - 1]]
    BY <1>2, <2>3 DEF WalkIs
  <2>5. m # 0
    BY <2>3, <2>4
  <2>6. m - 1 \in 0 .. MaxIds + 1 /\ ~(m <= m - 1)
    BY <1>0, <2>3, <2>5
  <2>7. at[m - 1] \in Cells \cup {NULL}
    BY <2>2, <2>6
  <2> QED BY <1>0, <2>3, <2>4, <2>7 DEF Links
<1> QED BY <1>1, <1>3

\* Unlinking leaves links.
LEMMA UnlinkedType ==
  ASSUME NEW n \in Links, NEW c, NEW w \in Ids
  PROVE  Unlinked(n, c, w) \in Links
<1>1. n[w] \in Ids \cup {NULL}
  BY Numbers DEF Links
<1>2. PICK a, b : a = Walk(n, c)[CHOOSE k \in 0 .. MaxIds : FoundAt(n, c, w, k)] /\ b = n[w]
  OBVIOUS
<1>3. [n EXCEPT ![a] = b] \in Links
  BY <1>1, <1>2 DEF Links
<1>4. Unlinked(n, c, w) = [n EXCEPT ![a] = b] \/ Unlinked(n, c, w) = n
  BY <1>2, UnlinkedIs, Zenon
<1> QED BY <1>3, <1>4

\* Inserting leaves links.
LEMMA InsertedType ==
  ASSUME NEW n \in Links, NEW c \in Cells, NEW zs, NEW w \in Ids
  PROVE  Inserted(n, c, zs, w) \in Links
<1>1. CASE \E k \in 0 .. MaxIds : HigherAt(n, c, zs, w, k)
  <2>1. PICK x : x = CHOOSE k \in 0 .. MaxIds : HigherAt(n, c, zs, w, k)
    OBVIOUS
  <2>2. x \in 0 .. MaxIds /\ HigherAt(n, c, zs, w, x)
    BY <1>1, <2>1, Zenon
  <2>3. x \in 0 .. MaxIds + 1
    BY <2>2, Numbers
  <2>4. Walk(n, c)[x] \in Cells
    BY <2>2, <2>3, WalkCells DEF HigherAt
  <2>5. PICK a \in Cells : a = Walk(n, c)[x]
    BY <2>4
  <2>6. PICK b \in Ids \cup {NULL} : b = n[a]
    BY DEF Links
  <2>7. [n EXCEPT ![a] = w, ![w] = b] \in Links
    BY Numbers DEF Links
  <2>8. Inserted(n, c, zs, w) = [n EXCEPT ![a] = w, ![w] = b]
    BY <1>1, <2>1, <2>5, <2>6, InsertedIs, Zenon
  <2> QED BY <2>7, <2>8
<1>2. CASE ~ \E k \in 0 .. MaxIds : HigherAt(n, c, zs, w, k)
  BY <1>2, InsertedIs, Zenon
<1> QED BY <1>1, <1>2

\* Raising leaves links.
LEMMA RaisedType ==
  ASSUME NEW n \in Links, NEW w \in Ids
  PROVE  Raised(n, w) \in Links
BY UnlinkedType, InsertedType, Numbers DEF Raised

\* Joining the destroyed desktop's list to the first leaves links.
LEMMA AppendedType ==
  ASSUME NEW n \in Links, NEW d \in Slots
  PROVE  Appended(n, d) \in Links
<1>1. 0 \in Slots
  BY Numbers DEF Slots
<1>2. n[VD(0)] \in Ids \cup {NULL} /\ n[VD(d)] \in Ids \cup {NULL}
  BY <1>1, Heads DEF Links
<1>3. PICK a, b, e, h, i : a = LastOf(n, VD(d)) /\ b = n[VD(0)] /\ e = VD(0) /\ h = n[VD(d)] /\ i = VD(d)
  OBVIOUS
<1>4. [n EXCEPT ![a] = b, ![e] = h, ![i] = NULL] \in Links
  BY <1>2, <1>3 DEF Links
<1>5. Appended(n, d) = n \/ Appended(n, d) = [n EXCEPT ![a] = b, ![e] = h, ![i] = NULL]
  BY <1>3, Zenon DEF Appended
<1> QED BY <1>4, <1>5

\* Closing the gap in the desktop table leaves links.
LEMMA ShiftedType ==
  ASSUME NEW n \in Links, NEW d \in Nat, num \in 1 .. Desktops
  PROVE  ShiftedDown(n, d) \in Links
<1>1. ASSUME NEW c \in Cells, \E i \in d .. num - 2 : c = VD(i) PROVE n[c - 1] \in Ids \cup {NULL}
  <2>1. PICK i \in d .. num - 2 : c = VD(i)
    BY <1>1
  <2>2. i + 1 \in Slots /\ VD(i + 1) = c - 1
    BY <2>1, Numbers DEF Slots, VD
  <2>3. c - 1 \in Cells
    BY <2>2, Heads
  <2> QED BY <2>3 DEF Links
<1>2. \A c \in Cells : n[c] \in Ids \cup {NULL}
  BY DEF Links
<1> QED BY <1>1, <1>2 DEF ShiftedDown, Links

\* The window is taken out of one desktop's list after the other.
OffIs(n, w, after, k) ==
  after = [i \in 0 .. k |-> IF i = 0 THEN n ELSE Unlinked(after[i - 1], VD(i - 1), w)]

\* OffDesktops is the last value of the function its recursion chooses.
LEMMA OffChosen ==
  ASSUME NEW n, NEW w
  PROVE  OffDesktops(n, w) = (CHOOSE after : OffIs(n, w, after, num))[num]
  BY Zenon DEF OffDesktops, OffIs

\* Taking a window off every desktop leaves links.
LEMMA OffType ==
  ASSUME NEW n \in Links, NEW w \in Ids, num \in Nat
  PROVE  OffDesktops(n, w) \in Links
<1>1. ASSUME NEW k \in Nat PROVE \E after : OffIs(n, w, after, k)
  <2> DEFINE S == {j \in Nat : ~ \E after : OffIs(n, w, after, j)}
  <2>1. CASE k \in S
    <3>1. PICK m \in S : \A j \in S : m <= j
      <4>1. S \in SUBSET Nat /\ S # {}
        BY <2>1
      <4> QED BY <4>1, Least
    <3>2. m \in Nat /\ ~ \E after : OffIs(n, w, after, m)
      BY <3>1
    <3>3. m # 0
      <4>1. PICK after : after = [j \in 0 .. 0 |-> n]
        OBVIOUS
      <4>2. \A j \in 0 .. 0 : j = 0
        OBVIOUS
      <4>3. OffIs(n, w, after, 0)
        BY <4>1, <4>2 DEF OffIs
      <4> QED BY <3>2, <4>3
    <3>4. m - 1 \in Nat /\ m - 1 \notin S
      <4>1. m - 1 \in Nat /\ ~(m <= m - 1)
        BY <3>2, <3>3
      <4> QED BY <3>1, <4>1
    <3>5. PICK f : OffIs(n, w, f, m - 1)
      BY <3>4
    <3>6. PICK after : after = [j \in 0 .. m |-> IF j = m THEN Unlinked(f[m - 1], VD(m - 1), w) ELSE f[j]]
      OBVIOUS
    <3>7. \A j \in 0 .. m - 1 : after[j] = f[j]
      <4>1. \A j \in 0 .. m - 1 : j \in 0 .. m /\ j # m
        BY <3>2
      <4> QED BY <3>6, <4>1
    <3>8. ASSUME NEW j \in 0 .. m
          PROVE  after[j] = IF j = 0 THEN n ELSE Unlinked(after[j - 1], VD(j - 1), w)
      <4>1. CASE j = m
        <5>1. m - 1 \in 0 .. m - 1
          BY <3>2, <3>3
        <5>2. after[m - 1] = f[m - 1]
          BY <3>7, <5>1
        <5> QED BY <3>3, <3>6, <4>1, <5>2
      <4>2. CASE j # m
        <5>1. j \in 0 .. m - 1 /\ (j # 0 => j - 1 \in 0 .. m - 1)
          BY <3>2, <4>2
        <5>2. f[j] = IF j = 0 THEN n ELSE Unlinked(f[j - 1], VD(j - 1), w)
          BY <3>5, <5>1 DEF OffIs
        <5>3. after[j] = f[j] /\ (j # 0 => after[j - 1] = f[j - 1])
          BY <3>7, <5>1
        <5> QED BY <5>2, <5>3
      <4> QED BY <4>1, <4>2
    <3>9. after = [j \in 0 .. m |-> after[j]]
      BY <3>6
    <3>10. OffIs(n, w, after, m)
      BY <3>8, <3>9 DEF OffIs
    <3> QED BY <3>2, <3>10
  <2> QED BY <2>1
<1>2. PICK after : after = CHOOSE f : OffIs(n, w, f, num)
  OBVIOUS
<1>3. OffIs(n, w, after, num)
  BY <1>1, <1>2, Zenon
<1>4. ASSUME NEW k \in 0 .. num, after[k] \notin Links PROVE FALSE
  <2> DEFINE S == {j \in 0 .. num : after[j] \notin Links}
  <2>1. S \in SUBSET Nat /\ S # {}
    BY <1>4
  <2>2. PICK m \in S : \A j \in S : m <= j
    BY <2>1, Least
  <2>3. m \in 0 .. num /\ after[m] \notin Links
    BY <2>2
  <2>4. after[m] = IF m = 0 THEN n ELSE Unlinked(after[m - 1], VD(m - 1), w)
    BY <1>3, <2>3 DEF OffIs
  <2>5. m # 0
    BY <2>3, <2>4
  <2>6. m - 1 \in 0 .. num /\ ~(m <= m - 1)
    BY <2>3, <2>5
  <2>7. after[m - 1] \in Links
    BY <2>2, <2>6
  <2> QED BY <2>3, <2>4, <2>5, <2>7, UnlinkedType
<1>5. num \in 0 .. num
  OBVIOUS
<1> QED BY <1>2, <1>4, <1>5, OffChosen

\* Moving a window to a desktop leaves links.
LEMMA MovedType ==
  ASSUME NEW n \in Links, NEW w \in Ids, NEW d \in Slots, num \in Nat
  PROVE  MovedTo(n, w, d) \in Links
<1>1. PICK m \in Links : m = OffDesktops(n, w)
  BY OffType
<1>2. m[VD(d)] \in Ids \cup {NULL}
  BY Heads DEF Links
<1>3. PICK a, b : a = VD(d) /\ b = m[VD(d)]
  OBVIOUS
<1>4. [m EXCEPT ![w] = b, ![a] = w] \in Links
  BY <1>2, <1>3 DEF Links
<1>5. MovedTo(n, w, d) = [m EXCEPT ![w] = b, ![a] = w]
  BY <1>1, <1>3, Zenon DEF MovedTo
<1> QED BY <1>4, <1>5

-----------------------------------------------------------------------------
(* The list of windows.                                                    *)

\* The window list n leads along the windows S, each once, w the last of them.
ListOf(n, S) == \E p, N : Chain(n, WM, p, N) /\ S = {p[i] : i \in 1 .. N}
LastIs(n, S, w) == \E p, N : Chain(n, WM, p, N) /\ S = {p[i] : i \in 1 .. N} /\ N >= 1 /\ p[N] = w

\* The heads of the desktops' lists are the same in both.
SameHeads(n, m) == \A d \in Cells \ Ids : d # WM => m[d] = n[d]

\* wm_destroy_window's unlinking leaves the list of the other windows.
LEMMA ListUnlinked ==
  ASSUME NEW n \in Links, NEW S, ListOf(n, S), NEW w \in S
  PROVE  ListOf(Unlinked(n, WM, w), S \ {w}) /\ SameHeads(n, Unlinked(n, WM, w))
<1>1. PICK p, N : Chain(n, WM, p, N) /\ S = {p[i] : i \in 1 .. N}
  BY DEF ListOf
<1>2. PICK k \in 1 .. N : w = p[k]
  BY <1>1
<1>3. /\ Chain(Unlinked(n, WM, p[k]), WM, Without(p, N, k), N - 1)
      /\ {Without(p, N, k)[i] : i \in 1 .. N - 1} = {p[i] : i \in 1 .. N} \ {p[k]}
      /\ \A d \in Cells : (\A i \in 0 .. N : p[i] # d) => Unlinked(n, WM, p[k])[d] = n[d]
  <2>1. IsCut(n, WM, p, N, k)
    BY <1>1, ChainUnlinked
  <2> QED BY <2>1, Zenon DEF IsCut
<1>4. \A i \in 0 .. N : i = 0 \/ i \in 1 .. N
  BY <1>1 DEF Chain
<1>5. \A d \in Cells \ Ids : d # WM => \A i \in 0 .. N : p[i] # d
  BY <1>1, <1>4 DEF Chain
<1>6. SameHeads(n, Unlinked(n, WM, w))
  BY <1>2, <1>3, <1>5 DEF SameHeads
<1>7. PICK m, q, M : m = Unlinked(n, WM, w) /\ q = Without(p, N, k) /\ M = N - 1
  OBVIOUS
<1>8. Chain(m, WM, q, M) /\ {q[i] : i \in 1 .. M} = S \ {w}
  BY <1>1, <1>2, <1>3, <1>7, Zenon
<1>9. ListOf(m, S \ {w})
  BY <1>8 DEF ListOf
<1> QED BY <1>6, <1>7, <1>9, Zenon

\* The insertion by z makes a list with the window, last when none is above it.
LEMMA ListInserted ==
  ASSUME NEW n \in Links, NEW S, ListOf(n, S), NEW w \in Ids, w \notin S,
         NEW zs, \A e \in Ids : ~IsHigher(zs, e, w)
  PROVE  /\ ListOf(Inserted(n, WM, zs, w), S \cup {w}) /\ SameHeads(n, Inserted(n, WM, zs, w))
         /\ LastIs(Inserted(n, WM, zs, w), S \cup {w}, w)
<1>1. PICK p, N : Chain(n, WM, p, N) /\ S = {p[i] : i \in 1 .. N}
  BY DEF ListOf
<1>2. N \in Nat /\ \A i \in 0 .. N : i = 0 \/ i \in 1 .. N
  BY <1>1 DEF Chain
<1>3. \A i \in 0 .. N : p[i] # w
  BY <1>1, <1>2, Numbers DEF Chain
<1>4. /\ Chain(Inserted(n, WM, zs, w), WM, WithLast(p, N, w), N + 1)
      /\ {WithLast(p, N, w)[i] : i \in 1 .. N + 1} = {p[i] : i \in 1 .. N} \cup {w}
      /\ \A d \in Cells \ Ids : d # WM => Inserted(n, WM, zs, w)[d] = n[d]
  <2>1. IsLonger(n, WM, p, N, w, Inserted(n, WM, zs, w), WithLast(p, N, w))
    BY <1>1, <1>3, ChainInserted
  <2> QED BY <2>1, Zenon DEF IsLonger
<1>5. WithLast(p, N, w)[N + 1] = w
  BY <1>2 DEF WithLast
<1>6. PICK m, q, M : m = Inserted(n, WM, zs, w) /\ q = WithLast(p, N, w) /\ M = N + 1
  OBVIOUS
<1>7. Chain(m, WM, q, M) /\ S \cup {w} = {q[i] : i \in 1 .. M} /\ q[M] = w
  BY <1>1, <1>4, <1>5, <1>6, Zenon
<1>8. M >= 1
  BY <1>2, <1>6
<1>9. ListOf(m, S \cup {w}) /\ LastIs(m, S \cup {w}, w)
  BY <1>7, <1>8 DEF ListOf, LastIs
<1>10. SameHeads(n, Inserted(n, WM, zs, w))
  BY <1>4 DEF SameHeads
<1> QED BY <1>6, <1>9, <1>10, Zenon

\* Raising a window nobody is higher than makes it the last of the list.
LEMMA ListRaised ==
  ASSUME NEW n \in Links, NEW S \in SUBSET Ids, ListOf(n, S), NEW w \in S, \A e \in Ids : ~IsHigher(z, e, w)
  PROVE  ListOf(Raised(n, w), S) /\ SameHeads(n, Raised(n, w)) /\ LastIs(Raised(n, w), S, w)
<1>1. PICK m \in Links : m = Unlinked(n, WM, w)
  BY UnlinkedType
<1>2. ListOf(m, S \ {w}) /\ SameHeads(n, m)
  BY <1>1, ListUnlinked
<1>3. PICK r : r = Inserted(m, WM, z, w)
  OBVIOUS
<1>4. PICK T : T = S \ {w}
  OBVIOUS
<1>5. w \notin T /\ ListOf(m, T) /\ T \cup {w} = S
  BY <1>2, <1>4
<1>6. ListOf(r, T \cup {w}) /\ SameHeads(m, r) /\ LastIs(r, T \cup {w}, w)
  BY <1>3, <1>5, ListInserted
<1>7. SameHeads(n, r)
  BY <1>2, <1>6 DEF SameHeads
<1>8. Raised(n, w) = r
  BY <1>1, <1>3 DEF Raised
<1> QED BY <1>5, <1>6, <1>7, <1>8, Zenon

\* Lowering one makes it the first.
LEMMA ListLowered ==
  ASSUME NEW n \in Links, NEW S \in SUBSET Ids, ListOf(n, S), NEW w \in S, NEW m \in Links,
         m = Unlinked(n, WM, w), NEW r, r = [m EXCEPT ![WM] = w, ![w] = m[WM]]
  PROVE  ListOf(r, S) /\ SameHeads(n, r) /\ r \in Links
<1>1. ListOf(m, S \ {w}) /\ SameHeads(n, m)
  BY ListUnlinked
<1>2. PICK p, N : Chain(m, WM, p, N) /\ S \ {w} = {p[i] : i \in 1 .. N}
  BY <1>1 DEF ListOf
<1>3. N \in Nat /\ \A i \in 0 .. N : i = 0 \/ i \in 1 .. N
  BY <1>2 DEF Chain
<1>4. \A i \in 0 .. N : p[i] # w
  BY <1>2, <1>3, Numbers DEF Chain
<1>5. /\ Chain(r, WM, WithFirst(p, N, w), N + 1)
      /\ {WithFirst(p, N, w)[i] : i \in 1 .. N + 1} = {p[i] : i \in 1 .. N} \cup {w}
      /\ r \in Links
      /\ \A d \in Cells \ Ids : d # WM => r[d] = m[d]
  <2>1. IsLonger(m, WM, p, N, w, r, WithFirst(p, N, w))
    BY <1>2, <1>4, ChainFront, Numbers
  <2> QED BY <2>1, Zenon DEF IsLonger
<1>6. PICK q, M : q = WithFirst(p, N, w) /\ M = N + 1
  OBVIOUS
<1>7. Chain(r, WM, q, M) /\ {q[i] : i \in 1 .. M} = (S \ {w}) \cup {w}
  <2>1. PICK P : P = {p[i] : i \in 1 .. N}
    OBVIOUS
  <2>2. Chain(r, WM, q, M) /\ {q[i] : i \in 1 .. M} = P \cup {w}
    BY <1>5, <1>6, <2>1, Zenon
  <2>3. P = S \ {w}
    BY <1>2, <2>1, Zenon
  <2> QED BY <2>2, <2>3, Zenon
<1>8. (S \ {w}) \cup {w} = S
  OBVIOUS
<1>9. ListOf(r, S)
  BY <1>7, <1>8 DEF ListOf
<1>10. SameHeads(n, r)
  BY <1>1, <1>5 DEF SameHeads
<1> QED BY <1>5, <1>9, <1>10

\* What is found of a list whose last window is w.
LEMMA LastFound ==
  ASSUME NEW n, NEW S, NEW w, LastIs(n, S, w)
  PROVE  /\ w \in Members(n, WM)
         /\ \A v \in Members(n, WM) \ {w} :
              (CHOOSE k \in 1 .. MaxIds + 1 : Walk(n, WM)[k] = w) > (CHOOSE k \in 1 .. MaxIds + 1 : Walk(n, WM)[k] = v)
<1>1. PICK p, N : Chain(n, WM, p, N) /\ N >= 1 /\ p[N] = w
  BY DEF LastIs
<1>2. MaxIds \in Nat /\ N \in 0 .. MaxIds /\ N \in Nat /\ N \in 1 .. N
  BY <1>1, ChainShort, Numbers
<1>3. Members(n, WM) = {p[i] : i \in 1 .. N}
  BY <1>1, ChainEnds
<1>4. \A k \in 0 .. MaxIds + 1 : Walk(n, WM)[k] = IF k <= N THEN p[k] ELSE NULL
  BY <1>1, ChainWalk
<1>5. \A i \in 1 .. N : i \in 0 .. N /\ i \in 1 .. MaxIds + 1 /\ i \in 0 .. MaxIds + 1 /\ i <= N
  BY <1>2
<1>6. \A i \in 1 .. N : p[i] # NULL
  BY <1>1, Numbers DEF Chain
<1>7. \A i \in 1 .. N : \A k \in 1 .. MaxIds + 1 : Walk(n, WM)[k] = p[i] => k = i
  <2> TAKE i \in 1 .. N
  <2> TAKE k \in 1 .. MaxIds + 1
  <2>1. k \in 0 .. MaxIds + 1 /\ (k <= N => k \in 0 .. N)
    BY <1>2
  <2> QED BY <1>1, <1>4, <1>5, <1>6, <2>1 DEF Chain
<1>8. \A i \in 1 .. N : (CHOOSE k \in 1 .. MaxIds + 1 : Walk(n, WM)[k] = p[i]) = i
  <2> TAKE i \in 1 .. N
  <2>1. i \in 1 .. MaxIds + 1 /\ Walk(n, WM)[i] = p[i]
    BY <1>4, <1>5
  <2>2. PICK x : x = CHOOSE k \in 1 .. MaxIds + 1 : Walk(n, WM)[k] = p[i]
    OBVIOUS
  <2>3. x \in 1 .. MaxIds + 1 /\ Walk(n, WM)[x] = p[i]
    BY <2>1, <2>2, Zenon
  <2> QED BY <1>7, <2>2, <2>3
<1>9. ASSUME NEW v \in Members(n, WM) \ {w}
      PROVE  (CHOOSE k \in 1 .. MaxIds + 1 : Walk(n, WM)[k] = w) > (CHOOSE k \in 1 .. MaxIds + 1 : Walk(n, WM)[k] = v)
  <2>1. PICK i \in 1 .. N : v = p[i]
    BY <1>3
  <2>2. i # N
    BY <1>1, <2>1
  <2>3. N > i
    BY <1>2, <2>2
  <2>4. (CHOOSE k \in 1 .. MaxIds + 1 : Walk(n, WM)[k] = w) = N
    BY <1>1, <1>2, <1>8, Zenon
  <2>5. (CHOOSE k \in 1 .. MaxIds + 1 : Walk(n, WM)[k] = v) = i
    BY <1>8, <2>1, Zenon
  <2> QED BY <2>3, <2>4, <2>5, Zenon
<1> QED BY <1>1, <1>2, <1>3, <1>9

-----------------------------------------------------------------------------
(* Culling.                                                                *)

\* Every window of the list has a place there.
LEMMA PlaceIs ==
  ASSUME NEW w \in Listed
  PROVE  Place(w) \in Int
<1>1. \E k \in 1 .. MaxIds + 1 : Walk(cell, WM)[k] = w
  BY DEF Listed, Members
<1>2. Place(w) \in 1 .. MaxIds + 1
  BY <1>1, Zenon DEF Place
<1> QED BY <1>2

\* The window that is above all others of S, where S is not empty.
LEMMA Topmost ==
  ASSUME NEW S \in SUBSET Listed, S # {}
  PROVE  \E w \in S : TopOf(S) = {w}
<1>0. MaxIds \in Nat
  BY Numbers
<1>1. \A w \in S : Place(w) \in 1 .. MaxIds + 1 /\ Walk(cell, WM)[Place(w)] = w
  <2> TAKE w \in S
  <2>1. \E k \in 1 .. MaxIds + 1 : Walk(cell, WM)[k] = w
    BY DEF Listed, Members
  <2> QED BY <2>1, Zenon DEF Place
<1>2. \A v, w \in S : Place(v) = Place(w) => v = w
  BY <1>1, Zenon
<1> DEFINE R == {(MaxIds + 1) - Place(w) : w \in S}
<1>3. R \in SUBSET Nat /\ R # {}
  <2>1. \A w \in S : (MaxIds + 1) - Place(w) \in Nat
    <3> TAKE w \in S
    <3>1. Place(w) \in 1 .. MaxIds + 1
      BY <1>1
    <3> QED BY <1>0, <3>1
  <2> QED BY <2>1
<1>4. PICK r \in R : \A j \in R : r <= j
  BY <1>3, Least
<1>5. PICK w \in S : r = (MaxIds + 1) - Place(w)
  BY <1>4
<1>6. \A v \in S : v # w => Place(w) > Place(v)
  <2> TAKE v \in S
  <2>1. (MaxIds + 1) - Place(w) <= (MaxIds + 1) - Place(v)
    BY <1>4, <1>5
  <2>2. Place(v) \in Int /\ Place(w) \in Int
    BY <1>1
  <2>3. v # w => Place(w) # Place(v)
    BY <1>2
  <2> QED BY <1>0, <2>1, <2>2, <2>3
<1>7. TopOf(S) = {w}
  <2>1. w \in TopOf(S)
    BY <1>6 DEF TopOf, Above
  <2>2. \A v \in TopOf(S) : v = w
    <3> SUFFICES ASSUME NEW v \in TopOf(S), v # w PROVE FALSE
      OBVIOUS
    <3>1. v \in S /\ Place(v) > Place(w)
      BY DEF TopOf, Above
    <3>2. Place(w) > Place(v) /\ Place(v) \in Int /\ Place(w) \in Int
      BY <1>1, <1>6, <3>1
    <3> QED BY <3>1, <3>2
  <2> QED BY <2>1, <2>2
<1> QED BY <1>7

\* Where those that cover others are opaque, what is seen of the windows F without the
\* culled ones is what is seen of all of them.
LEMMA SeenWithoutCulled ==
  ASSUME NEW F \in SUBSET Listed, NEW c, NEW opaque,
         \A w \in F : Shown(w) /\ backed[w],
         \A v \in Listed : Shown(v) /\ c \in area[v] => v \in F,
         \A w \in F, v \in Listed : Hides(v, w) => v \in opaque /\ c \in area[v]
  PROVE  Seen({w \in F : Composed(w)}, c, opaque) = Seen(F, c, opaque)
<1> DEFINE K == {w \in F : Composed(w)}
<1>1. \A w \in F : Composed(w) \/ \E h \in Listed : Hides(h, w)
  BY DEF Composed, Occluded, Shown
<1>2. \A w \in F, h \in Listed : Hides(h, w) => h \in F \cap opaque /\ c \in area[h] /\ Above(h, w)
  BY DEF Hides
<1>3. ASSUME NEW w \in Seen(F, c, opaque)
      PROVE  w \in Seen(K, c, opaque)
  <2>1. w \in F /\ \A v \in F \cap opaque : ~(Above(v, w) /\ c \in area[v])
    BY DEF Seen
  <2>2. w \in K
    BY <1>1, <1>2, <2>1
  <2> QED BY <2>1, <2>2 DEF Seen
<1>4. ASSUME NEW w \in Seen(K, c, opaque)
      PROVE  w \in Seen(F, c, opaque)
  <2>1. w \in K /\ \A v \in K \cap opaque : ~(Above(v, w) /\ c \in area[v])
    BY DEF Seen
  <2> DEFINE B == {v \in F \cap opaque : Above(v, w) /\ c \in area[v]}
  <2>2. B \in SUBSET Listed
    OBVIOUS
  <2>3. ASSUME B # {}
        PROVE  FALSE
    <3>1. PICK u \in B : TopOf(B) = {u}
      BY <2>2, <2>3, Topmost
    <3>2. u \in F /\ u \in opaque /\ Above(u, w) /\ c \in area[u]
      OBVIOUS
    <3>3. PICK h \in Listed : Hides(h, u)
      BY <1>1, <2>1, <3>2
    <3>4. h \in F \cap opaque /\ c \in area[h] /\ Above(h, u)
      BY <1>2, <3>2, <3>3
    <3>5. Place(h) \in Int /\ Place(u) \in Int /\ Place(w) \in Int
      BY <2>1, <3>2, <3>4, PlaceIs
    <3>6. Above(h, w)
      BY <3>2, <3>4, <3>5 DEF Above
    <3>7. h \in B
      BY <3>4, <3>6
    <3>8. h # u => Above(u, h)
      BY <3>1, <3>7 DEF TopOf
    <3> QED BY <3>4, <3>5, <3>8 DEF Above
  <2> QED BY <2>1, <2>3 DEF Seen
<1> QED BY <1>3, <1>4

\* A culled frame shows at every point what is on top there, whatever the list is.
LEMMA Culling == CullingHarmless
<1>0. ASSUME \A w \in Listed : Shown(w) => backed[w], NEW c \in Screen,
             NEW opaque \in SUBSET PixelsAt(c), NEW cast \in SUBSET BesideOf(c),
             \A w \in PixelsAt(c) \cup cast, v \in Listed : Hides(v, w) => v \in opaque /\ c \in area[v]
      PROVE  LET painted == PixelsAt(c) \cup cast
             IN Seen({w \in painted : Composed(w)}, c, opaque) = Seen(painted, c, opaque)
  <2> DEFINE F == PixelsAt(c) \cup cast
  <2>1. F \in SUBSET Listed /\ \A w \in F : Shown(w) /\ backed[w]
    BY <1>0 DEF PixelsAt, BesideOf
  <2>2. \A v \in Listed : Shown(v) /\ c \in area[v] => v \in F
    BY DEF PixelsAt
  <2>3. \A w \in F, v \in Listed : Hides(v, w) => v \in opaque /\ c \in area[v]
    BY <1>0
  <2> HIDE DEF F
  <2>4. Seen({w \in F : Composed(w)}, c, opaque) = Seen(F, c, opaque)
    BY <2>1, <2>2, <2>3, SeenWithoutCulled
  <2> QED BY <2>4 DEF F
<1> SUFFICES ASSUME \A w \in Listed : Shown(w) => backed[w], NEW c \in Screen
             PROVE  /\ TopOf({w \in Listed : Composed(w) /\ Shown(w) /\ c \in area[w]}) = FindWindowAt(c)
                    /\ TopOf({w \in Listed : ComposedRect(w) /\ c \in area[w]}) = FindWindowAt(c)
  BY <1>0 DEF CullingHarmless
<1>1. PICK S : S = {w \in Listed : Shown(w) /\ c \in area[w]}
  OBVIOUS
<1>2. PICK C : C = {w \in Listed : Composed(w) /\ Shown(w) /\ c \in area[w]}
  OBVIOUS
<1>3. FindWindowAt(c) = TopOf(S)
  BY <1>1, Zenon DEF FindWindowAt, Listed
<1>4. {w \in Listed : ComposedRect(w) /\ c \in area[w]} = S
  BY <1>1 DEF ComposedRect
<1>5. TopOf(C) = TopOf(S)
  <2>1. C \in SUBSET S /\ S \in SUBSET Listed
    BY <1>1, <1>2
  <2>2. CASE S = {}
    <3>1. C = S
      BY <2>1, <2>2
    <3> QED BY <3>1
  <2>3. CASE S # {}
    <3>1. PICK w \in S : TopOf(S) = {w}
      BY <2>1, <2>3, Topmost
    <3>2. \A v \in S : v # w => Place(w) > Place(v)
      BY <3>1 DEF TopOf, Above
    <3>3. \A v \in S : Place(v) \in Int
      <4> TAKE v \in S
      <4>1. \E k \in 1 .. MaxIds + 1 : Walk(cell, WM)[k] = v
        BY <2>1 DEF Listed, Members
      <4>2. Place(v) \in 1 .. MaxIds + 1
        BY <4>1, Zenon DEF Place
      <4> QED BY <4>2
    <3>4. ~Occluded(w)
      <4> SUFFICES ASSUME NEW v \in Listed, Hides(v, w) PROVE FALSE
        BY DEF Occluded
      <4>1. v \in S
        BY <1>1 DEF Hides
      <4>2. Place(v) > Place(w)
        BY DEF Hides, Above
      <4> QED BY <3>2, <3>3, <4>1, <4>2
    <3>5. w \in C
      BY <1>1, <1>2, <3>4 DEF Composed, Shown
    <3>6. PICK x \in C : TopOf(C) = {x}
      BY <2>1, <3>5, Topmost
    <3>7. x = w
      <4> SUFFICES ASSUME x # w PROVE FALSE
        OBVIOUS
      <4>1. Place(x) > Place(w)
        BY <3>5, <3>6 DEF TopOf, Above
      <4> QED BY <2>1, <3>2, <3>3, <4>1
    <3> QED BY <3>1, <3>6, <3>7
  <2> QED BY <2>2, <2>3
<1> QED BY <1>2, <1>3, <1>4, <1>5

\* Culling never takes away what is on top, and changes nothing that is seen where
\* covering windows are opaque and reach as far as shadows (kernel/compositor.c 257-299).
THEOREM CullingCorrect == Spec => []CullingHarmless
BY Culling, PTL

-----------------------------------------------------------------------------
(* What every step keeps.                                                  *)

\* A window has WF_ACTIVE exactly when it is the active one, listed or not.
MarksRight == \A w \in Ids : marked[w] <=> w = active

\* Windows applications hold, and those not created yet, are of the normal order.
OrdersRight == \A w \in Ids : w \in user \/ w > lastId => z[w] = NORMAL

\* Until a window is moved to a desktop the window list is a chain through the
\* windows there are, and every desktop's list is empty.
NoneMoved == \A i \in Slots : cell[VD(i)] = NULL
ListRight == moves = 0 => ListOf(cell, live) /\ NoneMoved

CountRight == count = Cardinality(live)

WindowsInv ==
  TypeOK /\ MarksRight /\ OrdersRight /\ ListRight /\ CountRight /\ OneActive

\* So nothing is above a window that is inserted.
LEMMA NotHigher ==
  ASSUME WindowsInv, NEW w \in Ids, w \in user \/ w > lastId
  PROVE  \A e \in Ids : ~IsHigher(z, e, w)
<1>1. z[w] = 1000
  BY DEF WindowsInv, OrdersRight, NORMAL
<1>2. \A e \in Ids : z[e] = 0 \/ z[e] = 1000
  BY DEF WindowsInv, TypeOK, DESKTOP, NORMAL
<1> QED BY <1>1, <1>2 DEF IsHigher

\* The windows of the system are windows, and finitely many.
LEMMA Names ==
  ASSUME TypeOK
  PROVE  /\ live \in SUBSET Ids /\ user \in SUBSET live /\ IsFiniteSet(live)
         /\ lastId \in Nat /\ num \in Nat /\ current \in Slots /\ InUse \in SUBSET Slots
<1>1. lastId \in 1 .. MaxIds /\ MaxIds \in Nat /\ live \in SUBSET (1 .. lastId)
  BY Numbers DEF TypeOK, Ids
<1>2. live \in SUBSET Ids
  BY <1>1 DEF Ids
<1>3. IsFiniteSet(live)
  <2>1. IsFiniteSet(1 .. lastId)
    BY <1>1, FS_Interval
  <2> QED BY <1>1, <2>1, FS_Subset
<1>4. num \in Nat /\ InUse \in SUBSET Slots
  BY Numbers DEF TypeOK, InUse, Slots
<1> QED BY <1>1, <1>2, <1>3, <1>4 DEF TypeOK

\* The first window is the desktop's.
LEMMA InitKeeps == DesktopsInit => WindowsInv
<1> SUFFICES ASSUME DesktopsInit PROVE WindowsInv
  OBVIOUS
<1> USE DEF DesktopsInit, Init, VdInit
<1>0. /\ MaxIds \in Nat \ {0} /\ MaxWindows \in Nat \ {0} /\ 1 \in Ids /\ AtBoot \in 1 .. Desktops
      /\ Desktops \in Nat \ {0} /\ WM \in Cells /\ WM \notin Ids
  BY Numbers
<1>1. TypeOK
  <2>1. cell \in [Cells -> Ids \cup {NULL}] /\ z \in [Ids -> {DESKTOP, NORMAL}]
    BY <1>0
  <2>2. lastId \in Ids /\ count \in 0 .. MaxWindows /\ live \subseteq 1 .. lastId /\ user \subseteq live
        /\ active \in user \cup {NULL}
    BY <1>0
  <2>3. state \in [Ids -> States] /\ {visible, marked, backed} \subseteq [Ids -> BOOLEAN]
        /\ {area, saved} \subseteq [Ids -> SUBSET Screen]
    BY <1>0 DEF States
  <2>4. num \in 1 .. Desktops /\ current \in InUse /\ shown \in [Slots -> BOOLEAN] /\ moves \in 0 .. MaxMoves
    BY <1>0, Numbers DEF InUse
  <2> QED BY <2>1, <2>2, <2>3, <2>4 DEF TypeOK
<1>2. MarksRight
  BY Numbers DEF MarksRight
<1>3. OrdersRight
  BY <1>0 DEF OrdersRight, Ids
<1>4. ListRight
  <2>1. PICK p : p = [i \in 0 .. 1 |-> IF i = 0 THEN WM ELSE 1]
    OBVIOUS
  <2>2. \A i \in 0 .. 1 : i = 0 \/ i = 1
    OBVIOUS
  <2>3. \A i \in 1 .. 1 : i = 1
    OBVIOUS
  <2>4. p \in [0 .. 1 -> Cells] /\ p[0] = WM /\ p[1] = 1 /\ WM # 1
    BY <1>0, <2>1, <2>2, Numbers
  <2>5. cell[WM] = 1 /\ cell[1] = NULL
    BY <1>0, <2>4, Numbers
  <2>6. Chain(cell, WM, p, 1)
    <3>1. 0 < 1 /\ ~(1 < 1) /\ 0 + 1 = 1 /\ 1 \in Nat
      OBVIOUS
    <3>2. \A i \in 0 .. 1 : i < 1 => cell[p[i]] = p[i + 1]
      BY <2>2, <2>4, <2>5, <3>1
    <3>3. \A i, j \in 0 .. 1 : p[i] = p[j] => i = j
      BY <2>2, <2>4
    <3>4. \A i \in 1 .. 1 : p[i] \in Ids
      BY <1>0, <2>3, <2>4
    <3> QED BY <2>4, <2>5, <3>1, <3>2, <3>3, <3>4 DEF Chain
  <2>7. live = {p[i] : i \in 1 .. 1}
    BY <2>3, <2>4
  <2>8. ListOf(cell, live)
    BY <2>6, <2>7 DEF ListOf
  <2>9. NoneMoved
    BY Heads DEF NoneMoved
  <2> QED BY <2>8, <2>9 DEF ListRight
<1>5. CountRight
  BY FS_Singleton DEF CountRight
<1>6. OneActive
  <2>1. 0 \in Slots /\ InUse \in SUBSET Slots
    BY <1>0, BootAssumption DEF Slots, InUse
  <2>2. \A i \in Slots : [d \in Slots |-> d = 0][i] <=> i = 0
    BY <2>1, Zenon
  <2> QED BY <2>1, <2>2, Zenon DEF OneActive
<1> QED BY <1>1, <1>2, <1>3, <1>4, <1>5, <1>6 DEF WindowsInv

-----------------------------------------------------------------------------
(* One lemma for every kind of step.                                       *)

\* Steps that change what windows look like and where they are.
LEMMA PaintKeeps ==
  ASSUME WindowsInv, UNCHANGED <<cell, lastId, count, live, user, z, marked, backed, active, vdVars>>,
         state' \in [Ids -> States], visible' \in [Ids -> BOOLEAN],
         area' \in [Ids -> SUBSET Screen], saved' \in [Ids -> SUBSET Screen]
  PROVE  WindowsInv'
<1> USE DEF WindowsInv, vdVars
<1>1. TypeOK'
  BY DEF TypeOK, InUse
<1>2. MarksRight' /\ OrdersRight'
  BY DEF MarksRight, OrdersRight
<1>3. ListRight' /\ CountRight' /\ OneActive'
  BY DEF ListRight, NoneMoved, CountRight, OneActive, InUse
<1> QED BY <1>1, <1>2, <1>3

\* Steps that put a listed window elsewhere in the list.
LEMMA RelistKeeps ==
  ASSUME WindowsInv, UNCHANGED <<lastId, count, live, user, z, marked, backed, area, saved, active, vdVars>>,
         state' \in [Ids -> States], visible' \in [Ids -> BOOLEAN], cell' \in Links,
         moves = 0 => ListOf(cell', live) /\ SameHeads(cell, cell')
  PROVE  WindowsInv'
<1> USE DEF WindowsInv, vdVars
<1>1. TypeOK'
  BY DEF TypeOK, InUse, Links
<1>2. MarksRight' /\ OrdersRight'
  BY DEF MarksRight, OrdersRight
<1>3. ListRight'
  <2> SUFFICES ASSUME moves = 0 PROVE ListOf(cell', live) /\ NoneMoved'
    BY DEF ListRight
  <2>1. \A i \in Slots : cell'[VD(i)] = cell[VD(i)] /\ cell[VD(i)] = NULL
    BY Heads DEF ListRight, NoneMoved, SameHeads
  <2> QED BY <2>1 DEF NoneMoved
<1>4. CountRight' /\ OneActive'
  BY DEF CountRight, OneActive, InUse
<1> QED BY <1>1, <1>2, <1>3, <1>4

\* wm_set_active_window.
LEMMA ActivateKeeps ==
  ASSUME WindowsInv, NEW w \in user, SetActiveWindow(w), UNCHANGED vdVars
  PROVE  WindowsInv'
<1> USE DEF WindowsInv, vdVars, SetActiveWindow
<1>0. w \in Ids /\ w \in live /\ live \in SUBSET Ids /\ cell \in Links
  BY Names DEF TypeOK, Links
<1>1. \A e \in Ids : ~IsHigher(z, e, w)
  BY <1>0, NotHigher
<1>2. cell' \in Links
  BY <1>0, RaisedType
<1>3. TypeOK'
  <2>1. marked' \in [Ids -> BOOLEAN]
    BY DEF TypeOK
  <2>2. /\ cell' \in [Cells -> Ids \cup {NULL}] /\ active' \in user \cup {NULL}
        /\ UNCHANGED <<lastId, count, live, user, z, state, visible, backed, area, saved, num, current, shown, moves>>
    BY <1>2 DEF Links
  <2> QED BY <2>1, <2>2 DEF TypeOK, InUse
<1>4. MarksRight'
  BY <1>0 DEF MarksRight
<1>5. OrdersRight'
  BY DEF OrdersRight
<1>6. ListRight'
  <2> SUFFICES ASSUME moves = 0 PROVE ListOf(cell', live) /\ NoneMoved'
    BY DEF ListRight
  <2>1. ListOf(cell, live) /\ NoneMoved
    BY DEF ListRight
  <2>2. ListOf(cell', live) /\ SameHeads(cell, cell')
    BY <1>0, <1>1, <2>1, ListRaised
  <2>3. \A i \in Slots : cell'[VD(i)] = cell[VD(i)] /\ cell[VD(i)] = NULL
    BY <2>1, <2>2, Heads DEF NoneMoved, SameHeads
  <2> QED BY <2>2, <2>3 DEF NoneMoved
<1>7. CountRight' /\ OneActive'
  BY DEF CountRight, OneActive, InUse
<1> QED BY <1>3, <1>4, <1>5, <1>6, <1>7

\* wm_create_window, for an application or for a session's desktop.
LEMMA CreateKeeps ==
  ASSUME WindowsInv, NEW r \in SUBSET Screen, NEW fb \in BOOLEAN, NEW zLater \in {DESKTOP, NORMAL},
         CreateWindow(r, fb, zLater), UNCHANGED vdVars,
         \/ zLater = NORMAL /\ user' = user \cup {lastId + 1}
         \/ user' = user
  PROVE  WindowsInv'
<1> USE DEF WindowsInv, vdVars
<1>0. PICK w : w = lastId + 1
  OBVIOUS
<1>1. /\ lastId' = w /\ count' = count + 1 /\ live' = live \cup {w} /\ count < MaxWindows
      /\ cell' = Inserted(cell, WM, z, w) /\ z' = [z EXCEPT ![w] = zLater]
      /\ area' = [area EXCEPT ![w] = r] /\ backed' = [backed EXCEPT ![w] = fb]
      /\ UNCHANGED <<state, visible, marked, saved, active>>
  BY <1>0 DEF CreateWindow
<1>2. lastId \in 1 .. MaxIds /\ MaxIds \in Nat /\ MaxWindows \in Nat /\ count \in 0 .. MaxWindows /\ lastId < MaxIds
  BY Numbers DEF TypeOK, Ids, CreateWindow
<1>3. w \in Ids /\ w > lastId /\ w \notin live /\ live \in SUBSET Ids /\ cell \in Links
      /\ user' \in SUBSET (user \cup {w}) /\ user' \in SUBSET live'
  <2>1. live \in SUBSET (1 .. lastId) /\ cell \in Links
    BY DEF TypeOK, Links
  <2>2. w \in 1 .. MaxIds /\ w > lastId
    BY <1>0, <1>2
  <2>3. w \notin live
    BY <1>2, <2>1, <2>2
  <2>4. user \in SUBSET live /\ live \in SUBSET Ids
    BY Names
  <2>5. user' \in SUBSET (user \cup {w})
    BY <1>0
  <2> QED BY <1>1, <2>1, <2>2, <2>3, <2>4, <2>5 DEF Ids
<1>4. cell' \in Links
  BY <1>1, <1>3, InsertedType, Numbers
<1>5. TypeOK'
  <2>1. lastId' \in Ids /\ count' \in 0 .. MaxWindows /\ live' \subseteq 1 .. lastId' /\ user' \subseteq live'
    <3>1. live \in SUBSET (1 .. lastId)
      BY DEF TypeOK
    <3> QED BY <1>0, <1>1, <1>2, <1>3, <3>1
  <2>2. z' \in [Ids -> {DESKTOP, NORMAL}] /\ area' \in [Ids -> SUBSET Screen] /\ backed' \in [Ids -> BOOLEAN]
    BY <1>1 DEF TypeOK
  <2>3. active' \in user' \cup {NULL}
    BY <1>1 DEF TypeOK
  <2> QED BY <1>1, <1>4, <2>1, <2>2, <2>3 DEF TypeOK, InUse, Links
<1>6. MarksRight'
  BY <1>1 DEF MarksRight
<1>7. OrdersRight'
  <2> SUFFICES ASSUME NEW v \in Ids, v \in user' \/ v > lastId' PROVE z'[v] = NORMAL
    BY DEF OrdersRight
  <2>1. CASE v = w
    <3>1. w \in user'
      BY <1>1, <1>2, <1>0, <2>1
    <3>2. zLater = NORMAL
      <4>1. user \in SUBSET live
        BY Names
      <4> QED BY <1>3, <3>1, <4>1
    <3> QED BY <1>1, <2>1, <3>2 DEF TypeOK
  <2>2. CASE v # w
    <3>1. v \in user \/ v > lastId
      <4>1. v \in Int
        BY Numbers
      <4> QED BY <1>0, <1>1, <1>2, <1>3, <2>2, <4>1
    <3> QED BY <1>1, <2>2, <3>1 DEF TypeOK, OrdersRight
  <2> QED BY <2>1, <2>2
<1>8. ListRight'
  <2> SUFFICES ASSUME moves = 0 PROVE ListOf(cell', live') /\ NoneMoved'
    BY DEF ListRight
  <2>1. ListOf(cell, live) /\ NoneMoved
    BY DEF ListRight
  <2>2. \A e \in Ids : ~IsHigher(z, e, w)
    BY <1>3, NotHigher
  <2>3. ListOf(cell', live') /\ SameHeads(cell, cell')
    BY <1>1, <1>3, <2>1, <2>2, ListInserted
  <2>4. \A i \in Slots : cell'[VD(i)] = cell[VD(i)] /\ cell[VD(i)] = NULL
    BY <2>1, <2>3, Heads DEF NoneMoved, SameHeads
  <2> QED BY <2>3, <2>4 DEF NoneMoved
<1>9. CountRight'
  <2>1. IsFiniteSet(live)
    BY Names
  <2> QED BY <1>1, <1>3, <2>1, FS_AddElement DEF CountRight
<1>10. OneActive'
  BY DEF OneActive, InUse
<1> QED BY <1>5, <1>6, <1>7, <1>8, <1>9, <1>10

\* wm_destroy_window.
LEMMA DestroyKeeps ==
  ASSUME WindowsInv, NEW w \in live \ {1}, DestroyWindow(w), UNCHANGED vdVars
  PROVE  WindowsInv'
<1> USE DEF WindowsInv, vdVars
<1>1. /\ cell' = Unlinked(cell, WM, w) /\ active' = ActiveAfter(w) /\ count' = count - 1
      /\ live' = live \ {w} /\ user' = user \ {w}
      /\ state' = [state EXCEPT ![w] = "NORMAL"] /\ visible' = [visible EXCEPT ![w] = FALSE]
      /\ marked' = [marked EXCEPT ![w] = FALSE] /\ backed' = [backed EXCEPT ![w] = FALSE]
      /\ area' = [area EXCEPT ![w] = Screen] /\ saved' = [saved EXCEPT ![w] = {}]
      /\ UNCHANGED <<lastId, z>>
  BY DEF DestroyWindow, Enter
<1>2. w \in Ids /\ w \in live /\ live \in SUBSET Ids /\ cell \in Links /\ IsFiniteSet(live)
  BY Names DEF TypeOK, Links
<1>3. cell' \in Links
  BY <1>1, <1>2, UnlinkedType
<1>4. CountRight' /\ count' \in 0 .. MaxWindows
  <2>1. Cardinality(live \ {w}) = Cardinality(live) - 1 /\ Cardinality(live) \in Nat /\ Cardinality(live \ {w}) \in Nat
    <3>1. IsFiniteSet(live \ {w})
      BY <1>2, FS_Subset
    <3> QED BY <1>2, <3>1, FS_RemoveElement, FS_CardinalityType
  <2>2. MaxWindows \in Nat /\ count \in 0 .. MaxWindows
    BY Numbers DEF TypeOK
  <2>3. count = Cardinality(live) /\ count' = count - 1 /\ live' = live \ {w}
    BY <1>1 DEF CountRight
  <2> QED BY <2>1, <2>2, <2>3 DEF CountRight
<1>5. TypeOK'
  <2>1. /\ state' \in [Ids -> States] /\ {visible', marked', backed'} \subseteq [Ids -> BOOLEAN]
        /\ {area', saved'} \subseteq [Ids -> SUBSET Screen]
    <3>1. /\ state \in [Ids -> States] /\ visible \in [Ids -> BOOLEAN] /\ marked \in [Ids -> BOOLEAN]
          /\ backed \in [Ids -> BOOLEAN] /\ area \in [Ids -> SUBSET Screen] /\ saved \in [Ids -> SUBSET Screen]
      BY Zenon DEF TypeOK
    <3>2. "NORMAL" \in States
      BY DEF States
    <3>3. state' \in [Ids -> States]
      BY <1>1, <3>1, <3>2
    <3>4. visible' \in [Ids -> BOOLEAN] /\ marked' \in [Ids -> BOOLEAN] /\ backed' \in [Ids -> BOOLEAN]
      BY <1>1, <3>1
    <3>5. area' \in [Ids -> SUBSET Screen] /\ saved' \in [Ids -> SUBSET Screen]
      BY <1>1, <3>1
    <3> QED BY <3>3, <3>4, <3>5, Zenon
  <2>2. live' \subseteq 1 .. lastId' /\ user' \subseteq live' /\ lastId' \in Ids
    <3>1. live \subseteq 1 .. lastId /\ user \subseteq live /\ lastId \in Ids
      BY Zenon DEF TypeOK
    <3>2. live' = live \ {w} /\ user' = user \ {w} /\ lastId' = lastId
      BY <1>1
    <3> QED BY <3>1, <3>2
  <2>3. active' \in user' \cup {NULL}
    BY <1>1 DEF TypeOK, ActiveAfter
  <2> QED BY <1>1, <1>3, <1>4, <2>1, <2>2, <2>3 DEF TypeOK, InUse, Links
<1>6. MarksRight'
  <2> SUFFICES ASSUME NEW v \in Ids PROVE marked'[v] <=> v = active'
    BY DEF MarksRight
  <2>1. active' = IF active = w THEN NULL ELSE active
    BY <1>1 DEF ActiveAfter
  <2>2. v # NULL
    BY Numbers
  <2>3. marked'[v] <=> v # w /\ marked[v]
    BY <1>1 DEF TypeOK
  <2> QED BY <2>1, <2>2, <2>3 DEF MarksRight
<1>7. OrdersRight'
  BY <1>1 DEF OrdersRight
<1>8. ListRight'
  <2> SUFFICES ASSUME moves = 0 PROVE ListOf(cell', live') /\ NoneMoved'
    BY DEF ListRight
  <2>1. ListOf(cell, live) /\ NoneMoved
    BY DEF ListRight
  <2>2. ListOf(cell', live') /\ SameHeads(cell, cell')
    BY <1>1, <1>2, <2>1, ListUnlinked
  <2>3. \A i \in Slots : cell'[VD(i)] = cell[VD(i)] /\ cell[VD(i)] = NULL
    BY <2>1, <2>2, Heads DEF NoneMoved, SameHeads
  <2> QED BY <2>2, <2>3 DEF NoneMoved
<1>9. OneActive'
  BY DEF OneActive, InUse
<1> QED BY <1>4, <1>5, <1>6, <1>7, <1>8, <1>9

\* The calls of kernel/window.c.
LEMMA WMKeeps == WindowsInv /\ WMNext /\ UNCHANGED vdVars => WindowsInv'
<1> SUFFICES ASSUME WindowsInv, WMNext, UNCHANGED vdVars PROVE WindowsInv'
  OBVIOUS
<1>0. Work \in SUBSET Screen /\ Rects \in SUBSET SUBSET Screen
  BY WMAssumption
<1>1. ASSUME NEW r \in Rects, NEW fb \in BOOLEAN, CreateUserWindow(r, fb) PROVE WindowsInv'
  BY <1>0, <1>1, CreateKeeps DEF CreateUserWindow
<1>2. CASE CreateSessionDesktop
  BY <1>2, CreateKeeps DEF CreateSessionDesktop
<1>3. ASSUME NEW w \in live \ {1}, DestroyWindow(w) PROVE WindowsInv'
  BY <1>3, DestroyKeeps
<1>4. ASSUME NEW w \in user PROVE w \in Ids /\ w \in live
  BY <1>4, Names DEF WindowsInv
<1>5. ASSUME NEW w \in user
      PROVE  /\ Raised(cell, w) \in Links
             /\ moves = 0 => ListOf(Raised(cell, w), live) /\ SameHeads(cell, Raised(cell, w))
  <2>1. cell \in Links /\ live \in SUBSET Ids
    BY Names DEF WindowsInv, TypeOK, Links
  <2>2. \A e \in Ids : ~IsHigher(z, e, w)
    BY <1>4, NotHigher
  <2>3. moves = 0 => ListOf(cell, live)
    BY DEF WindowsInv, ListRight
  <2> QED BY <1>4, <2>1, <2>2, <2>3, RaisedType, ListRaised
<1>6. ASSUME NEW w \in user, ShowWindow(w) PROVE WindowsInv'
  <2>1. state' \in [Ids -> States] /\ visible' \in [Ids -> BOOLEAN]
    BY <1>6 DEF ShowWindow, Enter, WindowsInv, TypeOK, States
  <2>2. /\ cell' = Raised(cell, w)
        /\ UNCHANGED <<lastId, count, live, user, z, marked, backed, area, saved, active>>
    BY <1>6 DEF ShowWindow
  <2> QED BY <1>5, <2>1, <2>2, RelistKeeps
<1>7. ASSUME NEW w \in user, HideWindow(w) \/ MinimizeWindow(w) PROVE WindowsInv'
  <2>1. state' \in [Ids -> States] /\ visible' \in [Ids -> BOOLEAN]
    BY <1>7 DEF HideWindow, MinimizeWindow, Conceal, Enter, WindowsInv, TypeOK, States
  <2>2. UNCHANGED <<cell, lastId, count, live, user, z, marked, backed, area, saved, active>>
    BY <1>7 DEF HideWindow, MinimizeWindow, Conceal
  <2>3. area \in [Ids -> SUBSET Screen] /\ saved \in [Ids -> SUBSET Screen]
    BY DEF WindowsInv, TypeOK
  <2> QED BY <2>1, <2>2, <2>3, PaintKeeps
<1>8. ASSUME NEW w \in user, MaximizeWindow(w) PROVE WindowsInv'
  <2>1. /\ state' \in [Ids -> States] /\ visible' \in [Ids -> BOOLEAN]
        /\ area' \in [Ids -> SUBSET Screen] /\ saved' \in [Ids -> SUBSET Screen]
    BY <1>0, <1>4, <1>8 DEF MaximizeWindow, WindowsInv, TypeOK, States
  <2> QED BY <1>8, <2>1, PaintKeeps DEF MaximizeWindow
<1>9. ASSUME NEW w \in user, RestoreWindow(w) PROVE WindowsInv'
  <2>1. state' \in [Ids -> States] /\ visible' \in [Ids -> BOOLEAN]
    BY <1>9 DEF RestoreWindow, Enter, WindowsInv, TypeOK, States
  <2>2. area' \in [Ids -> SUBSET Screen] /\ saved' \in [Ids -> SUBSET Screen]
    BY <1>4, <1>9 DEF RestoreWindow, WindowsInv, TypeOK
  <2> QED BY <1>9, <2>1, <2>2, PaintKeeps DEF RestoreWindow
<1>10. ASSUME NEW w \in user, NEW r \in Rects, PlaceWindow(w, r) PROVE WindowsInv'
  <2>1. /\ state' \in [Ids -> States] /\ visible' \in [Ids -> BOOLEAN]
        /\ area' \in [Ids -> SUBSET Screen] /\ saved' \in [Ids -> SUBSET Screen]
    BY <1>0, <1>4, <1>10 DEF PlaceWindow, WindowsInv, TypeOK
  <2> QED BY <1>10, <2>1, PaintKeeps DEF PlaceWindow
<1>11. ASSUME NEW w \in user, SetActiveWindow(w) PROVE WindowsInv'
  BY <1>11, ActivateKeeps
<1>12. ASSUME NEW w \in user, RaiseWindow(w) PROVE WindowsInv'
  <2>1. cell' = Raised(cell, w) /\ UNCHANGED <<lastId, count, active, winVars>>
    BY <1>12 DEF RaiseWindow
  <2>2. state' \in [Ids -> States] /\ visible' \in [Ids -> BOOLEAN]
    BY <2>1 DEF winVars, WindowsInv, TypeOK
  <2> QED BY <1>5, <2>1, <2>2, RelistKeeps DEF winVars
<1>13. ASSUME NEW w \in user, LowerWindow(w) PROVE WindowsInv'
  <2>1. PICK m \in Links : m = Unlinked(cell, WM, w)
    BY <1>4, UnlinkedType DEF WindowsInv, TypeOK, Links
  <2>2. PICK a, b : a = WM /\ b = m[WM]
    OBVIOUS
  <2>3. cell' = [m EXCEPT ![a] = w, ![w] = b] /\ UNCHANGED <<lastId, count, active, winVars>>
    BY <1>13, <2>1, <2>2, Zenon DEF LowerWindow
  <2>4. cell' \in Links
    BY <1>4, <2>1, <2>2, <2>3, Numbers DEF Links
  <2>5. moves = 0 => ListOf(cell', live) /\ SameHeads(cell, cell')
    <3>1. cell' = [m EXCEPT ![WM] = w, ![w] = m[WM]]
      BY <2>2, <2>3
    <3>2. cell \in Links /\ live \in SUBSET Ids
      BY Names DEF WindowsInv, TypeOK, Links
    <3>3. moves = 0 => ListOf(cell, live)
      BY DEF WindowsInv, ListRight
    <3> QED BY <1>4, <2>1, <3>1, <3>2, <3>3, ListLowered
  <2>6. state' \in [Ids -> States] /\ visible' \in [Ids -> BOOLEAN]
    BY <2>3 DEF winVars, WindowsInv, TypeOK
  <2> QED BY <2>3, <2>4, <2>5, <2>6, RelistKeeps DEF winVars
<1> QED BY <1>1, <1>2, <1>3, <1>6, <1>7, <1>8, <1>9, <1>10, <1>11, <1>12, <1>13 DEF WMNext

-----------------------------------------------------------------------------
(* Virtual desktops.                                                       *)

\* vd_switch.
LEMMA SwitchKeeps ==
  ASSUME WindowsInv, NEW d \in InUse, VdSwitch(d)
  PROVE  WindowsInv'
<1> USE DEF WindowsInv, VdSwitch, wmVars, winVars
<1>1. d \in Slots /\ current \in Slots
  BY Names
<1>2. TypeOK'
  <2>1. shown' \in [Slots -> BOOLEAN]
    BY DEF TypeOK
  <2> QED BY <2>1 DEF TypeOK, InUse
<1>3. MarksRight' /\ OrdersRight' /\ ListRight' /\ CountRight'
  BY DEF MarksRight, OrdersRight, ListRight, NoneMoved, CountRight
<1>4. OneActive'
  <2>1. shown' = [shown EXCEPT ![current] = FALSE, ![d] = TRUE] /\ current' = d /\ shown \in [Slots -> BOOLEAN]
    BY DEF TypeOK
  <2>2. shown'[d] = TRUE /\ \A i \in Slots : i # d => (shown'[i] => shown[i] /\ i # current)
    BY <1>1, <2>1
  <2>3. InUse' = InUse /\ InUse \in SUBSET Slots /\ strayed' = strayed
    BY Names DEF InUse
  <2> QED BY <2>1, <2>2, <2>3 DEF OneActive
<1> QED BY <1>2, <1>3, <1>4

\* vd_create.
LEMMA VdCreateKeeps ==
  ASSUME WindowsInv, VdCreate
  PROVE  WindowsInv'
<1> USE DEF WindowsInv, VdCreate, winVars
<1>1. /\ num \in Slots /\ current \in Slots /\ current # num /\ num \in 1 .. Desktops
      /\ Desktops \in Nat /\ num < Desktops /\ current \in 0 .. num - 1
  BY Numbers DEF TypeOK, InUse, Slots
<1>2. cell \in Links /\ VD(num) \in Cells /\ VD(num) # WM /\ VD(num) \notin Ids
  BY <1>1, Heads DEF TypeOK, Links
<1>3. cell' \in Links
  BY <1>2 DEF Links
<1>4. TypeOK'
  <2>1. shown' \in [Slots -> BOOLEAN]
    BY DEF TypeOK
  <2>2. num' \in 1 .. Desktops /\ current' \in 0 .. num' - 1
    BY <1>1
  <2> QED BY <1>3, <2>1, <2>2 DEF TypeOK, InUse, Links
<1>5. MarksRight' /\ OrdersRight' /\ CountRight'
  BY DEF MarksRight, OrdersRight, CountRight
<1>6. ListRight'
  <2> SUFFICES ASSUME moves = 0 PROVE ListOf(cell', live) /\ NoneMoved'
    BY DEF ListRight
  <2>1. ListOf(cell, live) /\ NoneMoved
    BY DEF ListRight
  <2>2. cell[VD(num)] = NULL
    BY <1>1, <2>1 DEF NoneMoved
  <2>3. cell' = cell
    BY <1>2, <2>2 DEF Links
  <2> QED BY <2>1, <2>3 DEF NoneMoved
<1>7. OneActive'
  <2>1. shown'[current] = shown[current] /\ shown'[num] = FALSE
        /\ \A i \in Slots : i # num => shown'[i] = shown[i]
    BY <1>1 DEF TypeOK
  <2>2. \A i \in InUse' : i = num \/ (i \in InUse /\ i # num /\ i \in Slots)
    BY <1>1 DEF InUse, Slots
  <2>3. \A i \in InUse' : shown'[i] => i \in InUse /\ shown[i]
    BY <2>1, <2>2
  <2> QED BY <2>1, <2>3 DEF OneActive
<1> QED BY <1>4, <1>5, <1>6, <1>7

\* vd_close, of a desktop that is not the first.
LEMMA CloseKeeps ==
  ASSUME WindowsInv, NEW d \in InUse, VdClose(d)
  PROVE  WindowsInv'
<1> USE DEF WindowsInv, VdClose, winVars
<1>1. /\ num \in 2 .. Desktops /\ Desktops \in Nat /\ d \in 1 .. num - 1 /\ current \in 0 .. num - 1
      /\ d \in Slots /\ d \in Nat
  BY Numbers DEF TypeOK, InUse, Slots
<1>2. PICK a : a = CurrentAfter(num - 1)
  OBVIOUS
<1>3. a \in 0 .. num - 2 /\ a \in Slots
  BY <1>1, <1>2 DEF CurrentAfter, Slots
<1>4. cell \in Links
  BY DEF TypeOK, Links
<1>5. cell' \in Links
  <2>1. Appended(cell, d) \in Links
    BY <1>1, <1>4, AppendedType
  <2>2. num \in 1 .. Desktops
    BY <1>1
  <2> QED BY <1>1, <2>1, <2>2, ShiftedType
<1>6. PICK f : f = [i \in Slots |-> IF i \in d .. num - 2 THEN shown[i + 1] ELSE shown[i]]
  OBVIOUS
<1>7. f \in [Slots -> BOOLEAN]
  <2>1. \A i \in Slots : i \in d .. num - 2 => i + 1 \in Slots
    BY <1>1 DEF Slots
  <2>2. \A i \in Slots : (IF i \in d .. num - 2 THEN shown[i + 1] ELSE shown[i]) \in BOOLEAN
    BY <2>1 DEF TypeOK
  <2> QED BY <1>6, <2>2
<1>8. num' = num - 1 /\ current' = a /\ shown' = [f EXCEPT ![a] = TRUE]
  BY <1>2, <1>6 DEF Activated
<1>9. TypeOK'
  <2>1. shown' \in [Slots -> BOOLEAN]
    BY <1>7, <1>8
  <2>2. num' \in 1 .. Desktops /\ current' \in 0 .. num' - 1
    BY <1>1, <1>3, <1>8
  <2> QED BY <1>5, <2>1, <2>2 DEF TypeOK, InUse, Links
<1>10. MarksRight' /\ OrdersRight' /\ CountRight'
  BY DEF MarksRight, OrdersRight, CountRight
<1>11. ListRight'
  <2> SUFFICES ASSUME moves = 0 PROVE ListOf(cell', live) /\ NoneMoved'
    BY DEF ListRight
  <2>1. ListOf(cell, live) /\ NoneMoved
    BY DEF ListRight
  <2>2. Appended(cell, d) = cell
    BY <1>1, <2>1 DEF Appended, NoneMoved
  <2>3. \A c \in Cells : (\E i \in d .. num - 2 : c = VD(i)) => cell[c - 1] = cell[c]
    <3> SUFFICES ASSUME NEW i \in d .. num - 2 PROVE cell[VD(i) - 1] = cell[VD(i)]
      OBVIOUS
    <3>1. i \in Slots /\ i + 1 \in Slots /\ VD(i + 1) = VD(i) - 1
      BY <1>1 DEF Slots, VD
    <3> QED BY <2>1, <3>1 DEF NoneMoved
  <2>4. cell' = cell
    <3>1. cell' = [c \in Cells |-> IF \E i \in d .. num - 2 : c = VD(i) THEN cell[c - 1] ELSE cell[c]]
      BY <2>2 DEF ShiftedDown
    <3>2. \A c \in Cells : cell'[c] = cell[c]
      BY <2>3, <3>1
    <3>3. cell = [c \in Cells |-> cell[c]] /\ cell' = [c \in Cells |-> cell'[c]]
      BY <1>4, <1>5 DEF Links
    <3> QED BY <3>2, <3>3
  <2> QED BY <2>1, <2>4 DEF NoneMoved
<1>12. OneActive'
  <2>1. shown'[a] = TRUE /\ \A i \in Slots : i # a => shown'[i] = f[i]
    BY <1>3, <1>7, <1>8
  <2>2. ASSUME ~strayed', NEW i \in InUse', shown'[i], i # a
        PROVE  FALSE
    <3>0. strayed' = (strayed \/ d < current) /\ strayed \in BOOLEAN /\ (~(d < current) => current <= d)
      BY <1>1 DEF TypeOK, VdClose
    <3>1. ~strayed /\ current <= d
      BY <2>2, <3>0
    <3>2. i \in 0 .. num - 2 /\ i \in Slots /\ i \in Int
      BY <1>1, <1>8, <2>2 DEF InUse, Slots
    <3>3. f[i]
      BY <2>1, <2>2, <3>2
    <3>4. PICK j : j = IF i \in d .. num - 2 THEN i + 1 ELSE i
      OBVIOUS
    <3>5. shown[j] /\ j \in InUse
      BY <1>1, <1>6, <3>2, <3>3, <3>4 DEF InUse
    <3>6. j = current
      BY <3>1, <3>5 DEF OneActive
    <3>7. i = current /\ ~(current >= num - 1)
      BY <1>1, <3>1, <3>2, <3>4, <3>6
    <3> QED BY <1>2, <2>2, <3>7 DEF CurrentAfter
  <2> QED BY <1>8, <2>1, <2>2 DEF OneActive
<1> QED BY <1>9, <1>10, <1>11, <1>12

\* vd_move_window_to, to the current desktop or another.
LEMMA MoveKeeps ==
  ASSUME WindowsInv, NEW w \in user, NEW d \in InUse, VdMoveWindowTo(w, d)
  PROVE  WindowsInv'
<1> USE DEF WindowsInv
<1>1. /\ moves < MaxMoves /\ moves' = moves + 1
      /\ UNCHANGED <<lastId, count, live, user, z, marked, backed, area, saved, active>>
      /\ UNCHANGED <<num, current, shown, strayed>>
  BY DEF VdMoveWindowTo
<1>2. PICK m : m = MovedTo(cell, w, d)
  OBVIOUS
<1>3. \/ Enter(w, "NORMAL", TRUE) /\ cell' = Raised(m, w)
      \/ Enter(w, "HIDDEN", FALSE) /\ cell' = m
  BY <1>2, Zenon DEF VdMoveWindowTo
<1>4. cell \in Links /\ w \in Ids /\ d \in Slots /\ num \in Nat
  BY Names DEF TypeOK, Links
<1>5. cell' \in Links
  BY <1>2, <1>3, <1>4, MovedType, RaisedType
<1>6. moves \in Nat /\ MaxMoves \in Nat
  BY Numbers DEF TypeOK
<1>7. TypeOK'
  <2>1. state' \in [Ids -> States] /\ visible' \in [Ids -> BOOLEAN]
    BY <1>3 DEF Enter, TypeOK, States
  <2>2. moves' \in 0 .. MaxMoves
    BY <1>1, <1>6
  <2> QED BY <1>1, <1>5, <2>1, <2>2 DEF TypeOK, InUse, Links
<1>8. MarksRight' /\ OrdersRight' /\ CountRight' /\ OneActive'
  BY <1>1 DEF MarksRight, OrdersRight, CountRight, OneActive, InUse
<1>9. ListRight'
  BY <1>1, <1>6 DEF ListRight
<1> QED BY <1>7, <1>8, <1>9

\* The calls of kernel/virtual_desktop.c.
LEMMA VDKeeps == WindowsInv /\ VDNext => WindowsInv'
<1> SUFFICES ASSUME WindowsInv, VDNext PROVE WindowsInv'
  OBVIOUS
<1>1. ASSUME NEW d \in InUse, VdSwitch(d) \/ VdClose(d) PROVE WindowsInv'
  BY <1>1, SwitchKeeps, CloseKeeps
<1>2. CASE VdNext \/ VdPrev
  <2>1. num \in Nat \ {0} /\ current \in 0 .. num - 1
    BY Numbers DEF WindowsInv, TypeOK, InUse
  <2>2. PICK a, b : /\ a = IF current + 1 >= num THEN 0 ELSE current + 1
                    /\ b = IF current - 1 < 0 THEN num - 1 ELSE current - 1
    OBVIOUS
  <2>3. a \in InUse /\ b \in InUse
    BY <2>1, <2>2 DEF InUse
  <2>4. VdSwitch(a) \/ VdSwitch(b)
    BY <1>2, <2>2 DEF VdNext, VdPrev
  <2> QED BY <2>3, <2>4, SwitchKeeps
<1>3. CASE VdCreate
  BY <1>3, VdCreateKeeps
<1>4. ASSUME NEW w \in user, NEW d \in InUse, VdMoveWindowTo(w, d) PROVE WindowsInv'
  BY <1>4, MoveKeeps
<1>5. ASSUME NEW d \in InUse, VdMoveActiveWindowTo(d) PROVE WindowsInv'
  <2>1. active \in user /\ VdMoveWindowTo(active, d)
    BY <1>5 DEF VdMoveActiveWindowTo, WindowsInv, TypeOK
  <2> QED BY <2>1, MoveKeeps
<1> QED BY <1>1, <1>2, <1>3, <1>4, <1>5 DEF VDNext

\* The invariant of the windowing system.
THEOREM WindowsInvariant == Spec => []WindowsInv
<1>1. WindowsInv /\ [Next]_vars => WindowsInv'
  <2> SUFFICES ASSUME WindowsInv, [Next]_vars PROVE WindowsInv'
    OBVIOUS
  <2>1. CASE WMStep
    BY <2>1, WMKeeps DEF WMStep
  <2>2. CASE VDStep
    BY <2>2, VDKeeps DEF VDStep
  <2>3. CASE UNCHANGED vars
    <3>1. /\ UNCHANGED <<cell, lastId, count, live, user, z, marked, backed, active, vdVars>>
          /\ UNCHANGED <<state, visible, area, saved>>
      BY <2>3 DEF vars, wmVars, winVars, vdVars
    <3>2. /\ state' \in [Ids -> States] /\ visible' \in [Ids -> BOOLEAN]
          /\ area' \in [Ids -> SUBSET Screen] /\ saved' \in [Ids -> SUBSET Screen]
      BY <3>1 DEF WindowsInv, TypeOK
    <3> QED BY <3>1, <3>2, PaintKeeps
  <2> QED BY <2>1, <2>2, <2>3 DEF Next
<1> QED BY <1>1, InitKeeps, PTL DEF Spec

\* The window list is exact as long as no window has been moved to a desktop
\* (kernel/window.c 52-240).
THEOREM ListsConsistentCorrect == Spec => []ListsConsistent
<1>1. WindowsInv => ListsConsistent
  <2> SUFFICES ASSUME WindowsInv, moves = 0
               PROVE  Ends(cell, WM) /\ Listed = live /\ count = Cardinality(live)
    BY DEF ListsConsistent, ListExact, WindowsInv
  <2>1. PICK p, N : Chain(cell, WM, p, N) /\ live = {p[i] : i \in 1 .. N}
    BY DEF WindowsInv, ListRight, ListOf
  <2>2. Ends(cell, WM) /\ Members(cell, WM) = live
    BY <2>1, ChainEnds
  <2> QED BY <2>2 DEF Listed, WindowsInv, CountRight
<1> QED BY <1>1, WindowsInvariant, PTL

\* The title bar painted as active is the active window's (kernel/window.c 115, 240).
THEOREM ActiveMarkedCorrect == Spec => []ActiveMarked
<1>1. WindowsInv => ActiveMarked
  <2> SUFFICES ASSUME WindowsInv PROVE ActiveMarked
    OBVIOUS
  <2>1. live \in SUBSET Ids /\ active \in live \cup {NULL} /\ NULL \notin live
    BY Names, Numbers DEF WindowsInv, TypeOK
  <2> QED BY <2>1 DEF WindowsInv, MarksRight, ActiveMarked
<1> QED BY <1>1, WindowsInvariant, PTL

\* The current desktop is in use and marked active, and the only one until a desktop
\* before it was closed (kernel/virtual_desktop.c 97-124).
THEOREM DesktopsConsistentCorrect == Spec => []DesktopsConsistent
<1>1. WindowsInv => DesktopsConsistent
  BY DEF WindowsInv, DesktopsConsistent
<1> QED BY <1>1, WindowsInvariant, PTL

-----------------------------------------------------------------------------
(* Activation.                                                             *)

\* Only wm_set_active_window makes a window the active one.
LEMMA OnlyActivation ==
  ASSUME WindowsInv, [Next]_vars, NEW w \in user, active' = w, active # w
  PROVE  SetActiveWindow(w)
<1>0. w # NULL
  BY Names, Numbers DEF WindowsInv
<1>1. CASE WMStep
  <2>1. ASSUME NEW v, DestroyWindow(v) PROVE FALSE
    BY <1>0, <2>1 DEF DestroyWindow, ActiveAfter
  <2>2. ASSUME NEW v, SetActiveWindow(v) PROVE v = w
    BY <2>2 DEF SetActiveWindow
  <2>3. \/ \E r \in Rects, fb \in BOOLEAN : CreateUserWindow(r, fb)
        \/ CreateSessionDesktop
        \/ \E v : DestroyWindow(v)
        \/ \E v : SetActiveWindow(v)
        \/ active' = active
    BY <1>1 DEF WMStep, WMNext, ShowWindow, HideWindow, MinimizeWindow, Conceal, MaximizeWindow,
                RestoreWindow, PlaceWindow, RaiseWindow, LowerWindow
  <2>4. ~CreateSessionDesktop /\ \A r \in Rects, fb \in BOOLEAN : ~CreateUserWindow(r, fb)
    BY DEF CreateSessionDesktop, CreateUserWindow, CreateWindow
  <2> QED BY <2>1, <2>2, <2>3, <2>4
<1>2. CASE VDStep
  <2>1. active' = active
    BY <1>2 DEF VDStep, VDNext, VdSwitch, VdNext, VdPrev, VdCreate, VdClose, VdMoveWindowTo,
                VdMoveActiveWindowTo, wmVars
  <2> QED BY <2>1
<1>3. CASE UNCHANGED vars
  BY <1>3 DEF vars, wmVars
<1> QED BY <1>1, <1>2, <1>3 DEF Next

\* A window that becomes the active one is then the one a click on it hits
\* (kernel/window.c 240, 305, 360).
THEOREM ActivatedIsHitCorrect == Spec => ActivatedIsHit
<1>1. ASSUME WindowsInv, [Next]_vars, NEW w \in user,
             active' = w, active # w, moves = 0, Shown(w), NEW c \in area[w]
      PROVE  FindWindowAt(c)' = {w}
  <2>1. SetActiveWindow(w)
    BY <1>1, OnlyActivation
  <2>2. w \in live /\ w \in Ids /\ live \in SUBSET Ids /\ cell \in Links /\ ListOf(cell, live)
    BY <1>1, Names DEF WindowsInv, TypeOK, ListRight, Links
  <2>3. \A e \in Ids : ~IsHigher(z, e, w)
    BY <1>1, <2>2, NotHigher
  <2>4. LastIs(Raised(cell, w), live, w)
    BY <2>2, <2>3, ListRaised
  <2>5. cell' = Raised(cell, w) /\ state' = state /\ visible' = visible /\ area' = area
    BY <2>1 DEF SetActiveWindow
  <2>6. PICK n : n = cell'
    OBVIOUS
  <2>7. LastIs(n, live, w)
    BY <2>4, <2>5, <2>6
  <2>8. /\ w \in Members(n, WM)
        /\ \A v \in Members(n, WM) \ {w} :
             (CHOOSE k \in 1 .. MaxIds + 1 : Walk(n, WM)[k] = w) > (CHOOSE k \in 1 .. MaxIds + 1 : Walk(n, WM)[k] = v)
    BY <2>7, LastFound
  <2>9. Members(cell', WM) = Members(n, WM) /\ \A v : Place(v)' = CHOOSE k \in 1 .. MaxIds + 1 : Walk(n, WM)[k] = v
    BY <2>6, Zenon DEF Place
  <2>10. Shown(w)'
    BY <1>1, <2>5 DEF Shown
  <2>11. PICK S : S = {v \in Members(n, WM) : Shown(v)' /\ c \in area'[v]}
    OBVIOUS
  <2>12. w \in S /\ \A v \in S \ {w} : Above(w, v)'
    <3>1. w \in S
      BY <1>1, <2>5, <2>8, <2>10, <2>11
    <3>2. \A v \in Members(n, WM) \ {w} : Place(w)' > Place(v)'
      BY <2>8, <2>9, Zenon
    <3> QED BY <2>11, <3>1, <3>2 DEF Above
  <2>13. \A v \in S \ {w} : ~Above(v, w)'
    <3> TAKE v \in S \ {w}
    <3>1. Place(w)' > Place(v)'
      BY <2>12 DEF Above
    <3>2. Place(w)' \in Int /\ Place(v)' \in Int
      <4>1. ASSUME NEW u \in S PROVE Place(u)' \in Int
        <5>1. \E k \in 1 .. MaxIds + 1 : Walk(n, WM)[k] = u
          BY <2>11 DEF Members
        <5>2. Place(u)' \in 1 .. MaxIds + 1
          BY <2>9, <5>1, Zenon
        <5> QED BY <5>2
      <4> QED BY <2>12, <4>1
    <3> QED BY <3>1, <3>2 DEF Above
  <2>14. FindWindowAt(c)' = {u \in S : \A v \in S \ {u} : Above(u, v)'}
    BY <2>6, <2>11, Zenon DEF FindWindowAt, TopOf
  <2>15. {u \in S : \A v \in S \ {u} : Above(u, v)'} = {w}
    BY <2>12, <2>13
  <2> QED BY <2>14, <2>15
<1>2. WindowsInv /\ [Next]_vars =>
        [\A w \in user : (active' = w /\ active # w /\ moves = 0 /\ Shown(w)) =>
                         \A c \in area[w] : FindWindowAt(c)' = {w}]_vars
  BY <1>1
<1> QED BY <1>2, WindowsInvariant, PTL DEF ActivatedIsHit, Spec

-----------------------------------------------------------------------------
(* Closing a desktop, whose list may share its end with other lists.       *)

\* A list that ends is a chain.
LEMMA EndsChain ==
  ASSUME NEW n \in Links, NEW c \in Cells \ Ids, Ends(n, c)
  PROVE  \E p, N : Chain(n, c, p, N)
<1>0. MaxIds \in Nat
  BY Numbers
<1>1. PICK at : at = Walk(n, c)
  OBVIOUS
<1>2. /\ \A k \in 0 .. MaxIds + 1 : at[k] = IF k = 0 THEN c ELSE IF at[k - 1] = NULL THEN NULL ELSE n[at[k - 1]]
      /\ \A k \in 0 .. MaxIds + 1 : at[k] \in Cells \cup {NULL}
      /\ at[MaxIds + 1] = NULL
  <2>1. WalkIs(n, c, at)
    BY <1>1, WalkExists
  <2>2. at[MaxIds + 1] = NULL
    BY <1>1, Zenon DEF Ends
  <2>3. \A k \in 0 .. MaxIds + 1 : at[k] = IF k = 0 THEN c ELSE IF at[k - 1] = NULL THEN NULL ELSE n[at[k - 1]]
    BY <2>1 DEF WalkIs
  <2> QED BY <1>1, <2>2, <2>3, WalkCells
<1>3. PICK K \in 0 .. MaxIds + 1 : at[K] = NULL /\ \A j \in 0 .. MaxIds + 1 : j < K => at[j] # NULL
  <2> DEFINE S == {j \in 0 .. MaxIds + 1 : at[j] = NULL}
  <2>1. S \in SUBSET Nat /\ S # {}
    BY <1>0, <1>2
  <2>2. PICK K \in S : \A j \in S : K <= j
    BY <2>1, Least
  <2>3. \A j \in 0 .. MaxIds + 1 : j < K => at[j] # NULL
    BY <1>0, <2>2
  <2> QED BY <2>2, <2>3
<1>4. K # 0 /\ K \in Nat /\ K - 1 \in Nat
  <2>1. at[0] = c /\ c # NULL
    BY <1>0, <1>2, Numbers
  <2> QED BY <1>0, <1>3, <2>1
<1>5. \A i \in 0 .. K - 1 : /\ i \in 0 .. MaxIds + 1 /\ i + 1 \in 0 .. MaxIds + 1 /\ i + 1 # 0 /\ (i + 1) - 1 = i
                            /\ at[i] # NULL /\ at[i] \in Cells /\ at[i + 1] = n[at[i]]
  <2> TAKE i \in 0 .. K - 1
  <2>1. i \in 0 .. MaxIds + 1 /\ i + 1 \in 0 .. MaxIds + 1 /\ i + 1 # 0 /\ (i + 1) - 1 = i /\ i < K
    BY <1>0, <1>3, <1>4
  <2>2. at[i] # NULL /\ at[i] \in Cells
    BY <1>2, <1>3, <2>1
  <2>3. at[i + 1] = IF i + 1 = 0 THEN c ELSE IF at[(i + 1) - 1] = NULL THEN NULL ELSE n[at[(i + 1) - 1]]
    BY <1>2, <2>1
  <2> QED BY <2>1, <2>2, <2>3
\* Were a cell visited twice, what follows would repeat and never end.
<1>6. ASSUME NEW i \in 0 .. K - 1, NEW j \in 0 .. K - 1, i < j, at[i] = at[j] PROVE FALSE
  <2> DEFINE S == {t \in 0 .. K - j : at[i + t] # at[j + t]}
  <2>1. S = {}
    <3> SUFFICES ASSUME S # {} PROVE FALSE
      OBVIOUS
    <3>1. S \in SUBSET Nat
      OBVIOUS
    <3>2. PICK t \in S : \A u \in S : t <= u
      BY <3>1, Least
    <3>3. t \in 0 .. K - j /\ at[i + t] # at[j + t]
      BY <3>2
    <3>4. t # 0
      <4>1. i + 0 = i /\ j + 0 = j
        BY <1>4
      <4> QED BY <1>6, <3>3, <4>1
    <3>5. t - 1 \in 0 .. K - j /\ ~(t <= t - 1)
      BY <1>4, <3>3, <3>4
    <3>6. at[i + (t - 1)] = at[j + (t - 1)]
      BY <3>2, <3>5
    <3>7. /\ i + (t - 1) \in 0 .. K - 1 /\ j + (t - 1) \in 0 .. K - 1
          /\ (i + (t - 1)) + 1 = i + t /\ (j + (t - 1)) + 1 = j + t
      BY <1>4, <1>6, <3>3, <3>4
    <3>8. at[i + t] = n[at[i + (t - 1)]] /\ at[j + t] = n[at[j + (t - 1)]]
      BY <1>5, <3>7
    <3> QED BY <3>3, <3>6, <3>8
  <2>2. K - j \in 0 .. K - j /\ j + (K - j) = K /\ i + (K - j) \in 0 .. K - 1
    BY <1>4, <1>6
  <2>3. at[i + (K - j)] = at[K]
    BY <2>1, <2>2
  <2> QED BY <1>3, <1>5, <2>2, <2>3
<1>7. PICK p, N : p = [i \in 0 .. K - 1 |-> at[i]] /\ N = K - 1
  OBVIOUS
<1>8. Chain(n, c, p, N)
  <2>1. N \in Nat /\ p \in [0 .. N -> Cells] /\ p[0] = c
    BY <1>0, <1>2, <1>4, <1>5, <1>7
  <2>2. \A i \in 1 .. N : p[i] \in Ids
    <3> TAKE i \in 1 .. N
    <3>1. i - 1 \in 0 .. K - 1 /\ i \in 0 .. K - 1 /\ (i - 1) + 1 = i
      BY <1>4, <1>7
    <3>2. at[i] = n[at[i - 1]] /\ at[i - 1] \in Cells /\ at[i] # NULL
      BY <1>5, <3>1
    <3> QED BY <1>7, <3>1, <3>2 DEF Links
  <2>3. \A i, j \in 0 .. N : p[i] = p[j] => i = j
    <3> SUFFICES ASSUME NEW i \in 0 .. N, NEW j \in 0 .. N, p[i] = p[j], i # j PROVE FALSE
      OBVIOUS
    <3>1. i \in 0 .. K - 1 /\ j \in 0 .. K - 1 /\ (i < j \/ j < i)
      BY <1>4, <1>7
    <3> QED BY <1>6, <1>7, <3>1
  <2>4. \A i \in 0 .. N : i < N => n[p[i]] = p[i + 1]
    <3> TAKE i \in 0 .. N
    <3>1. i < N => i \in 0 .. K - 1 /\ i + 1 \in 0 .. K - 1
      BY <1>4, <1>7
    <3> QED BY <1>5, <1>7, <3>1
  <2>5. n[p[N]] = NULL
    <3>1. N \in 0 .. K - 1 /\ N + 1 = K
      BY <1>4, <1>7
    <3> QED BY <1>3, <1>5, <1>7, <3>1
  <2> QED BY <2>1, <2>2, <2>3, <2>4, <2>5 DEF Chain
<1> QED BY <1>8

\* Windows one after the other, from a head.
Path(n, c, p, k) ==
  /\ k \in Nat \ {0} /\ k <= MaxIds /\ p[0] = c
  /\ \A i \in 1 .. k : p[i] \in Ids
  /\ \A i \in 0 .. k - 1 : n[p[i]] = p[i + 1]

\* The walk follows a path, whether the list ends or loops further on.
LEMMA PathWalk ==
  ASSUME NEW n \in Links, NEW c \in Cells, NEW p, NEW k, Path(n, c, p, k)
  PROVE  p[k] \in Members(n, c)
<1>0. MaxIds \in Nat /\ k \in Nat /\ k >= 1 /\ k <= MaxIds /\ NULL \notin Ids /\ NULL \notin Cells
  BY Numbers DEF Path
<1>1. PICK at : at = Walk(n, c)
  OBVIOUS
<1>2. WalkIs(n, c, at)
  BY <1>1, WalkExists
<1>3. \A i \in 0 .. k : at[i] = p[i]
  <2> DEFINE S == {i \in 0 .. k : at[i] # p[i]}
  <2> SUFFICES ASSUME S # {} PROVE FALSE
    OBVIOUS
  <2>1. S \in SUBSET Nat
    BY <1>0
  <2>2. PICK m \in S : \A i \in S : m <= i
    BY <2>1, Least
  <2>3. m \in 0 .. k /\ at[m] # p[m] /\ m \in 0 .. MaxIds + 1
    BY <1>0, <2>2
  <2>4. at[m] = IF m = 0 THEN c ELSE IF at[m - 1] = NULL THEN NULL ELSE n[at[m - 1]]
    BY <1>2, <2>3 DEF WalkIs
  <2>5. m # 0
    BY <2>3, <2>4 DEF Path
  <2>6. m - 1 \in 0 .. k /\ ~(m <= m - 1) /\ m - 1 \in 0 .. k - 1 /\ (m - 1) + 1 = m /\ (m - 1 = 0 \/ m - 1 \in 1 .. k)
    BY <1>0, <2>3, <2>5
  <2>7. at[m - 1] = p[m - 1]
    BY <2>2, <2>6
  <2>8. p[m - 1] # NULL /\ n[p[m - 1]] = p[m]
    BY <1>0, <2>6 DEF Path
  <2> QED BY <2>3, <2>4, <2>5, <2>7, <2>8
<1>4. k \in 0 .. k /\ k \in 1 .. MaxIds + 1 /\ k \in 1 .. k
  BY <1>0
<1>5. p[k] # NULL
  BY <1>0, <1>4 DEF Path
<1> QED BY <1>1, <1>3, <1>4, <1>5 DEF Members

\* Windows that lead only to each other are all a list gets to.
LEMMA Closed ==
  ASSUME NEW n \in Links, NEW c \in Cells, NEW S \in SUBSET Ids,
         n[c] \in S \cup {NULL}, \A e \in S : n[e] \in S \cup {NULL}
  PROVE  Members(n, c) \in SUBSET S
<1>0. MaxIds \in Nat /\ NULL \notin Ids /\ NULL \notin Cells
  BY Numbers
<1>1. PICK at : at = Walk(n, c)
  OBVIOUS
<1>2. WalkIs(n, c, at)
  BY <1>1, WalkExists
<1>3. \A k \in 1 .. MaxIds + 1 : at[k] \in S \cup {NULL}
  <2> DEFINE R == {k \in 1 .. MaxIds + 1 : at[k] \notin S \cup {NULL}}
  <2> SUFFICES ASSUME R # {} PROVE FALSE
    OBVIOUS
  <2>1. R \in SUBSET Nat
    BY <1>0
  <2>2. PICK m \in R : \A i \in R : m <= i
    BY <2>1, Least
  <2>3. m \in 1 .. MaxIds + 1 /\ at[m] \notin S \cup {NULL} /\ m \in 0 .. MaxIds + 1 /\ m # 0
    BY <1>0, <2>2
  <2>4. at[m] = IF at[m - 1] = NULL THEN NULL ELSE n[at[m - 1]]
    BY <1>2, <2>3 DEF WalkIs
  <2>5. CASE m = 1
    <3>1. at[0] = c /\ m - 1 = 0
      BY <1>0, <1>2, <2>5 DEF WalkIs
    <3> QED BY <2>3, <2>4, <3>1
  <2>6. CASE m # 1
    <3>1. m - 1 \in 1 .. MaxIds + 1 /\ ~(m <= m - 1)
      BY <1>0, <2>3, <2>6
    <3>2. at[m - 1] \in S \cup {NULL}
      BY <2>2, <3>1
    <3> QED BY <2>3, <2>4, <3>2
  <2> QED BY <2>5, <2>6
<1> QED BY <1>1, <1>3 DEF Members

\* A window on a chain is at the end of a path to it.
LEMMA ChainPath ==
  ASSUME NEW n, NEW c, NEW p, NEW N, Chain(n, c, p, N), NEW k \in 1 .. N
  PROVE  Path(n, c, p, k)
<1>1. N \in 0 .. MaxIds /\ MaxIds \in Nat /\ k \in Nat \ {0} /\ k <= MaxIds
  BY ChainShort, Numbers
<1>2. \A i \in 1 .. k : i \in 1 .. N
  BY <1>1
<1>3. \A i \in 0 .. k - 1 : i \in 0 .. N /\ i < N
  BY <1>1
<1> QED BY <1>1, <1>2, <1>3 DEF Chain, Path

\* The windows of a chain lead to each other.
LEMMA ChainClosed ==
  ASSUME NEW n, NEW c, NEW p, NEW N, Chain(n, c, p, N), NEW S, S = {p[i] : i \in 1 .. N}
  PROVE  n[c] \in S \cup {NULL} /\ (\A e \in S : n[e] \in S \cup {NULL}) /\ S \in SUBSET Ids
<1>0. N \in Nat
  BY DEF Chain
<1>1. \A i \in 0 .. N : n[p[i]] \in S \cup {NULL}
  <2> TAKE i \in 0 .. N
  <2>1. i = N \/ (i < N /\ i + 1 \in 1 .. N)
    BY <1>0
  <2> QED BY <2>1 DEF Chain
<1>2. \A i \in 1 .. N : i \in 0 .. N
  BY <1>0
<1>3. n[c] \in S \cup {NULL}
  <2>1. 0 \in 0 .. N
    BY <1>0
  <2> QED BY <1>1, <2>1 DEF Chain
<1> QED BY <1>1, <1>2, <1>3 DEF Chain

\* The last window of a chain.
LEMMA ChainLast ==
  ASSUME NEW n, NEW c, NEW p, NEW N, Chain(n, c, p, N), N # 0
  PROVE  LastOf(n, c) = p[N]
<1>0. N \in 1 .. MaxIds /\ N \in Nat /\ MaxIds \in Nat /\ NULL \notin Cells
  BY ChainShort, Numbers
<1>1. PICK at : at = Walk(n, c)
  OBVIOUS
<1>2. \A k \in 0 .. MaxIds + 1 : at[k] = IF k <= N THEN p[k] ELSE NULL
  BY <1>1, ChainWalk
<1>3. at[N] # NULL /\ at[N + 1] = NULL /\ at[N] = p[N]
  <2>1. N \in 0 .. MaxIds + 1 /\ N + 1 \in 0 .. MaxIds + 1 /\ N <= N /\ ~(N + 1 <= N) /\ N \in 0 .. N
    BY <1>0
  <2> QED BY <1>0, <1>2, <2>1 DEF Chain
<1>4. \A k \in 1 .. MaxIds : at[k] # NULL /\ at[k + 1] = NULL => k = N
  <2> TAKE k \in 1 .. MaxIds
  <2>1. k \in 0 .. MaxIds + 1 /\ k + 1 \in 0 .. MaxIds + 1 /\ (k <= N \/ k > N) /\ (k <= N => k = N \/ (k + 1 <= N /\ k + 1 \in 0 .. N))
    BY <1>0
  <2>2. k > N => at[k] = NULL
    BY <1>0, <1>2, <2>1
  <2>3. k + 1 <= N /\ k + 1 \in 0 .. N => at[k + 1] # NULL
    BY <1>0, <1>2, <2>1 DEF Chain
  <2> QED BY <2>1, <2>2, <2>3
<1>5. PICK x : x = CHOOSE k \in 1 .. MaxIds : at[k] # NULL /\ at[k + 1] = NULL
  OBVIOUS
<1>6. x \in 1 .. MaxIds /\ at[x] # NULL /\ at[x + 1] = NULL
  BY <1>0, <1>3, <1>5, Zenon
<1>7. x = N
  BY <1>4, <1>6
<1>8. LastOf(n, c) = at[x]
  BY <1>1, <1>5, Zenon DEF LastOf
<1> QED BY <1>3, <1>7, <1>8

\* Where a window of another list is not of this one, no window before it is.
LEMMA NotBefore ==
  ASSUME NEW n, NEW c, NEW p, NEW N, Chain(n, c, p, N), NEW S, NULL \notin S,
         \A e \in S : n[e] \in S \cup {NULL}, NEW k \in 1 .. N, p[k] \notin S
  PROVE  \A i \in 1 .. k : p[i] \notin S
<1>0. N \in Nat /\ k \in Nat /\ NULL \notin Ids
  BY Numbers DEF Chain
<1> DEFINE R == {j \in 0 .. k - 1 : p[k - j] \in S}
<1>1. R = {}
  <2> SUFFICES ASSUME R # {} PROVE FALSE
    OBVIOUS
  <2>1. R \in SUBSET Nat
    BY <1>0
  <2>2. PICK m \in R : \A j \in R : m <= j
    BY <2>1, Least
  <2>3. m \in 0 .. k - 1 /\ p[k - m] \in S
    BY <2>2
  <2>4. m # 0
    <3>1. k - 0 = k
      BY <1>0
    <3> QED BY <2>3, <3>1
  <2>5. m - 1 \in 0 .. k - 1 /\ ~(m <= m - 1)
    BY <1>0, <2>3, <2>4
  <2>6. p[k - (m - 1)] \notin S
    BY <2>2, <2>5
  <2>7. k - m \in 0 .. N /\ k - m < N /\ (k - m) + 1 = k - (m - 1) /\ k - (m - 1) \in 1 .. N
    BY <1>0, <2>3, <2>4
  <2>8. n[p[k - m]] = p[k - (m - 1)] /\ p[k - (m - 1)] \in Ids
    BY <2>7 DEF Chain
  <2> QED BY <1>0, <2>3, <2>6, <2>8
<1> SUFFICES ASSUME NEW i \in 1 .. k, p[i] \in S PROVE FALSE
  OBVIOUS
<1>2. k - i \in 0 .. k - 1 /\ k - (k - i) = i
  BY <1>0
<1> QED BY <1>1, <1>2

\* Two chains without a common window are no longer than there are windows.
LEMMA TwoShort ==
  ASSUME NEW p, NEW M \in Nat, NEW q, NEW k \in Nat,
         \A i \in 1 .. M : p[i] \in Ids, \A i \in 1 .. k : q[i] \in Ids,
         \A i, j \in 1 .. M : p[i] = p[j] => i = j, \A i, j \in 1 .. k : q[i] = q[j] => i = j,
         \A i \in 1 .. M, j \in 1 .. k : p[i] # q[j]
  PROVE  M + k <= MaxIds
<1>1. MaxIds \in Nat /\ M + k \in Nat
  BY Numbers
<1>2. /\ IsFiniteSet(1 .. M + k) /\ Cardinality(1 .. M + k) = M + k
      /\ IsFiniteSet(1 .. MaxIds) /\ Cardinality(1 .. MaxIds) = MaxIds
  BY <1>1, FS_Interval
<1>3. PICK f : f = [i \in 1 .. M + k |-> IF i <= M THEN p[i] ELSE q[i - M]]
  OBVIOUS
<1>4. \A i \in 1 .. M + k : \/ i \in 1 .. M /\ f[i] = p[i]
                            \/ i - M \in 1 .. k /\ f[i] = q[i - M]
  <2> TAKE i \in 1 .. M + k
  <2>1. (i <= M /\ i \in 1 .. M) \/ (~(i <= M) /\ i - M \in 1 .. k)
    OBVIOUS
  <2> QED BY <1>3, <2>1
<1>5. f \in [1 .. M + k -> Ids]
  BY <1>3, <1>4
<1>6. \A i, j \in 1 .. M + k : f[i] = f[j] => i = j
  <2> SUFFICES ASSUME NEW i \in 1 .. M + k, NEW j \in 1 .. M + k, f[i] = f[j] PROVE i = j
    OBVIOUS
  <2>1. CASE i \in 1 .. M /\ j \in 1 .. M /\ f[i] = p[i] /\ f[j] = p[j]
    BY <2>1
  <2>2. CASE i - M \in 1 .. k /\ f[i] = q[i - M] /\ j - M \in 1 .. k /\ f[j] = q[j - M]
    <3>1. i - M = j - M
      BY <2>2
    <3> QED BY <3>1
  <2> QED BY <1>4, <2>1, <2>2
<1>7. f \in Injection(1 .. M + k, 1 .. MaxIds)
  BY <1>5, <1>6 DEF Injection, IsInjective, Ids
<1>8. Cardinality(1 .. M + k) <= Cardinality(1 .. MaxIds)
  BY <1>2, <1>7, FS_Injection
<1> QED BY <1>2, <1>8

\* A path whose windows are linked as before, from another head.
LEMMA Rehead ==
  ASSUME NEW n, NEW c, NEW p, NEW k, Path(n, c, p, k), NEW m, NEW h,
         m[h] = p[1], \A i \in 1 .. k - 1 : m[p[i]] = n[p[i]]
  PROVE  \E q : Path(m, h, q, k) /\ q[k] = p[k]
<1>0. k \in Nat \ {0}
  BY DEF Path
<1>1. PICK q : q = [i \in 0 .. k |-> IF i = 0 THEN h ELSE p[i]]
  OBVIOUS
<1>2. q[0] = h /\ \A i \in 1 .. k : q[i] = p[i]
  BY <1>0, <1>1
<1>3. \A i \in 0 .. k - 1 : m[q[i]] = q[i + 1]
  <2> TAKE i \in 0 .. k - 1
  <2>1. i = 0 \/ (i \in 1 .. k - 1 /\ i \in 1 .. k)
    BY <1>0
  <2>2. i + 1 \in 1 .. k /\ (i = 0 => i + 1 = 1)
    BY <1>0
  <2>3. CASE i = 0
    BY <1>2, <2>2, <2>3
  <2>4. CASE i \in 1 .. k - 1 /\ i \in 1 .. k
    <3>1. n[p[i]] = p[i + 1]
      BY DEF Path
    <3> QED BY <1>2, <2>2, <2>4, <3>1
  <2> QED BY <2>1, <2>3, <2>4
<1>4. k \in 1 .. k
  BY <1>0
<1>5. Path(m, h, q, k) /\ q[k] = p[k]
  BY <1>2, <1>3, <1>4 DEF Path
<1> QED BY <1>5

\* Closing the gap keeps the next fields and gives each other desktop its list.
LEMMA ShiftedHeads ==
  ASSUME NEW n \in Links, NEW m, NEW d, NEW K, num = K, K \in 2 .. Desktops, d \in 1 .. K - 1,
         m = ShiftedDown(n, d)
  PROVE  /\ \A e \in Ids : m[e] = n[e]
         /\ \A j \in 0 .. K - 1 : j # d => NewSlot(j, d) \in 0 .. K - 2 /\ m[VD(NewSlot(j, d))] = n[VD(j)]
         /\ \A i \in 0 .. K - 2 : \E j \in 0 .. K - 1 : j # d /\ m[VD(i)] = n[VD(j)]
<1>0. /\ Desktops \in Nat /\ K \in Int /\ d \in Int /\ K <= Desktops /\ Ids \in SUBSET Cells
      /\ d >= 1 /\ d <= K - 1
  BY Numbers
<1>1. \A i \in 0 .. K - 1 : i \in Slots
  BY <1>0 DEF Slots
<1>2. \A c \in Cells : m[c] = IF \E i \in d .. K - 2 : c = VD(i) THEN n[c - 1] ELSE n[c]
  BY DEF ShiftedDown
<1>3. \A e \in Ids : m[e] = n[e]
  <2> TAKE e \in Ids
  <2>1. \A i \in d .. K - 2 : e # VD(i)
    <3> TAKE i \in d .. K - 2
    <3>1. i \in Slots
      BY <1>0 DEF Slots
    <3> QED BY <3>1, Heads
  <2> QED BY <1>0, <1>2, <2>1
<1>4. \A i \in 0 .. K - 2 : m[VD(i)] = IF i < d THEN n[VD(i)] ELSE n[VD(i + 1)]
  <2> TAKE i \in 0 .. K - 2
  <2>1. i \in Slots /\ VD(i) \in Cells /\ VD(i) - 1 = VD(i + 1)
    <3>1. i \in Slots /\ i \in Int
      BY <1>0 DEF Slots
    <3> QED BY <3>1, Heads DEF VD
  <2>2. (\E x \in d .. K - 2 : VD(i) = VD(x)) <=> ~(i < d)
    <3>1. \A x \in d .. K - 2 : VD(i) = VD(x) => i = x
      BY <1>0 DEF VD
    <3> QED BY <1>0, <3>1
  <2> QED BY <1>2, <2>1, <2>2
<1>5. \A j \in 0 .. K - 1 : j # d => NewSlot(j, d) \in 0 .. K - 2 /\ m[VD(NewSlot(j, d))] = n[VD(j)]
  <2> SUFFICES ASSUME NEW j \in 0 .. K - 1, j # d
               PROVE  NewSlot(j, d) \in 0 .. K - 2 /\ m[VD(NewSlot(j, d))] = n[VD(j)]
    OBVIOUS
  <2>1. CASE j < d
    BY <1>0, <1>4, <2>1 DEF NewSlot
  <2>2. CASE ~(j < d)
    <3>1. j - 1 \in 0 .. K - 2 /\ ~(j - 1 < d) /\ (j - 1) + 1 = j
      BY <1>0, <2>2
    <3> QED BY <1>4, <2>2, <3>1 DEF NewSlot
  <2> QED BY <2>1, <2>2
<1>6. \A i \in 0 .. K - 2 : \E j \in 0 .. K - 1 : j # d /\ m[VD(i)] = n[VD(j)]
  <2> TAKE i \in 0 .. K - 2
  <2>1. CASE i < d
    <3>1. i \in 0 .. K - 1 /\ i # d
      BY <1>0, <2>1
    <3> QED BY <1>4, <2>1, <3>1
  <2>2. CASE ~(i < d)
    <3>1. i + 1 \in 0 .. K - 1 /\ i + 1 # d
      BY <1>0, <2>2
    <3> QED BY <1>4, <2>2, <3>1
  <2> QED BY <2>1, <2>2
<1> QED BY <1>3, <1>5, <1>6

\* The windows of the first K desktops.
OnLists(n, K) == UNION {Members(n, VD(j)) : j \in 0 .. K - 1}

\* Where the list of desktop d is appended to that of desktop 0, windows lead to
\* windows of the desktops as before, and every one is still found from a
\* desktop that stays.
LeadsOn(n, S, m, K) ==
  /\ \A e \in S : m[e] \in S \cup {NULL}
  /\ \A j \in 0 .. K - 1 : m[VD(j)] \in S \cup {NULL}
StillFound(S, m, K, d) ==
  \A e \in S : \E j \in 0 .. K - 1 : j # d /\ \E q, k : Path(m, VD(j), q, k) /\ q[k] = e

\* Every window of a desktop is still found after the join.
LEMMA AppendKeeps ==
  ASSUME NEW n \in Links, NEW K \in 2 .. Desktops, NEW d \in 1 .. K - 1,
         \A j \in 0 .. K - 1 : Ends(n, VD(j)), NEW S, S = OnLists(n, K),
         NEW m, m = Appended(n, d)
  PROVE  S \in SUBSET Ids /\ LeadsOn(n, S, m, K) /\ StillFound(S, m, K, d)
<1>0. /\ MaxIds \in Nat /\ K \in Nat /\ d \in Nat /\ d # 0 /\ 0 \in 0 .. K - 1 /\ d \in 0 .. K - 1
      /\ NULL \notin Ids /\ Ids \in SUBSET Cells /\ \A j \in 0 .. K - 1 : j \in Slots
  BY Numbers DEF Slots
<1>1. /\ \A j \in 0 .. K - 1 : VD(j) \in Cells \ Ids
      /\ \A i, j \in 0 .. K - 1 : VD(i) = VD(j) => i = j
  BY <1>0, Heads
<1>2. \A j \in 0 .. K - 1 : \E p, N : Chain(n, VD(j), p, N) /\ Members(n, VD(j)) = {p[i] : i \in 1 .. N}
  <2> TAKE j \in 0 .. K - 1
  <2>1. PICK p, N : Chain(n, VD(j), p, N)
    BY <1>1, EndsChain
  <2> QED BY <2>1, ChainEnds
<1>3. \A e : e \in S <=> \E j \in 0 .. K - 1 : e \in Members(n, VD(j))
  BY DEF OnLists
<1>4. /\ S \in SUBSET Ids
      /\ \A e \in S : n[e] \in S \cup {NULL}
      /\ \A j \in 0 .. K - 1 : n[VD(j)] \in S \cup {NULL}
  <2>1. ASSUME NEW j \in 0 .. K - 1
        PROVE  /\ n[VD(j)] \in Members(n, VD(j)) \cup {NULL} /\ Members(n, VD(j)) \in SUBSET Ids
               /\ \A e \in Members(n, VD(j)) : n[e] \in Members(n, VD(j)) \cup {NULL}
    <3>1. PICK p, N : Chain(n, VD(j), p, N) /\ Members(n, VD(j)) = {p[i] : i \in 1 .. N}
      BY <1>2
    <3>2. PICK T : T = {p[i] : i \in 1 .. N}
      OBVIOUS
    <3>3. n[VD(j)] \in T \cup {NULL} /\ (\A e \in T : n[e] \in T \cup {NULL}) /\ T \in SUBSET Ids
      <4>1. Chain(n, VD(j), p, N)
        BY <3>1
      <4> HIDE <3>1
      <4> QED BY <4>1, <3>2, ChainClosed
    <3> QED BY <3>1, <3>2, <3>3, Zenon
  <2> QED BY <1>3, <2>1
<1>5. ASSUME NEW e \in S
      PROVE  \E j \in 0 .. K - 1 : \E p, k : Path(n, VD(j), p, k) /\ p[k] = e
  <2>1. PICK j \in 0 .. K - 1 : e \in Members(n, VD(j))
    BY <1>3
  <2>2. PICK p, N : Chain(n, VD(j), p, N) /\ Members(n, VD(j)) = {p[i] : i \in 1 .. N}
    BY <1>2
  <2>3. PICK k \in 1 .. N : p[k] = e
    BY <2>1, <2>2
  <2> QED BY <2>2, <2>3, ChainPath
<1>6. CASE n[VD(d)] = NULL
  <2>1. m = n
    BY <1>6 DEF Appended
  <2>2. StillFound(S, m, K, d)
    <3> SUFFICES ASSUME NEW e \in S
                 PROVE  \E j \in 0 .. K - 1 : j # d /\ \E q, k : Path(n, VD(j), q, k) /\ q[k] = e
      BY <2>1 DEF StillFound
    <3>1. PICK j \in 0 .. K - 1 : \E p, k : Path(n, VD(j), p, k) /\ p[k] = e
      BY <1>5
    <3>2. j # d
      <4>1. ASSUME NEW p, NEW k, Path(n, VD(d), p, k) PROVE FALSE
        <5>1. k \in Nat \ {0} /\ 0 \in 0 .. k - 1 /\ 1 \in 1 .. k
          BY <4>1 DEF Path
        <5>2. n[p[0]] = p[0 + 1] /\ p[0] = VD(d) /\ p[1] \in Ids
          BY <4>1, <5>1 DEF Path
        <5> QED BY <1>0, <1>6, <5>2
      <4> QED BY <3>1, <4>1
    <3> QED BY <3>1, <3>2
  <2> QED BY <1>4, <2>1, <2>2 DEF LeadsOn
<1>7. CASE n[VD(d)] # NULL
  <2>1. PICK p, M : Chain(n, VD(d), p, M) /\ Members(n, VD(d)) = {p[i] : i \in 1 .. M}
    BY <1>0, <1>2
  <2>2. M \in Nat /\ M # 0 /\ M \in 1 .. M /\ M \in 0 .. M
    BY <1>7, <2>1 DEF Chain
  <2>3. PICK T : T = {p[i] : i \in 1 .. M}
    OBVIOUS
  <2>4. T \in SUBSET Ids /\ n[VD(d)] \in T /\ T \in SUBSET S /\ \A e \in T : n[e] \in T \cup {NULL}
    <3>1. T \in SUBSET Ids /\ n[VD(d)] \in T \cup {NULL} /\ \A e \in T : n[e] \in T \cup {NULL}
      <4>1. Chain(n, VD(d), p, M)
        BY <2>1
      <4> HIDE <2>1
      <4> QED BY <4>1, <2>3, ChainClosed
    <3>2. n[VD(d)] \in T
      BY <1>7, <3>1
    <3>3. T = Members(n, VD(d))
      BY <2>1, <2>3
    <3>4. T \in SUBSET S
      BY <1>0, <1>3, <3>3
    <3> QED BY <3>1, <3>2, <3>4
  <2>5. PICK a, b, h, i, g : a = p[M] /\ b = n[VD(0)] /\ h = VD(0) /\ g = n[VD(d)] /\ i = VD(d)
    OBVIOUS
  <2>6. m = [n EXCEPT ![a] = b, ![h] = g, ![i] = NULL]
    <3>1. LastOf(n, VD(d)) = a
      BY <2>1, <2>2, <2>5, ChainLast
    <3> QED BY <1>7, <2>5, <3>1, Zenon DEF Appended
  <2>7. a \in Ids /\ a \in T /\ n[a] = NULL /\ h \in Cells \ Ids /\ i \in Cells \ Ids /\ h # i /\ g = p[1]
    <3>1. a \in Ids /\ a \in T /\ n[a] = NULL /\ g = p[1]
      <4>1. 0 \in 0 .. M /\ 0 < M /\ 0 + 1 = 1
        BY <2>2
      <4> QED BY <2>1, <2>2, <2>3, <2>5, <4>1 DEF Chain
    <3> QED BY <1>0, <1>1, <2>5, <3>1
  <2>8. /\ m[a] = b /\ m[h] = g /\ m[i] = NULL
        /\ \A e \in Cells : e # a /\ e # h /\ e # i => m[e] = n[e]
    BY <1>0, <2>6, <2>7 DEF Links
  <2>9. LeadsOn(n, S, m, K)
    <3>1. b \in S \cup {NULL} /\ g \in S
      BY <1>0, <1>4, <2>4, <2>5
    <3>2. \A e \in S : m[e] \in S \cup {NULL}
      <4> TAKE e \in S
      <4>1. e \in Cells /\ e # h /\ e # i
        BY <1>0, <1>4, <2>7
      <4> QED BY <1>4, <2>8, <3>1, <4>1
    <3>3. \A j \in 0 .. K - 1 : m[VD(j)] \in S \cup {NULL}
      <4> TAKE j \in 0 .. K - 1
      <4>1. VD(j) \in Cells /\ VD(j) # a
        BY <1>1, <2>7
      <4> QED BY <1>4, <2>8, <3>1, <4>1
    <3> QED BY <3>2, <3>3 DEF LeadsOn
  <2>10. ASSUME NEW e \in T
         PROVE  \E q, k : Path(m, VD(0), q, k) /\ q[k] = e
    <3>1. PICK k \in 1 .. M : e = p[k]
      BY <2>3
    <3>2. Path(n, VD(d), p, k)
      BY <2>1, <3>1, ChainPath
    <3>3. \A x \in 1 .. k - 1 : m[p[x]] = n[p[x]]
      <4> TAKE x \in 1 .. k - 1
      <4>1. x \in 1 .. M /\ x \in 0 .. M /\ x # M
        BY <2>2, <3>1
      <4>2. p[x] # p[M] /\ p[x] \in Ids
        BY <2>1, <2>2, <4>1 DEF Chain
      <4> QED BY <1>0, <2>5, <2>7, <2>8, <4>2
    <3>4. m[VD(0)] = p[1]
      BY <2>5, <2>7, <2>8
    <3> QED BY <3>1, <3>2, <3>3, <3>4, Rehead
  <2>11. ASSUME NEW j \in 0 .. K - 1, j # d, j # 0, NEW r, NEW k, Path(n, VD(j), r, k)
         PROVE  \E q : Path(m, VD(j), q, k) /\ q[k] = r[k]
    <3>1. k \in Nat
      BY <2>11 DEF Path
    <3>2. m[VD(j)] = r[1]
      <4>1. VD(j) # h /\ VD(j) # i /\ VD(j) # a /\ VD(j) \in Cells
        BY <1>0, <1>1, <2>5, <2>7, <2>11
      <4>2. 0 \in 0 .. k - 1 /\ 0 + 1 = 1
        BY <2>11 DEF Path
      <4>3. n[VD(j)] = r[1]
        BY <2>11, <4>2 DEF Path
      <4> QED BY <2>8, <4>1, <4>3
    <3>3. \A x \in 1 .. k - 1 : m[r[x]] = n[r[x]]
      <4> TAKE x \in 1 .. k - 1
      <4>1. x \in 1 .. k /\ x \in 0 .. k - 1 /\ x + 1 \in 1 .. k
        BY <3>1
      <4>2. r[x] \in Ids /\ n[r[x]] # NULL
        BY <1>0, <2>11, <4>1 DEF Path
      <4> QED BY <1>0, <2>7, <2>8, <4>2
    <3> QED BY <2>11, <3>2, <3>3, Rehead
  <2>12. ASSUME NEW e \in Members(n, VD(0)), e \notin T
         PROVE  \E q, k : Path(m, VD(0), q, k) /\ q[k] = e
    <3>1. PICK r, N : Chain(n, VD(0), r, N) /\ Members(n, VD(0)) = {r[x] : x \in 1 .. N}
      BY <1>0, <1>2
    <3>2. PICK k \in 1 .. N : e = r[k]
      BY <2>12, <3>1
    <3>3. N \in Nat /\ k \in Nat /\ k >= 1 /\ \A x \in 1 .. k : x \in 1 .. N /\ x \in 0 .. N
      BY <3>1, <3>2 DEF Chain
    <3>4. \A x \in 1 .. k : r[x] \notin T
      BY <1>0, <2>4, <2>12, <3>1, <3>2, NotBefore
    <3>5. /\ \A x \in 1 .. M : p[x] \in Ids /\ p[x] \in T
          /\ \A x, y \in 1 .. M : p[x] = p[y] => x = y
          /\ \A x \in 1 .. M : x < M => n[p[x]] = p[x + 1]
      <4>1. \A x \in 1 .. M : x \in 0 .. M
        BY <2>2
      <4> QED BY <2>1, <2>3, <4>1 DEF Chain
    <3>6. /\ \A x \in 1 .. k : r[x] \in Ids
          /\ \A x, y \in 1 .. k : r[x] = r[y] => x = y
          /\ \A x \in 1 .. k : x < k => n[r[x]] = r[x + 1]
          /\ n[VD(0)] = r[1]
      <4>1. \A x \in 1 .. k : x < k => x < N
        BY <3>3
      <4>2. 0 \in 0 .. N /\ 0 < N /\ 0 + 1 = 1
        BY <3>2, <3>3
      <4> QED BY <3>1, <3>3, <4>1, <4>2 DEF Chain
    <3>7. M + k <= MaxIds
      <4>1. \A x \in 1 .. M, y \in 1 .. k : p[x] # r[y]
        BY <3>4, <3>5
      <4>2. /\ M \in Nat /\ k \in Nat /\ (\A x \in 1 .. M : p[x] \in Ids) /\ \A x \in 1 .. k : r[x] \in Ids
            /\ (\A x, y \in 1 .. M : p[x] = p[y] => x = y) /\ \A x, y \in 1 .. k : r[x] = r[y] => x = y
        BY <2>2, <3>3, <3>5, <3>6
      <4> QED BY <4>1, <4>2, TwoShort, Zenon
    <3>8. PICK q : q = [x \in 0 .. M + k |-> IF x = 0 THEN h ELSE IF x <= M THEN p[x] ELSE r[x - M]]
      OBVIOUS
    <3>9. /\ q[0] = h /\ \A x \in 1 .. M : q[x] = p[x]
          /\ \A x \in M + 1 .. M + k : x - M \in 1 .. k /\ q[x] = r[x - M]
      <4>1. \A x \in 1 .. M : x \in 0 .. M + k /\ x # 0 /\ x <= M
        BY <2>2, <3>3
      <4>2. \A x \in M + 1 .. M + k : x \in 0 .. M + k /\ x # 0 /\ ~(x <= M) /\ x - M \in 1 .. k
        BY <2>2, <3>3
      <4>3. 0 \in 0 .. M + k
        BY <2>2, <3>3
      <4> QED BY <3>8, <4>1, <4>2, <4>3
    <3>10. \A x \in 0 .. M + k - 1 : m[q[x]] = q[x + 1]
      <4> TAKE x \in 0 .. M + k - 1
      <4>1. x = 0 \/ (x \in 1 .. M /\ x < M) \/ x = M \/ (x \in M + 1 .. M + k /\ x - M < k)
        BY <2>2, <3>3
      <4>2. CASE x = 0
        <5>1. x + 1 \in 1 .. M /\ x + 1 = 1
          BY <2>2, <4>2
        <5> QED BY <2>7, <2>8, <3>9, <4>2, <5>1
      <4>3. CASE x \in 1 .. M /\ x < M
        <5>1. x + 1 \in 1 .. M
          BY <2>2, <4>3
        <5>2. p[x] # a /\ p[x] \in Ids /\ n[p[x]] = p[x + 1]
          BY <2>2, <2>5, <3>5, <4>3
        <5>3. m[p[x]] = n[p[x]]
          BY <1>0, <2>7, <2>8, <5>2
        <5> QED BY <3>9, <4>3, <5>1, <5>2, <5>3
      <4>4. CASE x = M
        <5>1. x + 1 \in M + 1 .. M + k /\ (x + 1) - M = 1 /\ x \in 1 .. M
          BY <2>2, <3>3, <4>4
        <5>2. q[x] = a /\ q[x + 1] = r[1]
          BY <2>5, <3>9, <4>4, <5>1
        <5> QED BY <2>5, <2>8, <3>6, <5>2
      <4>5. CASE x \in M + 1 .. M + k /\ x - M < k
        <5>1. x + 1 \in M + 1 .. M + k /\ (x + 1) - M = (x - M) + 1 /\ x - M \in 1 .. k
          BY <2>2, <3>3, <4>5
        <5>2. q[x] = r[x - M] /\ q[x + 1] = r[(x - M) + 1]
          BY <3>9, <4>5, <5>1
        <5>3. r[x - M] # a /\ r[x - M] \in Ids /\ n[r[x - M]] = r[(x - M) + 1]
          BY <2>7, <3>4, <3>6, <4>5, <5>1
        <5>4. m[r[x - M]] = n[r[x - M]]
          BY <1>0, <2>7, <2>8, <5>3
        <5> QED BY <5>2, <5>3, <5>4
      <4> QED BY <4>1, <4>2, <4>3, <4>4, <4>5
    <3>11. \A x \in 1 .. M + k : q[x] \in Ids
      <4> TAKE x \in 1 .. M + k
      <4>1. x \in 1 .. M \/ x \in M + 1 .. M + k
        BY <2>2, <3>3
      <4> QED BY <3>5, <3>6, <3>9, <4>1
    <3>12. Path(m, VD(0), q, M + k)
      <4>1. M + k \in Nat \ {0} /\ (M + k) - 1 = M + k - 1
        BY <2>2, <3>3
      <4> QED BY <2>5, <3>7, <3>9, <3>10, <3>11, <4>1 DEF Path
    <3>13. q[M + k] = e
      <4>1. M + k \in M + 1 .. M + k /\ (M + k) - M = k
        BY <2>2, <3>3
      <4> QED BY <3>2, <3>9, <4>1
    <3> QED BY <3>12, <3>13
  <2>13. StillFound(S, m, K, d)
    <3> SUFFICES ASSUME NEW e \in S
                 PROVE  \E j \in 0 .. K - 1 : j # d /\ \E q, k : Path(m, VD(j), q, k) /\ q[k] = e
      BY DEF StillFound
    <3>1. CASE e \in T
      BY <1>0, <2>10, <3>1
    <3>2. CASE e \notin T /\ e \in Members(n, VD(0))
      BY <1>0, <2>12, <3>2
    <3>3. CASE e \notin T /\ e \notin Members(n, VD(0))
      <4>1. PICK j \in 0 .. K - 1 : e \in Members(n, VD(j))
        BY <1>3
      <4>2. j # 0 /\ j # d
        BY <2>1, <2>3, <3>3, <4>1
      <4>3. PICK r, N : Chain(n, VD(j), r, N) /\ Members(n, VD(j)) = {r[x] : x \in 1 .. N}
        BY <1>2
      <4>4. PICK k \in 1 .. N : r[k] = e
        BY <4>1, <4>3
      <4>5. Path(n, VD(j), r, k)
        BY <4>3, ChainPath
      <4> QED BY <2>11, <4>2, <4>4, <4>5
    <3> QED BY <3>1, <3>2, <3>3
  <2> QED BY <1>4, <2>9, <2>13
<1> QED BY <1>6, <1>7

\* vd_close loses no window of the desktops, even where lists have run together.
LEMMA OneCloseLosesNone ==
  ASSUME WindowsInv, ListsEnd, NEW d \in InUse, VdClose(d)
  PROVE  OnDesktops' = OnDesktops
<1>1. PICK n, K, S, e, m : /\ n = cell /\ K = num /\ S = OnLists(n, K)
                           /\ e = Appended(n, d) /\ m = cell'
  OBVIOUS
<1>2. n \in Links /\ K \in 2 .. Desktops /\ d \in 1 .. K - 1 /\ Desktops \in Nat /\ num = K /\ num' = K - 1
      /\ m = ShiftedDown(e, d) /\ d \in Slots
  BY <1>1, Numbers DEF WindowsInv, TypeOK, Links, VdClose, InUse, Slots
<1>3. \A j \in 0 .. K - 1 : Ends(n, VD(j))
  BY <1>1 DEF ListsEnd, InUse
<1>4. S \in SUBSET Ids /\ LeadsOn(n, S, e, K) /\ StillFound(S, e, K, d)
  BY <1>1, <1>2, <1>3, AppendKeeps
<1>5. e \in Links
  BY <1>1, <1>2, AppendedType
<1>6. /\ \A x \in Ids : m[x] = e[x]
      /\ \A j \in 0 .. K - 1 : j # d => NewSlot(j, d) \in 0 .. K - 2 /\ m[VD(NewSlot(j, d))] = e[VD(j)]
      /\ \A i \in 0 .. K - 2 : \E j \in 0 .. K - 1 : j # d /\ m[VD(i)] = e[VD(j)]
  BY <1>2, <1>5, ShiftedHeads
<1>7. m \in Links
  <2>1. d \in Nat /\ num \in 1 .. Desktops
    BY <1>2
  <2> QED BY <1>2, <1>5, <2>1, ShiftedType
<1>8. \A i \in 0 .. K - 2 : i \in Slots /\ VD(i) \in Cells
  <2>1. \A i \in 0 .. K - 2 : i \in Slots
    BY <1>2 DEF Slots
  <2> QED BY <2>1, Heads
<1>9. \A i \in 0 .. K - 2 : Members(m, VD(i)) \in SUBSET S
  <2> TAKE i \in 0 .. K - 2
  <2>1. \A x \in S : m[x] \in S \cup {NULL}
    BY <1>4, <1>6 DEF LeadsOn
  <2>2. m[VD(i)] \in S \cup {NULL}
    BY <1>4, <1>6 DEF LeadsOn
  <2> QED BY <1>4, <1>7, <1>8, <2>1, <2>2, Closed
<1>10. \A x \in S : \E i \in 0 .. K - 2 : x \in Members(m, VD(i))
  <2> TAKE x \in S
  <2>1. PICK j \in 0 .. K - 1 : j # d /\ \E q, k : Path(e, VD(j), q, k) /\ q[k] = x
    BY <1>4 DEF StillFound
  <2>2. PICK q, k : Path(e, VD(j), q, k) /\ q[k] = x
    BY <2>1
  <2>3. PICK i \in 0 .. K - 2 : i = NewSlot(j, d) /\ m[VD(i)] = e[VD(j)]
    BY <1>6, <2>1
  <2>4. e[VD(j)] = q[1] /\ k \in Nat \ {0}
    <3>1. 0 \in 0 .. k - 1 /\ 0 + 1 = 1
      BY <2>2 DEF Path
    <3> QED BY <2>2, <3>1 DEF Path
  <2>5. \A y \in 1 .. k - 1 : m[q[y]] = e[q[y]]
    <3>1. \A y \in 1 .. k - 1 : q[y] \in Ids
      BY <2>2, <2>4 DEF Path
    <3> QED BY <1>6, <3>1
  <2>6. PICK h : h = VD(i)
    OBVIOUS
  <2>7. PICK r : Path(m, h, r, k) /\ r[k] = q[k]
    <3>1. m[h] = q[1]
      BY <2>3, <2>4, <2>6
    <3> QED BY <2>2, <2>5, <3>1, Rehead
  <2>8. r[k] \in Members(m, h)
    BY <1>7, <1>8, <2>6, <2>7, PathWalk
  <2> QED BY <2>2, <2>6, <2>7, <2>8
<1>11. OnDesktops = S
  BY <1>1, Zenon DEF OnDesktops, OnLists, InUse
<1>12. OnDesktops' = UNION {Members(m, VD(i)) : i \in 0 .. K - 2}
  <2>1. (K - 1) - 1 = K - 2
    BY <1>2
  <2>2. OnDesktops' = UNION {Members(m, VD(i)) : i \in 0 .. num' - 1}
    BY <1>1, Zenon DEF OnDesktops, InUse
  <2> QED BY <1>2, <2>1, <2>2
<1>13. UNION {Members(m, VD(i)) : i \in 0 .. K - 2} = S
  BY <1>9, <1>10
<1> QED BY <1>11, <1>12, <1>13

\* Closing a desktop loses none of the windows moved to it, to desktop 0 or to
\* the desktops behind it (kernel/virtual_desktop.c 97-135).
THEOREM CloseLosesNoneCorrect == Spec => CloseLosesNone
<1>1. ASSUME WindowsInv, [Next]_vars, num' < num PROVE OnDesktops' = OnDesktops
  <2>1. num \in Nat
    BY <1>1, Names DEF WindowsInv
  <2>2. num' # num
    BY <1>1, <2>1
  <2>3. ListsEnd /\ VDNext
    BY <1>1, <2>2 DEF Next, WMStep, VDStep, vars, vdVars
  <2>4. ASSUME NEW d \in InUse, VdClose(d) PROVE OnDesktops' = OnDesktops
    BY <1>1, <2>3, <2>4, OneCloseLosesNone
  <2>5. ~VdCreate
    BY <1>1, <2>1 DEF VdCreate
  <2>6. \E d \in InUse : VdClose(d)
    BY <2>2, <2>3, <2>5 DEF VDNext, VdSwitch, VdNext, VdPrev, VdMoveWindowTo, VdMoveActiveWindowTo
  <2> QED BY <2>4, <2>6
<1>2. WindowsInv /\ [Next]_vars => [num' < num => OnDesktops' = OnDesktops]_vars
  BY <1>1
<1> QED BY <1>2, WindowsInvariant, PTL DEF CloseLosesNone, Spec

\* Joining a list to that of desktop 0 changes the two heads and the end of the
\* first list, no other next field.
LEMMA AppendTouches ==
  ASSUME NEW n \in Links, NEW K \in 2 .. Desktops, NEW d \in 1 .. K - 1, Ends(n, VD(d)),
         NEW m, m = Appended(n, d), NEW e \in Cells, e # VD(0), e # VD(d),
         e \in Ids => (e \in Members(n, VD(d)) => n[e] # NULL)
  PROVE  m[e] = n[e]
<1>0. d \in Slots /\ VD(d) \in Cells \ Ids /\ NULL \notin Ids
  <2>1. d \in Slots
    BY Numbers DEF Slots
  <2> QED BY <2>1, Heads, Numbers
<1>1. CASE n[VD(d)] = NULL
  BY <1>1 DEF Appended
<1>2. CASE n[VD(d)] # NULL
  <2>1. PICK p, M : Chain(n, VD(d), p, M)
    BY <1>0, EndsChain
  <2>2. Members(n, VD(d)) = {p[i] : i \in 1 .. M}
    BY <2>1, ChainEnds
  <2>3. M \in Nat /\ M # 0 /\ M \in 1 .. M /\ M \in 0 .. M
    BY <1>2, <2>1 DEF Chain
  <2>4. PICK a : a = p[M]
    OBVIOUS
  <2>5. a \in Ids /\ a \in Members(n, VD(d)) /\ n[a] = NULL
    BY <2>1, <2>2, <2>3, <2>4 DEF Chain
  <2>6. e # a
    BY <2>5
  <2>7. LastOf(n, VD(d)) = a
    BY <2>1, <2>3, <2>4, ChainLast
  <2>8. m = [n EXCEPT ![a] = n[VD(0)], ![VD(0)] = n[VD(d)], ![VD(d)] = NULL]
    BY <1>2, <2>7, Zenon DEF Appended
  <2> QED BY <2>6, <2>8 DEF Links
<1> QED BY <1>1, <1>2

\* A desktop that is left when one is closed has all its windows under its new
\* number, and no others where it shares none with the closed one.
LEMMA CloseMovesList ==
  ASSUME WindowsInv, ListsEnd, NEW d \in InUse, VdClose(d), NEW j \in InUse \ {0, d},
         NEW B, B = Members(cell, VD(j)), NEW A, A = Members(cell', VD(NewSlot(j, d)))
  PROVE  B \subseteq A /\ (B \cap Members(cell, VD(d)) = {} => A = B)
<1>1. PICK n, K, e, m, c, h : /\ n = cell /\ K = num /\ e = Appended(n, d) /\ m = cell'
                              /\ c = VD(j) /\ h = VD(NewSlot(j, d))
  OBVIOUS
<1>2. n \in Links /\ K \in 2 .. Desktops /\ d \in 1 .. K - 1 /\ Desktops \in Nat /\ num = K
      /\ m = ShiftedDown(e, d) /\ d \in Slots /\ j \in 0 .. K - 1 /\ j \in Slots /\ 0 \in Slots /\ j # 0 /\ j # d
  BY <1>1, Numbers DEF WindowsInv, TypeOK, Links, VdClose, InUse, Slots
<1>3. Ends(n, VD(d)) /\ Ends(n, c)
  BY <1>1 DEF ListsEnd
<1>4. e \in Links
  BY <1>1, <1>2, AppendedType
<1>5. (\A x \in Ids : m[x] = e[x]) /\ NewSlot(j, d) \in 0 .. K - 2 /\ m[h] = e[c]
  BY <1>1, <1>2, <1>4, ShiftedHeads
<1>6. m \in Links
  <2>1. d \in Nat /\ num \in 1 .. Desktops
    BY <1>2
  <2> QED BY <1>2, <1>4, <2>1, ShiftedType
<1>7. /\ c \in Cells \ Ids /\ c # VD(0) /\ c # VD(d) /\ h \in Cells
      /\ Ids \in SUBSET Cells /\ NULL \notin Ids /\ \A x \in Ids : x # VD(0) /\ x # VD(d)
  <2>1. NewSlot(j, d) \in Slots
    BY <1>2, <1>5 DEF Slots
  <2>2. c \in Cells \ Ids /\ VD(0) \in Cells \ Ids /\ VD(d) \in Cells \ Ids /\ h \in Cells
    BY <1>1, <1>2, <2>1, Heads
  <2>3. c # VD(0) /\ c # VD(d)
    BY <1>1, <1>2, Heads
  <2> QED BY <2>2, <2>3, Numbers
<1>8. \A x \in Ids : (x \in Members(n, VD(d)) => n[x] # NULL) => m[x] = n[x]
  <2> TAKE x \in Ids
  <2>1. (x \in Members(n, VD(d)) => n[x] # NULL) => e[x] = n[x]
    BY <1>1, <1>2, <1>3, <1>7, AppendTouches
  <2> QED BY <1>5, <2>1
<1>9. m[h] = n[c]
  <2>1. c \in Cells /\ c \notin Ids
    BY <1>7
  <2>2. e[c] = n[c]
    BY <1>1, <1>2, <1>3, <1>7, <2>1, AppendTouches
  <2> QED BY <1>5, <2>2
<1>10. PICK p, N : Chain(n, c, p, N) /\ Members(n, c) = {p[i] : i \in 1 .. N}
  <2>1. PICK p, N : Chain(n, c, p, N)
    BY <1>2, <1>3, <1>7, EndsChain
  <2> QED BY <2>1, ChainEnds
<1>11. B = {p[i] : i \in 1 .. N} /\ A = Members(m, h)
  BY <1>1, <1>10
<1>12. B \subseteq A
  <2> SUFFICES ASSUME NEW x \in B PROVE x \in A
    OBVIOUS
  <2>1. PICK k \in 1 .. N : x = p[k]
    BY <1>11
  <2>2. Path(n, c, p, k)
    BY <1>10, <2>1, ChainPath
  <2>3. k \in Nat \ {0} /\ 0 \in 0 .. k - 1 /\ 0 + 1 = 1
    BY <2>2 DEF Path
  <2>4. m[h] = p[1]
    BY <1>9, <2>2, <2>3 DEF Path
  <2>5. \A y \in 1 .. k - 1 : m[p[y]] = n[p[y]]
    <3> TAKE y \in 1 .. k - 1
    <3>1. y \in 1 .. k /\ y \in 0 .. k - 1 /\ y + 1 \in 1 .. k
      BY <2>3
    <3>2. p[y] \in Ids /\ n[p[y]] # NULL
      BY <1>7, <2>2, <3>1 DEF Path
    <3> QED BY <1>8, <3>2
  <2>6. PICK q : Path(m, h, q, k) /\ q[k] = p[k]
    BY <2>2, <2>4, <2>5, Rehead
  <2>7. q[k] \in Members(m, h)
    BY <1>6, <1>7, <2>6, PathWalk
  <2> QED BY <1>11, <2>1, <2>6, <2>7
<1>13. ASSUME B \cap Members(n, VD(d)) = {} PROVE A \subseteq B
  <2>1. n[c] \in B \cup {NULL} /\ (\A x \in B : n[x] \in B \cup {NULL}) /\ B \in SUBSET Ids
    <3>1. Chain(n, c, p, N)
      BY <1>10
    <3> HIDE <1>10
    <3> QED BY <1>11, <3>1, ChainClosed
  <2>2. \A x \in B : m[x] = n[x]
    BY <1>8, <1>13, <2>1
  <2>3. m[h] \in B \cup {NULL} /\ \A x \in B : m[x] \in B \cup {NULL}
    BY <1>9, <2>1, <2>2
  <2> QED BY <1>6, <1>7, <1>11, <2>1, <2>3, Closed
<1> QED BY <1>1, <1>12, <1>13

\* Closing a desktop moves those behind it down with their windows: under its
\* new number each that is left has all it had, and no others unless its list
\* had run into the closed one's (kernel/virtual_desktop.c 97-116).
THEOREM CloseShiftsCorrect == Spec => CloseShifts
<1>1. ASSUME WindowsInv, NEW d \in InUse, VDStep /\ VdClose(d), NEW j \in InUse \ {0, d}
      PROVE  LET before == Members(cell, VD(j))
                 after  == Members(cell', VD(NewSlot(j, d)))
             IN  /\ before \subseteq after
                 /\ before \cap Members(cell, VD(d)) = {} => after = before
  <2>1. PICK B, A : B = Members(cell, VD(j)) /\ A = Members(cell', VD(NewSlot(j, d)))
    OBVIOUS
  <2>2. B \subseteq A /\ (B \cap Members(cell, VD(d)) = {} => A = B)
    BY <1>1, <2>1, CloseMovesList DEF VDStep
  <2> QED BY <2>1, <2>2
<1>2. WindowsInv /\ [Next]_vars =>
        [\A d \in InUse : VDStep /\ VdClose(d) =>
            \A j \in InUse \ {0, d} :
                LET before == Members(cell, VD(j))
                    after  == Members(cell', VD(NewSlot(j, d)))
                IN  /\ before \subseteq after
                    /\ before \cap Members(cell, VD(d)) = {} => after = before]_vars
  BY <1>1
<1> QED BY <1>2, WindowsInvariant, PTL DEF CloseShifts, Spec

\* Closing a desktop keeps every window on a desktop, and on the one it was on unless
\* that is the closed one, whose windows go to desktop 0 (virtual_desktop.c 97-116).
THEOREM CloseKeepsWindowsCorrect == Spec => CloseKeepsWindows
BY CloseLosesNoneCorrect, CloseShiftsCorrect DEF CloseKeepsWindows

==============================================================================
