--------------------------- MODULE IoThreadProofs ---------------------------
(***************************************************************************)
(* The threading of patches for any number of lines, gprs and patches: in  *)
(* processes that load once, and put patches at either end of input lines  *)
(* and first on output lines, match_io() breaks no line, the driver never  *)
(* has a third IO gpr of a line, and the next process finds out what the   *)
(* code of every patch reads and writes, all while get_gpr() refuses       *)
(* match_io() nothing.                                                     *)
(*                                                                         *)
(* A loop of the library is an After of the model.  What is said of one is *)
(* a set J[k] of what its first k steps may have made: every step leads    *)
(* from J[k - 1] to J[k] (Walk).                                           *)
(***************************************************************************)
EXTENDS IoThread, PatchListTheorems

-----------------------------------------------------------------------------
(* Loops.                                                                  *)

\* What is in J[k] after every element k stays so along a loop, of which F[k] is the
\* step: there is such a loop, and it is in J all along.
LEMMA Walk ==
    ASSUME NEW N \in Nat, NEW base, NEW J, NEW F, DOMAIN J = 0 .. N, DOMAIN F = 1 .. N,
           base \in J[0],
           \A k \in 1 .. N : \A x \in J[k - 1] : F[k][x] \in J[k]
    PROVE  \E f : /\ f = [k \in 0 .. N |-> f[k]]
                  /\ f[0] = base /\ \A k \in 1 .. N : f[k] = F[k][f[k - 1]]
                  /\ \A k \in 0 .. N : f[k] \in J[k]
<1> DEFINE Walks(n, f) == /\ f = [k \in 0 .. n |-> f[k]]
                          /\ f[0] = base /\ \A k \in 1 .. n : f[k] = F[k][f[k - 1]]
                          /\ \A k \in 0 .. n : f[k] \in J[k]
           K == {n \in 0 .. N : \E f : Walks(n, f)}
<1>1. 0 \in K
  <2>1. 0 \in 0 .. N /\ Walks(0, [k \in 0 .. 0 |-> base])
    OBVIOUS
  <2>2. QED
    BY <2>1
<1>2. ASSUME NEW n \in 0 .. N - 1, n \in K PROVE n + 1 \in K
  <2>1. PICK f : Walks(n, f)
    BY <1>2
  <2> DEFINE m == n + 1
             g == [k \in 0 .. m |-> IF k <= n THEN f[k] ELSE F[k][f[n]]]
  <2>2. m \in 1 .. N /\ m \in 0 .. N /\ m - 1 = n /\ n \in 0 .. n /\ 0 \in 0 .. n
    OBVIOUS
  <2>3. (\A k \in 0 .. n : g[k] = f[k]) /\ g[m] = F[m][f[n]] /\ g = [k \in 0 .. m |-> g[k]]
    OBVIOUS
  <2> HIDE DEF g
  <2>4. \A k \in 0 .. m : k \in 0 .. n \/ k = m
    BY <2>2
  <2>5. \A k \in 1 .. m : (k \in 1 .. n /\ k \in 0 .. n /\ k - 1 \in 0 .. n) \/ k = m
    BY <2>2
  <2> HIDE DEF m
  <2>6. g[m] \in J[m]
    BY <2>1, <2>2, <2>3
  <2>7. \A k \in 0 .. m : g[k] \in J[k]
    BY <2>1, <2>3, <2>4, <2>6
  <2>8. ASSUME NEW k \in 1 .. m PROVE g[k] = F[k][g[k - 1]]
    <3>1. CASE k = m
      <4>1. g[n] = f[n] /\ g[m] = F[m][f[n]] /\ m - 1 = n
        BY <2>2, <2>3
      <4>2. QED
        BY <3>1, <4>1
    <3>2. CASE k \in 1 .. n /\ k \in 0 .. n /\ k - 1 \in 0 .. n
      BY <2>1, <2>3, <3>2
    <3>3. QED
      BY <2>5, <3>1, <3>2
  <2>9. g[0] = base
    BY <2>1, <2>2, <2>3
  <2>10. Walks(m, g)
    BY <2>3, <2>7, <2>8, <2>9
  <2>11. QED
    BY <2>2, <2>10 DEF m
<1> HIDE DEF K
<1>3. \A k \in 0 .. N : k \in K
  BY <1>1, <1>2, Induction
<1>4. N \in 0 .. N
  OBVIOUS
<1>5. QED
  BY <1>3, <1>4 DEF K

\* So does any other loop whose steps are those of F where J holds.
LEMMA AlongWalk ==
    ASSUME NEW N \in Nat, NEW J, NEW g, g[0] \in J[0],
           \A k \in 1 .. N : g[k - 1] \in J[k - 1] => g[k] \in J[k]
    PROVE  \A k \in 0 .. N : g[k] \in J[k]
<1> DEFINE K == {k \in 0 .. N : g[k] \in J[k]}
<1>1. 0 \in K
  OBVIOUS
<1>2. ASSUME NEW n \in 0 .. N - 1, n \in K PROVE n + 1 \in K
  <2>1. n + 1 \in 1 .. N /\ n + 1 - 1 = n
    OBVIOUS
  <2>2. QED
    BY <1>2, <2>1
<1> HIDE DEF K
<1>3. \A k \in 0 .. N : k \in K
  BY <1>1, <1>2, Induction
<1>4. QED
  BY <1>3 DEF K

-----------------------------------------------------------------------------
(* A part of a list.                                                       *)

Picks(list, S, h) ==
    h = [k \in 0 .. Len(list) |-> IF k = 0 THEN <<>>
                                  ELSE IF list[k] \in S THEN Append(h[k - 1], list[k]) ELSE h[k - 1]]

\* What is picked of the first k elements.
Picked(list, S) == CHOOSE h : Picks(list, S, h)

\* e tells where in the first k elements of list those of s are.
PlacedBy(e, s, list, k, S) ==
    /\ e \in [1 .. Len(s) -> 1 .. k]
    /\ \A i \in 1 .. Len(s) : s[i] = list[e[i]] /\ s[i] \in S
    /\ \A i, j \in 1 .. Len(s) : i < j => e[i] < e[j]
    /\ \A j \in 1 .. k : list[j] \in S => \E i \in 1 .. Len(s) : e[i] = j

PartOf(T, s, list, k, S) == s \in Seq(T) /\ \E e : PlacedBy(e, s, list, k, S)

LEMMA OneMore ==
    ASSUME NEW T, NEW list \in Seq(T), NEW S, NEW k \in 1 .. Len(list), NEW s,
           PartOf(T, s, list, k - 1, S)
    PROVE  PartOf(T, IF list[k] \in S THEN Append(s, list[k]) ELSE s, list, k, S)
<1>1. PICK e : PlacedBy(e, s, list, k - 1, S)
  BY DEF PartOf
<1> DEFINE n == Len(s)
<1>2. s \in Seq(T) /\ n \in Nat /\ list[k] \in T /\ k \in Nat \ {0}
  BY DEF PartOf
<1>3. CASE list[k] \in S
  <2> DEFINE u == Append(s, list[k])
             d == [i \in 1 .. n + 1 |-> IF i <= n THEN e[i] ELSE k]
  <2>1. u \in Seq(T) /\ Len(u) = n + 1 /\ (\A i \in 1 .. n : u[i] = s[i]) /\ u[n + 1] = list[k]
    BY <1>2
  <2> HIDE DEF u
  <2>2. /\ e \in [1 .. n -> 1 .. k - 1]
        /\ \A i \in 1 .. n : s[i] = list[e[i]] /\ s[i] \in S
        /\ \A i, j \in 1 .. n : i < j => e[i] < e[j]
        /\ \A j \in 1 .. k - 1 : list[j] \in S => \E i \in 1 .. n : e[i] = j
    BY <1>1 DEF PlacedBy
  <2> HIDE DEF n
  <2>3. (\A i \in 1 .. n : d[i] = e[i] /\ d[i] \in 1 .. k - 1) /\ d[n + 1] = k /\ DOMAIN d = 1 .. n + 1
    BY <1>2, <2>2
  <2>4. \A i \in 1 .. n + 1 : i \in 1 .. n \/ i = n + 1
    BY <1>2
  <2>5. d \in [1 .. n + 1 -> 1 .. k]
    BY <1>2, <2>2
  <2> HIDE DEF d
  <2>6. \A i \in 1 .. n + 1 : u[i] = list[d[i]] /\ u[i] \in S
    BY <1>3, <2>1, <2>2, <2>3, <2>4
  <2>7. ASSUME NEW i \in 1 .. n + 1, NEW j \in 1 .. n + 1, i < j PROVE d[i] < d[j]
    <3>1. i \in 1 .. n
      BY <1>2, <2>7
    <3>2. CASE j \in 1 .. n
      BY <2>2, <2>3, <2>7, <3>1, <3>2
    <3>3. CASE j = n + 1
      BY <1>2, <2>3, <3>1, <3>3
    <3>4. QED
      BY <2>4, <3>2, <3>3
  <2>8. ASSUME NEW j \in 1 .. k, list[j] \in S PROVE \E i \in 1 .. n + 1 : d[i] = j
    <3>1. CASE j = k
      <4>1. n + 1 \in 1 .. n + 1
        BY <1>2
      <4>2. QED
        BY <2>3, <3>1, <4>1
    <3>2. CASE j # k
      <4>1. j \in 1 .. k - 1
        BY <1>2, <3>2
      <4>2. PICK i \in 1 .. n : e[i] = j
        BY <2>2, <2>8, <4>1
      <4>3. i \in 1 .. n + 1 /\ d[i] = j
        BY <1>2, <2>3, <4>2
      <4>4. QED
        BY <4>3
    <3>3. QED
      BY <3>1, <3>2
  <2>9. PlacedBy(d, u, list, k, S)
    BY <2>1, <2>5, <2>6, <2>7, <2>8 DEF PlacedBy
  <2>10. PartOf(T, u, list, k, S)
    BY <2>1, <2>9 DEF PartOf
  <2>11. QED
    BY <1>3, <2>10 DEF u
<1>4. CASE list[k] \notin S
  <2>1. /\ e \in [1 .. n -> 1 .. k - 1]
        /\ \A i \in 1 .. n : s[i] = list[e[i]] /\ s[i] \in S
        /\ \A i, j \in 1 .. n : i < j => e[i] < e[j]
        /\ \A j \in 1 .. k - 1 : list[j] \in S => \E i \in 1 .. n : e[i] = j
    BY <1>1 DEF PlacedBy
  <2> HIDE DEF n
  <2>2. e \in [1 .. n -> 1 .. k]
    BY <1>2, <2>1
  <2>3. \A j \in 1 .. k : list[j] \in S => j \in 1 .. k - 1
    BY <1>2, <1>4
  <2>4. PlacedBy(e, s, list, k, S)
    BY <2>1, <2>2, <2>3 DEF PlacedBy, n
  <2>5. QED
    BY <1>2, <1>4, <2>4 DEF PartOf
<1>5. QED
  BY <1>3, <1>4

LEMMA AmongIs ==
    ASSUME NEW T, NEW list \in Seq(T), NEW S
    PROVE  /\ Picks(list, S, Picked(list, S))
           /\ Among(list, S) = Picked(list, S)[Len(list)]
           /\ \A k \in 0 .. Len(list) : PartOf(T, Picked(list, S)[k], list, k, S)
<1> DEFINE N == Len(list)
           W == Seq(T)
           J == [k \in 0 .. N |-> {s \in W : PartOf(T, s, list, k, S)}]
           F == [k \in 1 .. N |-> [s \in J[k - 1] |-> IF list[k] \in S THEN Append(s, list[k]) ELSE s]]
<1>1. N \in Nat
  OBVIOUS
<1>2. <<>> \in J[0]
  <2>1. <<>> \in W /\ Len(<<>>) = 0
    OBVIOUS
  <2>2. PlacedBy([i \in 1 .. 0 |-> 1], <<>>, list, 0, S)
    BY <2>1 DEF PlacedBy
  <2>3. QED
    BY <1>1, <2>1, <2>2 DEF PartOf
<1>3. ASSUME NEW k \in 1 .. N, NEW s \in J[k - 1]
      PROVE  /\ (IF list[k] \in S THEN Append(s, list[k]) ELSE s) \in J[k]
             /\ F[k][s] = IF list[k] \in S THEN Append(s, list[k]) ELSE s
  <2>1. k - 1 \in 0 .. N /\ k \in 0 .. N
    BY <1>1
  <2>2. PartOf(T, s, list, k - 1, S)
    BY <2>1
  <2>3. PartOf(T, IF list[k] \in S THEN Append(s, list[k]) ELSE s, list, k, S)
    BY <2>2, OneMore
  <2>4. QED
    BY <2>1, <2>3 DEF PartOf
<1>4. /\ DOMAIN J = 0 .. N /\ DOMAIN F = 1 .. N
      /\ \A k \in 1 .. N : \A s \in J[k - 1] : F[k][s] \in J[k]
  BY <1>3
<1> HIDE DEF J, F, N
<1>5. PICK f : /\ f = [k \in 0 .. N |-> f[k]]
               /\ f[0] = <<>> /\ \A k \in 1 .. N : f[k] = F[k][f[k - 1]]
               /\ \A k \in 0 .. N : f[k] \in J[k]
  BY <1>1, <1>2, <1>4, Walk
<1>6. Picks(list, S, f)
  <2> DEFINE G(k) == IF k = 0 THEN <<>> ELSE IF list[k] \in S THEN Append(f[k - 1], list[k]) ELSE f[k - 1]
  <2>1. ASSUME NEW k \in 0 .. N PROVE f[k] = G(k)
    <3>1. CASE k = 0
      BY <1>5, <3>1
    <3>2. CASE k # 0
      <4>1. k \in 1 .. N /\ k - 1 \in 0 .. N
        BY <1>1, <3>2
      <4>2. f[k - 1] \in J[k - 1] /\ f[k] = F[k][f[k - 1]]
        BY <1>5, <4>1
      <4>3. QED
        BY <1>3, <3>2, <4>1, <4>2
    <3>3. QED
      BY <3>1, <3>2
  <2> HIDE DEF G
  <2>2. f = [k \in 0 .. N |-> G(k)]
    BY <1>5, <2>1
  <2>3. QED
    BY <2>2 DEF Picks, G, N
<1> DEFINE g == Picked(list, S)
<1>7. Picks(list, S, g)
  BY <1>6 DEF Picked
<1>8. Among(list, S) = g[N]
  BY DEF Among, After, Picked, Picks, N
<1>9. \A k \in 0 .. N : g[k] \in J[k]
  <2>1. g = [k \in 0 .. N |-> IF k = 0 THEN <<>>
                              ELSE IF list[k] \in S THEN Append(g[k - 1], list[k]) ELSE g[k - 1]]
    BY <1>7 DEF Picks, N
  <2> HIDE DEF g
  <2>2. g[0] = <<>>
    BY <1>1, <2>1
  <2>3. ASSUME NEW k \in 1 .. N, g[k - 1] \in J[k - 1] PROVE g[k] \in J[k]
    <3>1. g[k] = IF list[k] \in S THEN Append(g[k - 1], list[k]) ELSE g[k - 1]
      <4>1. k \in 0 .. N /\ k # 0
        BY <1>1
      <4>2. QED
        BY <2>1, <4>1
    <3>2. (IF list[k] \in S THEN Append(g[k - 1], list[k]) ELSE g[k - 1]) \in J[k]
      BY <1>3, <2>3
    <3>3. QED
      BY <3>1, <3>2
  <2>4. g[0] \in J[0]
    BY <1>2, <2>2
  <2>5. QED
    BY <1>1, <2>3, <2>4, AlongWalk
<1>10. QED
  BY <1>7, <1>8, <1>9 DEF J, N

\* The elements of list that are in S, each one once if list has it once.
LEMMA AmongFacts ==
    ASSUME NEW T, NEW list \in Seq(T), NEW S
    PROVE  /\ Among(list, S) \in Seq(T)
           /\ ToSet(Among(list, S)) = ToSet(list) \cap S
           /\ Distinct(list) => Distinct(Among(list, S))
           /\ \E e : PlacedBy(e, Among(list, S), list, Len(list), S)
<1> DEFINE s == Among(list, S)
           N == Len(list)
           n == Len(s)
<1>1. N \in Nat /\ N \in 0 .. N /\ DOMAIN list = 1 .. N
  <2>1. N \in Nat /\ DOMAIN list = 1 .. N
    OBVIOUS
  <2> HIDE DEF N
  <2>2. QED
    BY <2>1
<1>2. PartOf(T, s, list, N, S)
  BY <1>1, AmongIs
<1> HIDE DEF s
<1>3. s \in Seq(T) /\ DOMAIN s = 1 .. n /\ n \in Nat
  BY <1>2 DEF PartOf
<1>4. PICK e : PlacedBy(e, s, list, N, S)
  BY <1>2 DEF PartOf
<1>5. /\ e \in [1 .. n -> 1 .. N]
      /\ \A i \in 1 .. n : s[i] = list[e[i]] /\ s[i] \in S
      /\ \A i, j \in 1 .. n : i < j => e[i] < e[j]
      /\ \A j \in 1 .. N : list[j] \in S => \E i \in 1 .. n : e[i] = j
  BY <1>4 DEF PlacedBy
<1> HIDE DEF n, N
<1>6. ASSUME NEW x \in ToSet(s) PROVE x \in ToSet(list) \cap S
  <2>1. PICK i \in 1 .. n : x = s[i]
    BY <1>3 DEF ToSet
  <2>2. e[i] \in 1 .. N /\ x = list[e[i]] /\ x \in S
    BY <1>5, <2>1
  <2>3. QED
    BY <1>1, <2>2 DEF ToSet
<1>7. ASSUME NEW x \in ToSet(list) \cap S PROVE x \in ToSet(s)
  <2>1. PICK j \in 1 .. N : x = list[j]
    BY <1>1 DEF ToSet
  <2>2. PICK i \in 1 .. n : e[i] = j
    BY <1>5, <1>7, <2>1
  <2>3. s[i] = x
    BY <1>5, <2>1, <2>2
  <2>4. QED
    BY <1>3, <2>3 DEF ToSet
<1>8. ASSUME Distinct(list), NEW i \in 1 .. n, NEW j \in 1 .. n, s[i] = s[j] PROVE i = j
  <2>1. e[i] \in 1 .. N /\ e[j] \in 1 .. N /\ list[e[i]] = list[e[j]]
    BY <1>5, <1>8
  <2>2. e[i] = e[j]
    BY <1>1, <1>8, <2>1 DEF Distinct
  <2>3. ~(i < j) /\ ~(j < i)
    BY <1>5, <2>1, <2>2
  <2>4. QED
    BY <1>3, <2>3
<1>9. Distinct(list) => Distinct(s)
  BY <1>3, <1>8 DEF Distinct
<1>10. QED
  BY <1>3, <1>4, <1>6, <1>7, <1>9 DEF s, N

\* Two elements that are one behind the other in the part are so in the list.
LEMMA AmongOrder ==
    ASSUME NEW T, NEW list \in Seq(T), NEW S, NEW i \in DOMAIN Among(list, S), NEW j \in DOMAIN Among(list, S),
           i < j
    PROVE  \E a, b \in DOMAIN list : a < b /\ list[a] = Among(list, S)[i] /\ list[b] = Among(list, S)[j]
<1> DEFINE s == Among(list, S)
<1>1. PICK e : PlacedBy(e, s, list, Len(list), S)
  BY AmongFacts
<1>2. s \in Seq(T)
  BY AmongFacts
<1>3. i \in 1 .. Len(s) /\ j \in 1 .. Len(s) /\ DOMAIN list = 1 .. Len(list)
  BY <1>2
<1> HIDE DEF s
<1>4. e[i] \in DOMAIN list /\ e[j] \in DOMAIN list /\ e[i] < e[j] /\ list[e[i]] = s[i] /\ list[e[j]] = s[j]
  BY <1>1, <1>3 DEF PlacedBy
<1>5. QED
  BY <1>4 DEF s

LEMMA Sizes ==
    /\ NumLines \in Nat \ {0} /\ NumGprs \in Nat /\ NumGprs >= 2 * NumLines
    /\ Lines \subseteq Gprs /\ 0 \in Lines /\ -1 \notin Gprs /\ \A g \in Gprs : g \in Int /\ g >= 0
    /\ \A l \in Lines : l \in Int
    /\ IsFiniteSet(Patches) /\ \A p \in Patches : LinesOf[p] \subseteq Lines /\ LinesOf[p] # {}
<1>1. /\ NumLines \in Nat \ {0} /\ NumGprs \in Nat /\ NumGprs >= 2 * NumLines
      /\ IsFiniteSet(Patches) /\ LinesOf \in [Patches -> (SUBSET Lines) \ {{}}]
  BY LineAssumption, GprAssumption
<1>2. Lines \subseteq Gprs /\ 0 \in Lines /\ -1 \notin Gprs /\ \A g \in Gprs : g \in Int /\ g >= 0
  BY <1>1 DEF Lines, Gprs
<1>3. \A l \in Lines : l \in Int
  BY <1>2
<1>4. \A p \in Patches : LinesOf[p] \subseteq Lines /\ LinesOf[p] # {}
  BY <1>1
<1>5. QED
  BY <1>1, <1>2, <1>3, <1>4

LEMMA AscendingFacts ==
    ASSUME NEW S \in SUBSET Gprs
    PROVE  /\ Ascending(S) \in Seq(Gprs) /\ ToSet(Ascending(S)) = S /\ Distinct(Ascending(S))
           /\ Len(Ascending(S)) \in Nat /\ DOMAIN Ascending(S) = 1 .. Len(Ascending(S))
<1> DEFINE a == [k \in 1 .. NumGprs |-> k - 1]
<1>1. NumGprs \in Nat
  BY Sizes
<1>2. \A k \in 1 .. NumGprs : k - 1 \in Gprs
  BY <1>1 DEF Gprs
<1>3. a \in Seq(Gprs) /\ DOMAIN a = 1 .. NumGprs
  BY <1>1, <1>2
<1>4. ToSet(a) = Gprs
  <2>1. ASSUME NEW g \in Gprs PROVE g \in ToSet(a)
    <3>1. PICK k \in 1 .. NumGprs : k - 1 = g
      <4> DEFINE k == g + 1
      <4>1. k \in 1 .. NumGprs /\ k - 1 = g
        BY <1>1 DEF Gprs
      <4> HIDE DEF k
      <4>2. QED
        BY <4>1
    <3>2. a[k] = g
      BY <3>1
    <3>3. QED
      BY <1>3, <3>1, <3>2 DEF ToSet
  <2>2. ASSUME NEW x \in ToSet(a) PROVE x \in Gprs
    BY <1>2, <1>3 DEF ToSet
  <2>3. QED
    BY <2>1, <2>2
<1>5. Distinct(a)
  BY <1>1, <1>3 DEF Distinct
<1>6. Ascending(S) = Among(a, S)
  BY DEF Ascending
<1> HIDE DEF a
<1>7. Ascending(S) \in Seq(Gprs) /\ ToSet(Ascending(S)) = S /\ Distinct(Ascending(S))
  <2>1. /\ Among(a, S) \in Seq(Gprs) /\ ToSet(Among(a, S)) = ToSet(a) \cap S
        /\ Distinct(a) => Distinct(Among(a, S))
    BY <1>3, AmongFacts
  <2>2. ToSet(a) \cap S = S
    BY <1>4
  <2>3. QED
    BY <1>5, <1>6, <2>1, <2>2
<1>8. QED
  BY <1>7

\* The patches of a list that are on line l.
LEMMA OnLineFacts ==
    ASSUME NEW list \in Seq(Patches), NEW l
    PROVE  /\ OnLine(list, l) \in Seq(Patches)
           /\ ToSet(OnLine(list, l)) = {p \in ToSet(list) : l \in LinesOf[p]}
           /\ Distinct(list) => Distinct(OnLine(list, l))
           /\ Len(OnLine(list, l)) \in Nat /\ DOMAIN OnLine(list, l) = 1 .. Len(OnLine(list, l))
           /\ \A i, j \in DOMAIN OnLine(list, l) : i < j =>
                 \E a, b \in DOMAIN list : /\ a < b /\ list[a] = OnLine(list, l)[i]
                                          /\ list[b] = OnLine(list, l)[j]
<1> DEFINE S == {p \in Patches : l \in LinesOf[p]}
<1>1. OnLine(list, l) = Among(list, S)
  BY DEF OnLine
<1>2. ToSet(list) \cap S = {p \in ToSet(list) : l \in LinesOf[p]}
  BY DEF ToSet
<1> HIDE DEF S
<1>3. /\ OnLine(list, l) \in Seq(Patches)
      /\ ToSet(OnLine(list, l)) = ToSet(list) \cap S
      /\ Distinct(list) => Distinct(OnLine(list, l))
  BY <1>1, AmongFacts
<1>4. Len(OnLine(list, l)) \in Nat /\ DOMAIN OnLine(list, l) = 1 .. Len(OnLine(list, l))
  BY <1>3
<1>5. QED
  BY <1>1, <1>2, <1>3, <1>4, AmongOrder

-----------------------------------------------------------------------------
(* Types, and what the operands are.                                       *)

Operands == {"in", "out", "gpr", "buffer", "control", "constant", "none"} \X Int
Progs == [used : SUBSET Gprs, input : SUBSET Gprs, in : [Lines -> Operands], out : [Lines -> Operands],
          rd : [Lines -> Operands], wr : [Lines -> Operands]]
Ops == [dst : Operands, args : [1 .. 3 -> Operands]]
Routings == [used : SUBSET Gprs, in : [Lines -> Operands], out : [Lines -> Operands], code : Seq(Ops)]
Banks == [usage : [Gprs -> Nat], line : [Gprs -> Lines], io : [Lines -> [1 .. 2 -> Gprs \cup {-1}]]]
Mgrs == [bank : Banks, prog : [Patches -> Progs], routing : Routings]

GprOps == {Gpr(g) : g \in Gprs}

LEMMA OperandFacts ==
    /\ \A g : IsGpr(Gpr(g)) /\ GprsOf(Gpr(g)) = {g}
    /\ \A l : ~IsGpr(In(l)) /\ GprsOf(In(l)) = {} /\ ~IsGpr(Out(l)) /\ GprsOf(Out(l)) = {}
    /\ ~IsGpr(None) /\ GprsOf(None) = {}
    /\ \A l, g : In(l) # Gpr(g) /\ Out(l) # Gpr(g) /\ None # Gpr(g) /\ In(l) # None /\ Out(l) # None
    /\ \A l, k : In(l) # Out(k) /\ (In(l) = In(k) => l = k) /\ (Out(l) = Out(k) => l = k)
    /\ \A g, h : Gpr(g) = Gpr(h) => g = h
  BY DEF IsGpr, GprsOf, Gpr, In, Out, None

LEMMA OperandTypes ==
    /\ None \in Operands /\ Zero \in Operands /\ Volume \in Operands
    /\ \A l \in Lines : In(l) \in Operands /\ Out(l) \in Operands
    /\ \A g \in Gprs : Gpr(g) \in Operands
    /\ \A r \in Operands : Buffer(r[2]) \in Operands
<1>1. \A g \in Gprs : g \in Int
  BY Sizes
<1>2. \A l \in Lines : l \in Int
  BY Sizes
<1>3. \A r \in Operands : r[2] \in Int
  BY DEF Operands
<1>4. None \in Operands /\ Zero \in Operands /\ Volume \in Operands
  BY DEF Operands, None, Zero, Volume
<1>5. \A l \in Lines : In(l) \in Operands /\ Out(l) \in Operands
  BY <1>2 DEF Operands, In, Out
<1>6. \A g \in Gprs : Gpr(g) \in Operands
  BY <1>1 DEF Operands, Gpr
<1>7. \A r \in Operands : Buffer(r[2]) \in Operands
  BY <1>3 DEF Operands, Buffer
<1>8. QED
  BY <1>4, <1>5, <1>6, <1>7

-----------------------------------------------------------------------------
(* IO gprs.                                                                *)

\* The table of IO gprs has just those in use, each one once and at its line.
Table(b) ==
    /\ \A g \in Gprs : b.usage[g] > 0 => \E k \in 1 .. 2 : b.io[b.line[g]][k] = g
    /\ \A l \in Lines : \A k \in 1 .. 2 :
          b.io[l][k] # -1 => b.usage[b.io[l][k]] > 0 /\ b.line[b.io[l][k]] = l
    /\ \A l \in Lines : b.io[l][1] # -1 => b.io[l][1] # b.io[l][2]

\* c is what b becomes when a program that had the gprs u has v: their users are counted,
\* and a gpr in use stays at its line.
Moves(b, u, c, v) ==
    /\ c \in Banks /\ v \in SUBSET Gprs /\ Table(c)
    /\ \A g \in Gprs : /\ g \in u /\ g \notin v => c.usage[g] = b.usage[g] - 1
                       /\ g \notin u /\ g \in v => c.usage[g] = b.usage[g] + 1
                       /\ (g \in u <=> g \in v) => c.usage[g] = b.usage[g]
                       /\ b.usage[g] > 0 /\ c.usage[g] > 0 => c.line[g] = b.line[g]

LEMMA BankFacts ==
    ASSUME NEW b \in Banks
    PROVE  /\ b = [usage |-> b.usage, line |-> b.line, io |-> b.io]
           /\ b.usage \in [Gprs -> Nat] /\ b.line \in [Gprs -> Lines]
           /\ b.io \in [Lines -> [1 .. 2 -> Gprs \cup {-1}]]
           /\ \A g \in Gprs : b.usage[g] \in Nat /\ b.line[g] \in Lines
           /\ \A l \in Lines : b.io[l] \in [1 .. 2 -> Gprs \cup {-1}] /\ ToSet(b.io[l]) = {b.io[l][1], b.io[l][2]}
           /\ \A l \in Lines : \A k \in 1 .. 2 : b.io[l][k] \in Gprs \cup {-1}
<1>1. /\ b = [usage |-> b.usage, line |-> b.line, io |-> b.io]
      /\ b.usage \in [Gprs -> Nat] /\ b.line \in [Gprs -> Lines]
      /\ b.io \in [Lines -> [1 .. 2 -> Gprs \cup {-1}]]
  BY DEF Banks
<1>2. \A l \in Lines : b.io[l] \in [1 .. 2 -> Gprs \cup {-1}]
  BY <1>1
<1>3. ASSUME NEW l \in Lines PROVE ToSet(b.io[l]) = {b.io[l][1], b.io[l][2]}
  <2> DEFINE s == b.io[l]
  <2>1. DOMAIN s = 1 .. 2
    BY <1>2
  <2> HIDE DEF s
  <2>2. \A k \in 1 .. 2 : k = 1 \/ k = 2
    OBVIOUS
  <2>3. 1 \in 1 .. 2 /\ 2 \in 1 .. 2
    OBVIOUS
  <2>4. ToSet(s) = {s[1], s[2]}
    BY <2>1, <2>2, <2>3 DEF ToSet
  <2>5. QED
    BY <2>4 DEF s
<1>4. QED
  BY <1>1, <1>2, <1>3

LEMMA FreeMoves ==
    ASSUME NEW b \in Banks, Table(b), NEW u \in SUBSET Gprs, NEW S, \A g \in u : b.usage[g] > 0
    PROVE  Moves(b, u, FreeGprs(b, u, S).b, FreeGprs(b, u, S).u) /\ FreeGprs(b, u, S).u = u \ S
<1> DEFINE less == u \cap S
           gone == {g \in less : b.usage[g] <= 1}
           c == FreeGprs(b, u, S).b
           v == u \ S
<1>1. /\ c = [usage |-> [g \in Gprs |-> IF g \in less THEN b.usage[g] - 1 ELSE b.usage[g]],
              line |-> [g \in Gprs |-> IF g \in gone THEN 0 ELSE b.line[g]],
              io |-> [l \in Lines |-> [k \in 1 .. 2 |-> IF b.io[l][k] \in gone THEN -1
                                                        ELSE b.io[l][k]]]]
      /\ FreeGprs(b, u, S).u = v
  BY DEF FreeGprs
<1> HIDE DEF c
<1>2. /\ \A g \in Gprs : b.usage[g] \in Nat /\ b.line[g] \in Lines
      /\ \A l \in Lines : \A k \in 1 .. 2 : b.io[l][k] \in Gprs \cup {-1}
  BY BankFacts
<1>3. 0 \in Lines /\ -1 \notin Gprs /\ gone \subseteq Gprs /\ less \subseteq Gprs
  BY Sizes
<1>4. \A g \in less : b.usage[g] - 1 \in Nat
  BY <1>2
<1>5. \A g \in Gprs : g \in gone <=> g \in less /\ b.usage[g] - 1 = 0
  BY <1>2, <1>4
<1>6. \A g \in less : g \notin gone => b.usage[g] - 1 > 0
  BY <1>2, <1>4
<1>7. \A g \in Gprs : g \in u /\ g \notin v <=> g \in less
  OBVIOUS
<1>8. v \in SUBSET Gprs /\ v \subseteq u
  OBVIOUS
<1> HIDE DEF gone, less, v
<1>9. /\ \A g \in Gprs : c.usage[g] = IF g \in less THEN b.usage[g] - 1 ELSE b.usage[g]
      /\ \A g \in Gprs : c.line[g] = IF g \in gone THEN 0 ELSE b.line[g]
      /\ \A l \in Lines : \A k \in 1 .. 2 : c.io[l][k] = IF b.io[l][k] \in gone THEN -1 ELSE b.io[l][k]
  BY <1>1
<1>10. c \in Banks
  <2>1. \A g \in Gprs : (IF g \in less THEN b.usage[g] - 1 ELSE b.usage[g]) \in Nat
    BY <1>2, <1>4
  <2>2. \A g \in Gprs : (IF g \in gone THEN 0 ELSE b.line[g]) \in Lines
    BY <1>2, <1>3
  <2>3. \A l \in Lines : \A k \in 1 .. 2 : (IF b.io[l][k] \in gone THEN -1 ELSE b.io[l][k]) \in Gprs \cup {-1}
    BY <1>2
  <2>4. QED
    BY <1>1, <2>1, <2>2, <2>3 DEF Banks
<1>11. \A g \in Gprs : c.usage[g] > 0 <=> b.usage[g] > 0 /\ g \notin gone
  <2>1. ASSUME NEW g \in Gprs PROVE c.usage[g] > 0 <=> b.usage[g] > 0 /\ g \notin gone
    <3>1. CASE g \in gone
      BY <1>5, <1>9, <3>1
    <3>2. CASE g \notin gone /\ g \in less
      BY <1>2, <1>6, <1>9, <3>2
    <3>3. CASE g \notin less
      BY <1>5, <1>9, <3>3
    <3>4. QED
      BY <3>1, <3>2, <3>3
  <2>2. QED
    BY <2>1
<1>12. Table(c)
  <2>1. ASSUME NEW g \in Gprs, c.usage[g] > 0 PROVE \E k \in 1 .. 2 : c.io[c.line[g]][k] = g
    <3>1. b.usage[g] > 0 /\ g \notin gone /\ c.line[g] = b.line[g] /\ b.line[g] \in Lines
      BY <1>2, <1>9, <1>11, <2>1
    <3>2. PICK k \in 1 .. 2 : b.io[b.line[g]][k] = g
      BY <3>1 DEF Table
    <3>3. c.io[c.line[g]][k] = g
      BY <1>9, <3>1, <3>2
    <3>4. QED
      BY <3>3
  <2>2. ASSUME NEW l \in Lines, NEW k \in 1 .. 2, c.io[l][k] # -1
        PROVE  c.usage[c.io[l][k]] > 0 /\ c.line[c.io[l][k]] = l
    <3>1. c.io[l][k] = b.io[l][k] /\ b.io[l][k] \notin gone /\ b.io[l][k] \in Gprs
      BY <1>2, <1>9, <2>2
    <3>2. b.usage[b.io[l][k]] > 0 /\ b.line[b.io[l][k]] = l
      BY <2>2, <3>1 DEF Table
    <3>3. QED
      BY <1>9, <1>11, <3>1, <3>2
  <2>3. ASSUME NEW l \in Lines, c.io[l][1] # -1 PROVE c.io[l][1] # c.io[l][2]
    <3>1. 1 \in 1 .. 2 /\ 2 \in 1 .. 2
      OBVIOUS
    <3>2. b.io[l][1] # -1 => b.io[l][1] # b.io[l][2]
      BY DEF Table
    <3>3. QED
      BY <1>9, <2>3, <3>1, <3>2
  <2>4. QED
    BY <2>1, <2>2, <2>3 DEF Table
<1>13. ASSUME NEW g \in Gprs
       PROVE /\ g \in u /\ g \notin v => c.usage[g] = b.usage[g] - 1
             /\ g \notin u /\ g \in v => c.usage[g] = b.usage[g] + 1
             /\ (g \in u <=> g \in v) => c.usage[g] = b.usage[g]
             /\ b.usage[g] > 0 /\ c.usage[g] > 0 => c.line[g] = b.line[g]
  <2>1. g \notin u => g \notin v
    BY <1>8
  <2>2. QED
    BY <1>7, <1>9, <1>11, <2>1
<1>14. Moves(b, u, c, v)
  BY <1>8, <1>10, <1>12, <1>13 DEF Moves
<1>15. QED
  BY <1>1, <1>14 DEF c, v

LEMMA GetMoves ==
    ASSUME NEW b \in Banks, Table(b), NEW u \in SUBSET Gprs, NEW S \in SUBSET Gprs, \A g \in S : b.usage[g] > 0
    PROVE  Moves(b, u, GetGprs(b, u, S).b, GetGprs(b, u, S).u) /\ GetGprs(b, u, S).u = u \cup S
<1> DEFINE more == S \ u
           c == GetGprs(b, u, S).b
           v == u \cup S
<1>1. {g \in S \ u : b.usage[g] > 0} = more
  OBVIOUS
<1>2. c = [b EXCEPT !.usage = [g \in Gprs |-> IF g \in more THEN @[g] + 1 ELSE @[g]]]
  BY <1>1 DEF GetGprs
<1>3. GetGprs(b, u, S).u = v
  BY <1>1 DEF GetGprs
<1> HIDE DEF c
<1>4. /\ \A g \in Gprs : b.usage[g] \in Nat
      /\ b.line \in [Gprs -> Lines] /\ b.io \in [Lines -> [1 .. 2 -> Gprs \cup {-1}]]
      /\ b = [usage |-> b.usage, line |-> b.line, io |-> b.io]
  BY BankFacts
<1>5. c = [usage |-> [g \in Gprs |-> IF g \in more THEN b.usage[g] + 1 ELSE b.usage[g]],
           line |-> b.line, io |-> b.io]
  BY <1>2, <1>4
<1>6. /\ \A g \in Gprs : g \notin u /\ g \in v <=> g \in more
      /\ v \in SUBSET Gprs /\ u \subseteq v /\ \A g \in more : b.usage[g] > 0
  OBVIOUS
<1> HIDE DEF more, v
<1>7. /\ \A g \in Gprs : c.usage[g] = IF g \in more THEN b.usage[g] + 1 ELSE b.usage[g]
      /\ c.line = b.line /\ c.io = b.io
  BY <1>5
<1>8. c \in Banks
  <2>1. \A g \in Gprs : (IF g \in more THEN b.usage[g] + 1 ELSE b.usage[g]) \in Nat
    BY <1>4
  <2>2. QED
    BY <1>4, <1>5, <2>1 DEF Banks
<1>9. \A g \in Gprs : c.usage[g] > 0 <=> b.usage[g] > 0
  BY <1>4, <1>6, <1>7
<1>10. Table(c)
  <2>1. \A l \in Lines : \A k \in 1 .. 2 : b.io[l][k] \in Gprs \cup {-1}
    BY BankFacts
  <2>2. QED
    BY <1>7, <1>9, <2>1 DEF Table
<1>11. ASSUME NEW g \in Gprs
       PROVE /\ g \in u /\ g \notin v => c.usage[g] = b.usage[g] - 1
             /\ g \notin u /\ g \in v => c.usage[g] = b.usage[g] + 1
             /\ (g \in u <=> g \in v) => c.usage[g] = b.usage[g]
             /\ b.usage[g] > 0 /\ c.usage[g] > 0 => c.line[g] = b.line[g]
  BY <1>6, <1>7
<1>12. Moves(b, u, c, v)
  BY <1>6, <1>8, <1>10, <1>11 DEF Moves
<1>13. QED
  BY <1>3, <1>12 DEF c, v

LEMMA UpTo ==
    ASSUME NEW n \in Nat
    PROVE  IsFiniteSet(0 .. n - 1) /\ Cardinality(0 .. n - 1) = n
<1> DEFINE m == n - 1
<1>1. m \in Int /\ 0 \in Int /\ (IF 0 > m THEN 0 ELSE m - 0 + 1) = n
  OBVIOUS
<1> HIDE DEF m
<1>2. IsFiniteSet(0 .. m) /\ Cardinality(0 .. m) = IF 0 > m THEN 0 ELSE m - 0 + 1
  BY <1>1, FS_Interval
<1>3. QED
  BY <1>1, <1>2 DEF m

\* A line with a slot to spare, and there is a gpr that nobody uses.
LEMMA SomeFree ==
    ASSUME NEW b \in Banks, Table(b), NEW l \in Lines, NEW k \in 1 .. 2, b.io[l][k] = -1
    PROVE  /\ First({g \in Gprs : b.usage[g] = 0}) \in Gprs
           /\ b.usage[First({g \in Gprs : b.usage[g] = 0})] = 0
<1> DEFINE U == {g \in Gprs : b.usage[g] > 0}
           Free == {g \in Gprs : b.usage[g] = 0}
           P == Lines \X (1 .. 2)
           Slots == P \ {<<l, k>>}
<1>1. /\ \A g \in Gprs : b.usage[g] \in Nat /\ b.line[g] \in Lines
  BY BankFacts
<1>2. NumLines \in Nat \ {0} /\ NumGprs \in Nat /\ NumGprs >= 2 * NumLines
  BY Sizes
<1>3. IsFiniteSet(Lines) /\ Cardinality(Lines) = NumLines
  BY <1>2, UpTo DEF Lines
<1>4. IsFiniteSet(1 .. 2) /\ Cardinality(1 .. 2) = 2
  <2>1. IsFiniteSet({1}) /\ Cardinality({1}) = 1
    BY FS_Singleton
  <2>2. IsFiniteSet({1} \cup {2}) /\ Cardinality({1} \cup {2}) = 2
    BY <2>1, FS_AddElement
  <2>3. 1 .. 2 = {1} \cup {2}
    OBVIOUS
  <2>4. QED
    BY <2>2, <2>3
<1>5. IsFiniteSet(P) /\ Cardinality(P) = NumLines * 2
  BY <1>3, <1>4, FS_Product
<1>6. IsFiniteSet(Slots) /\ Cardinality(Slots) = NumLines * 2 - 1
  <2>1. <<l, k>> \in P
    OBVIOUS
  <2> HIDE DEF P
  <2>2. QED
    BY <1>5, <2>1, FS_RemoveElement
<1>7. IsFiniteSet(Gprs) /\ Cardinality(Gprs) = NumGprs
  BY <1>2, UpTo DEF Gprs
<1>8. \A g \in U : \E s \in Slots : b.io[s[1]][s[2]] = g
  <2>1. ASSUME NEW g \in U PROVE \E s \in Slots : b.io[s[1]][s[2]] = g
    <3>1. PICK j \in 1 .. 2 : b.io[b.line[g]][j] = g
      BY DEF Table
    <3>2. g # -1 /\ b.line[g] \in Lines
      BY <1>1, Sizes
    <3>3. <<b.line[g], j>> \in Slots
      BY <3>1, <3>2
    <3>4. QED
      BY <3>1, <3>3
  <2>2. QED
    BY <2>1
<1> DEFINE f == [g \in U |-> CHOOSE s \in Slots : b.io[s[1]][s[2]] = g]
<1>9. \A g \in U : f[g] \in Slots /\ b.io[f[g][1]][f[g][2]] = g
  BY Zenon, <1>8
<1>10. f \in Injection(U, Slots)
  <2>1. f \in [U -> Slots]
    BY Zenon, <1>9
  <2>2. \A g, h \in U : f[g] = f[h] => g = h
    BY Zenon, <1>9
  <2> HIDE DEF f
  <2>3. QED
    BY <2>1, <2>2 DEF Injection, IsInjective
<1> HIDE DEF f, Slots
<1>11. IsFiniteSet(U) /\ Cardinality(U) <= NumLines * 2 - 1
  BY <1>6, <1>10, FS_Injection
<1>12. U # Gprs
  BY <1>2, <1>7, <1>11
<1>13. Free \in SUBSET Nat /\ Free # {}
  <2>1. Gprs \subseteq Nat
    BY DEF Gprs
  <2>2. PICK g \in Gprs : g \notin U
    BY <1>12
  <2>3. b.usage[g] = 0
    BY <1>1, <2>2
  <2>4. QED
    BY <2>1, <2>3
<1>14. \E n \in Free : \A h \in Free : n <= h
  BY <1>13, LeastNat
<1>15. First(Free) \in Free
  BY <1>14 DEF First
<1>16. QED
  BY <1>15

\* get_io_gpr() for a program that has at most one of the gprs of the line: it gets
\* another one of them, and the line has no third.
LEMMA IoMoves ==
    ASSUME NEW b \in Banks, Table(b), NEW l \in Lines, NEW u \in SUBSET Gprs,
           \A g \in u : b.usage[g] > 0,
           b.io[l][1] \notin u \/ b.io[l][2] \notin u
    PROVE  LET r == GetIoGpr(b, l, u)
           IN /\ Moves(b, u, r.b, r.u) /\ r.u = u \cup {r.g} /\ r.g \in Gprs \ u
              /\ r.b.line[r.g] = l /\ \A g \in u : r.b.line[g] = b.line[g]
<1> DEFINE g == IoGpr(b, l, u)
           io == b.io[l]
           slot == IF io[1] < 0 THEN 1 ELSE 2
           c == TakeIo(b, l, u, g).b
           v == u \cup {g}
           fresh == [h \in 1 .. 2 |-> IF h = slot THEN g ELSE io[h]]
<1>1. /\ b = [usage |-> b.usage, line |-> b.line, io |-> b.io]
      /\ \A h \in Gprs : b.usage[h] \in Nat /\ b.line[h] \in Lines
      /\ b.usage \in [Gprs -> Nat] /\ b.line \in [Gprs -> Lines]
      /\ b.io \in [Lines -> [1 .. 2 -> Gprs \cup {-1}]]
      /\ io \in [1 .. 2 -> Gprs \cup {-1}] /\ ToSet(io) = {io[1], io[2]}
      /\ io[1] \in Gprs \cup {-1} /\ io[2] \in Gprs \cup {-1}
  <2>1. 1 \in 1 .. 2 /\ 2 \in 1 .. 2
    OBVIOUS
  <2>2. QED
    BY <2>1, BankFacts
<1>2. -1 \notin Gprs /\ \A h \in Gprs : h \in Int /\ h >= 0
  BY Sizes
<1>3. /\ \A k \in 1 .. 2 : io[k] # -1 => b.usage[io[k]] > 0 /\ b.line[io[k]] = l
      /\ io[1] # -1 => io[1] # io[2]
  BY DEF Table
<1>4. \/ g \in Gprs /\ g \notin u /\ b.usage[g] > 0 /\ b.line[g] = l /\ g \in {io[1], io[2]}
      \/ /\ g \in Gprs /\ b.usage[g] = 0 /\ slot \in 1 .. 2 /\ io[slot] = -1
         /\ slot = 2 => io[1] \in u
  <2>1. CASE io[1] >= 0 /\ io[1] \notin u
    <3>1. g = io[1] /\ io[1] # -1
      BY <2>1 DEF IoGpr
    <3>2. QED
      BY <1>1, <1>3, <2>1, <3>1
  <2>2. CASE ~(io[1] >= 0 /\ io[1] \notin u) /\ io[2] >= 0 /\ io[2] \notin u
    <3>1. g = io[2] /\ io[2] # -1
      BY <2>2 DEF IoGpr
    <3>2. QED
      BY <1>1, <1>3, <2>2, <3>1
  <2>3. CASE ~(io[1] >= 0 /\ io[1] \notin u) /\ ~(io[2] >= 0 /\ io[2] \notin u)
    <3>1. g = First({h \in Gprs : b.usage[h] = 0})
      BY <2>3 DEF IoGpr
    <3>2. io[1] = -1 \/ (io[1] \in u /\ io[2] = -1)
      BY <1>1, <1>2, <2>3
    <3>3. slot \in 1 .. 2 /\ io[slot] = -1 /\ (slot = 2 => io[1] \in u)
      BY <1>2, <3>2
    <3>4. QED
      BY <3>1, <3>3, SomeFree
  <2>4. QED
    BY <2>1, <2>2, <2>3
<1>5. /\ g \in Gprs /\ g \notin u
  BY <1>4
<1>6. GetIoGpr(b, l, u).b = c /\ GetIoGpr(b, l, u).u = v /\ GetIoGpr(b, l, u).g = g
  BY DEF GetIoGpr, TakeIo
<1>7. c = [b EXCEPT !.usage[g] = @ + 1, !.line[g] = l,
                    !.io[l] = IF g \in ToSet(@) THEN @ ELSE [@ EXCEPT ![slot] = g]]
  BY DEF TakeIo
<1> HIDE DEF c, g, slot
<1>8. c = [usage |-> [b.usage EXCEPT ![g] = @ + 1], line |-> [b.line EXCEPT ![g] = l],
           io |-> [b.io EXCEPT ![l] = IF g \in ToSet(io) THEN io ELSE [io EXCEPT ![slot] = g]]]
  BY <1>1, <1>7
<1>9. /\ \A h \in Gprs : c.usage[h] = IF h = g THEN b.usage[h] + 1 ELSE b.usage[h]
      /\ \A h \in Gprs : c.line[h] = IF h = g THEN l ELSE b.line[h]
      /\ \A k \in Lines : k # l => c.io[k] = b.io[k]
      /\ c.io[l] = IF g \in {io[1], io[2]} THEN io ELSE [io EXCEPT ![slot] = g]
  BY <1>1, <1>5, <1>8
<1>10. \A h \in Gprs : b.usage[h] > 0 => c.line[h] = b.line[h]
  BY <1>4, <1>9
<1>11. c \in Banks
  <2>1. [b.usage EXCEPT ![g] = @ + 1] \in [Gprs -> Nat] /\ [b.line EXCEPT ![g] = l] \in [Gprs -> Lines]
    BY <1>1, <1>5
  <2>2. [io EXCEPT ![slot] = g] \in [1 .. 2 -> Gprs \cup {-1}]
    BY <1>1, <1>5
  <2>3. (IF g \in ToSet(io) THEN io ELSE [io EXCEPT ![slot] = g]) \in [1 .. 2 -> Gprs \cup {-1}]
    BY <1>1, <2>2
  <2>4. QED
    BY <1>1, <1>8, <2>1, <2>3 DEF Banks
<1>12. Table(c)
  <2>1. CASE g \in {io[1], io[2]} /\ b.usage[g] > 0
    <3>1. \A k \in Lines : c.io[k] = b.io[k]
      BY <1>9, <2>1
    <3>2. \A h \in Gprs : c.usage[h] > 0 <=> b.usage[h] > 0
      BY <1>1, <1>9, <2>1
    <3>3. \A k \in Lines : \A j \in 1 .. 2 : b.io[k][j] \in Gprs \cup {-1}
      BY BankFacts
    <3>4. QED
      BY <1>1, <1>10, <3>1, <3>2, <3>3 DEF Table
  <2>2. CASE b.usage[g] = 0 /\ slot \in 1 .. 2 /\ io[slot] = -1 /\ (slot = 2 => io[1] \in u)
    <3>1. \A k \in Lines : \A j \in 1 .. 2 : b.io[k][j] \in Gprs \cup {-1} /\ b.io[k][j] # g
      BY <1>5, <1>2, <2>2, BankFacts DEF Table
    <3>2. g \notin {io[1], io[2]}
      <4>1. 1 \in 1 .. 2 /\ 2 \in 1 .. 2
        OBVIOUS
      <4>2. QED
        BY <3>1, <4>1
    <3>3. \A j \in 1 .. 2 : c.io[l][j] = IF j = slot THEN g ELSE io[j]
      BY <1>1, <1>9, <2>2, <3>2
    <3>4. ASSUME NEW h \in Gprs, c.usage[h] > 0 PROVE \E j \in 1 .. 2 : c.io[c.line[h]][j] = h
      <4>1. CASE h = g
        BY <1>9, <2>2, <3>3, <4>1
      <4>2. CASE h # g
        <5>1. b.usage[h] > 0 /\ c.line[h] = b.line[h] /\ b.line[h] \in Lines
          BY <1>1, <1>9, <3>4, <4>2
        <5>2. PICK j \in 1 .. 2 : b.io[b.line[h]][j] = h
          BY <5>1 DEF Table
        <5>3. CASE b.line[h] = l
          <6>1. j # slot
            BY <1>2, <2>2, <5>2, <5>3
          <6>2. QED
            BY <3>3, <5>1, <5>2, <5>3, <6>1
        <5>4. CASE b.line[h] # l
          BY <1>9, <5>1, <5>2, <5>4
        <5>5. QED
          BY <5>3, <5>4
      <4>3. QED
        BY <4>1, <4>2
    <3>5. ASSUME NEW k \in Lines, NEW j \in 1 .. 2, c.io[k][j] # -1
          PROVE  c.usage[c.io[k][j]] > 0 /\ c.line[c.io[k][j]] = k
      <4>1. CASE k = l /\ j = slot
        <5>1. c.io[k][j] = g
          BY <3>3, <4>1
        <5>2. c.usage[g] = 0 + 1 /\ c.line[g] = l
          BY <1>5, <1>9, <2>2
        <5>3. QED
          BY <4>1, <5>1, <5>2
      <4>2. CASE ~(k = l /\ j = slot)
        <5>1. c.io[k][j] = b.io[k][j]
          <6>1. CASE k = l
            BY <3>3, <4>2, <6>1
          <6>2. CASE k # l
            BY <1>9, <6>2
          <6>3. QED
            BY <6>1, <6>2
        <5>2. b.io[k][j] \in Gprs /\ b.io[k][j] # g
          BY <3>1, <3>5, <5>1
        <5>3. b.usage[b.io[k][j]] > 0 /\ b.line[b.io[k][j]] = k
          BY <3>5, <5>1 DEF Table
        <5>4. QED
          BY <1>9, <5>1, <5>2, <5>3
      <4>3. QED
        BY <4>1, <4>2
    <3>6. ASSUME NEW k \in Lines, c.io[k][1] # -1 PROVE c.io[k][1] # c.io[k][2]
      <4>1. 1 \in 1 .. 2 /\ 2 \in 1 .. 2 /\ (slot = 1 \/ slot = 2)
        BY <2>2
      <4>2. CASE k = l
        <5>1. io[1] # g /\ io[2] # g
          BY <3>2
        <5>2. CASE slot = 1
          BY <3>3, <4>1, <4>2, <5>1, <5>2
        <5>3. CASE slot = 2
          BY <3>3, <4>1, <4>2, <5>1, <5>3
        <5>4. QED
          BY <4>1, <5>2, <5>3
      <4>3. CASE k # l
        BY <1>9, <3>6, <4>3 DEF Table
      <4>4. QED
        BY <4>2, <4>3
    <3>7. QED
      BY <3>4, <3>5, <3>6 DEF Table
  <2>3. QED
    BY <1>4, <2>1, <2>2
<1>13. v \in SUBSET Gprs
  BY <1>5
<1>14. Moves(b, u, c, v)
  <2>1. \A h \in Gprs : /\ h \in u => h \in v
                        /\ h \notin u /\ h \in v <=> h = g
    BY <1>5
  <2>2. ASSUME NEW h \in Gprs
        PROVE /\ h \in u /\ h \notin v => c.usage[h] = b.usage[h] - 1
              /\ h \notin u /\ h \in v => c.usage[h] = b.usage[h] + 1
              /\ (h \in u <=> h \in v) => c.usage[h] = b.usage[h]
              /\ b.usage[h] > 0 /\ c.usage[h] > 0 => c.line[h] = b.line[h]
    BY <1>9, <1>10, <2>1
  <2> HIDE DEF v
  <2>3. QED
    BY <1>11, <1>12, <1>13, <2>2 DEF Moves
<1>15. c.line[g] = l /\ \A h \in u : c.line[h] = b.line[h]
  BY <1>5, <1>9, <1>10
<1>16. QED
  BY <1>5, <1>6, <1>14, <1>15

-----------------------------------------------------------------------------
(* Users of gprs.                                                          *)

\* No gpr has more users than it counts.
Counted(m) ==
    \A g \in Gprs : Cardinality({p \in Patches : g \in m.prog[p].used})
                       + (IF g \in m.routing.used THEN 1 ELSE 0) <= m.bank.usage[g]

LEMMA ProgFacts ==
    ASSUME NEW t \in Progs
    PROVE  /\ t = [used |-> t.used, input |-> t.input, in |-> t.in, out |-> t.out, rd |-> t.rd, wr |-> t.wr]
           /\ t.used \in SUBSET Gprs /\ t.input \in SUBSET Gprs
           /\ t.in \in [Lines -> Operands] /\ t.out \in [Lines -> Operands]
           /\ t.rd \in [Lines -> Operands] /\ t.wr \in [Lines -> Operands]
  BY DEF Progs

LEMMA RoutingFacts ==
    ASSUME NEW r \in Routings
    PROVE  /\ r = [used |-> r.used, in |-> r.in, out |-> r.out, code |-> r.code]
           /\ r.used \in SUBSET Gprs
           /\ r.in \in [Lines -> Operands] /\ r.out \in [Lines -> Operands] /\ r.code \in Seq(Ops)
  BY DEF Routings

LEMMA MgrFacts ==
    ASSUME NEW m \in Mgrs
    PROVE  /\ m = [bank |-> m.bank, prog |-> m.prog, routing |-> m.routing]
           /\ m.bank \in Banks /\ m.routing \in Routings /\ m.prog \in [Patches -> Progs]
           /\ \A p \in Patches : m.prog[p] \in Progs
  BY DEF Mgrs

LEMMA InUse ==
    ASSUME NEW m \in Mgrs, Counted(m)
    PROVE  /\ \A p \in Patches : \A g \in m.prog[p].used : g \in Gprs /\ m.bank.usage[g] > 0
           /\ \A g \in m.routing.used : g \in Gprs /\ m.bank.usage[g] > 0
<1>1. IsFiniteSet(Patches)
  BY Sizes
<1>2. \A g \in Gprs : m.bank.usage[g] \in Nat
  BY MgrFacts, BankFacts
<1>3. m.routing.used \in SUBSET Gprs /\ \A p \in Patches : m.prog[p].used \in SUBSET Gprs
  BY MgrFacts, RoutingFacts, ProgFacts
<1>4. ASSUME NEW g \in Gprs
      PROVE  /\ IsFiniteSet({p \in Patches : g \in m.prog[p].used})
             /\ Cardinality({p \in Patches : g \in m.prog[p].used}) \in Nat
  <2>1. {p \in Patches : g \in m.prog[p].used} \in SUBSET Patches
    OBVIOUS
  <2>2. IsFiniteSet({p \in Patches : g \in m.prog[p].used})
    BY <1>1, <2>1, FS_Subset
  <2>3. QED
    BY <2>2, FS_CardinalityType
<1>5. ASSUME NEW p \in Patches, NEW g \in m.prog[p].used PROVE g \in Gprs /\ m.bank.usage[g] > 0
  <2> DEFINE S == {q \in Patches : g \in m.prog[q].used}
             n == Cardinality(S)
  <2>1. g \in Gprs
    BY <1>3
  <2>2. IsFiniteSet(S) /\ n \in Nat /\ S # {}
    BY <1>4, <2>1
  <2>3. n # 0
    BY <2>2, FS_EmptySet
  <2>4. n + (IF g \in m.routing.used THEN 1 ELSE 0) <= m.bank.usage[g]
    BY <2>1 DEF Counted
  <2> HIDE DEF n
  <2>5. QED
    BY <1>2, <2>1, <2>2, <2>3, <2>4
<1>6. ASSUME NEW g \in m.routing.used PROVE g \in Gprs /\ m.bank.usage[g] > 0
  <2> DEFINE n == Cardinality({q \in Patches : g \in m.prog[q].used})
  <2>1. g \in Gprs
    BY <1>3
  <2>2. n \in Nat
    BY <1>4, <2>1
  <2>3. n + (IF g \in m.routing.used THEN 1 ELSE 0) <= m.bank.usage[g]
    BY <2>1 DEF Counted
  <2> HIDE DEF n
  <2>4. QED
    BY <1>2, <1>6, <2>1, <2>2, <2>3
<1>7. QED
  BY <1>5, <1>6

\* A patch gets another program.
LEMMA Reprogrammed ==
    ASSUME NEW m \in Mgrs, Counted(m), NEW p \in Patches,
           NEW n, n = [bank |-> n.bank, prog |-> n.prog, routing |-> n.routing], n.routing = m.routing,
           n.prog \in [Patches -> Progs], \A q \in Patches : q # p => n.prog[q] = m.prog[q],
           Moves(m.bank, m.prog[p].used, n.bank, n.prog[p].used)
    PROVE  /\ n \in Mgrs /\ Counted(n) /\ Table(n.bank)
           /\ \A q \in Patches : q # p => \A g \in m.prog[q].used : n.bank.line[g] = m.bank.line[g]
           /\ \A g \in m.routing.used : n.bank.line[g] = m.bank.line[g]
           /\ \A g \in m.prog[p].used \cap n.prog[p].used : n.bank.line[g] = m.bank.line[g]
<1> DEFINE c == n.bank
           t == n.prog[p]
<1>1. /\ m = [bank |-> m.bank, prog |-> m.prog, routing |-> m.routing]
      /\ m.bank \in Banks /\ m.routing \in Routings /\ m.prog \in [Patches -> Progs]
  BY MgrFacts
<1>2. c \in Banks /\ Table(c) /\ t.used \in SUBSET Gprs
  BY DEF Moves
<1>3. /\ n.bank = c /\ n.routing = m.routing
      /\ n = [bank |-> n.bank, prog |-> n.prog, routing |-> n.routing]
  OBVIOUS
<1>4. n.prog \in [Patches -> Progs] /\ n.prog[p] = t /\ \A q \in Patches : q # p => n.prog[q] = m.prog[q]
  OBVIOUS
<1>5. n \in Mgrs
  BY <1>1, <1>2, <1>3, <1>4 DEF Mgrs
<1>6. Counted(n)
  <2>1. ASSUME NEW g \in Gprs
        PROVE  Cardinality({q \in Patches : g \in n.prog[q].used})
                  + (IF g \in n.routing.used THEN 1 ELSE 0) <= n.bank.usage[g]
    <3> DEFINE S == {q \in Patches : g \in m.prog[q].used}
               R == {q \in Patches : g \in n.prog[q].used}
               a == Cardinality(S)
               b == Cardinality(R)
               x == IF g \in m.routing.used THEN 1 ELSE 0
    <3>1. S \in SUBSET Patches /\ R \in SUBSET Patches
      OBVIOUS
    <3>2. IsFiniteSet(S) /\ IsFiniteSet(R) /\ a \in Nat /\ b \in Nat
      BY <3>1, Sizes, FS_Subset, FS_CardinalityType
    <3>3. a + x <= m.bank.usage[g] /\ m.bank.usage[g] \in Nat
      BY <1>1, BankFacts DEF Counted
    <3>4. /\ g \in m.prog[p].used /\ g \notin t.used => c.usage[g] = m.bank.usage[g] - 1
          /\ g \notin m.prog[p].used /\ g \in t.used => c.usage[g] = m.bank.usage[g] + 1
          /\ (g \in m.prog[p].used <=> g \in t.used) => c.usage[g] = m.bank.usage[g]
      BY DEF Moves
    <3>5. x \in Nat
      OBVIOUS
    <3>6. CASE g \in m.prog[p].used <=> g \in t.used
      <4>1. R = S
        BY <1>4, <3>6
      <4>2. QED
        BY <1>3, <3>3, <3>4, <3>6, <4>1
    <3>7. CASE g \in m.prog[p].used /\ g \notin t.used
      <4>1. R = S \ {p} /\ p \in S
        BY <1>4, <3>7
      <4>2. b = a - 1
        BY <3>2, <4>1, FS_RemoveElement
      <4> HIDE DEF a, b, x
      <4>3. b + x <= c.usage[g]
        BY <3>2, <3>3, <3>4, <3>5, <3>7, <4>2
      <4>4. QED
        BY <1>3, <4>3 DEF b, x
    <3>8. CASE g \notin m.prog[p].used /\ g \in t.used
      <4>1. R = S \cup {p} /\ p \notin S
        BY <1>4, <3>8
      <4>2. b = a + 1
        BY <3>2, <4>1, FS_AddElement
      <4> HIDE DEF a, b, x
      <4>3. b + x <= c.usage[g]
        BY <3>2, <3>3, <3>4, <3>5, <3>8, <4>2
      <4>4. QED
        BY <1>3, <4>3 DEF b, x
    <3>9. QED
      BY <3>6, <3>7, <3>8
  <2>2. QED
    BY <2>1 DEF Counted
<1>7. \A g \in Gprs : m.bank.usage[g] > 0 /\ c.usage[g] > 0 => c.line[g] = m.bank.line[g]
  BY DEF Moves
<1>8. /\ \A q \in Patches : \A g \in m.prog[q].used : g \in Gprs /\ m.bank.usage[g] > 0
      /\ \A g \in m.routing.used : g \in Gprs /\ m.bank.usage[g] > 0
      /\ \A q \in Patches : \A g \in n.prog[q].used : g \in Gprs /\ n.bank.usage[g] > 0
      /\ \A g \in n.routing.used : g \in Gprs /\ n.bank.usage[g] > 0
  BY <1>5, <1>6, InUse
<1>9. /\ \A q \in Patches : q # p => \A g \in m.prog[q].used : c.line[g] = m.bank.line[g]
      /\ \A g \in m.routing.used : c.line[g] = m.bank.line[g]
      /\ \A g \in m.prog[p].used \cap t.used : c.line[g] = m.bank.line[g]
  BY <1>3, <1>4, <1>7, <1>8
<1>10. QED
  BY <1>2, <1>3, <1>4, <1>5, <1>6, <1>9

\* The routing has other gprs.
LEMMA Rerouted ==
    ASSUME NEW m \in Mgrs, Counted(m),
           NEW n, n = [bank |-> n.bank, prog |-> n.prog, routing |-> n.routing],
           n.prog = m.prog, n.routing \in Routings,
           Moves(m.bank, m.routing.used, n.bank, n.routing.used)
    PROVE  /\ n \in Mgrs /\ Counted(n) /\ Table(n.bank)
           /\ \A q \in Patches : \A g \in m.prog[q].used : n.bank.line[g] = m.bank.line[g]
           /\ \A g \in m.routing.used \cap n.routing.used : n.bank.line[g] = m.bank.line[g]
<1> DEFINE c == n.bank
           v == n.routing.used
<1>1. /\ m = [bank |-> m.bank, prog |-> m.prog, routing |-> m.routing]
      /\ m.bank \in Banks /\ m.routing \in Routings /\ m.prog \in [Patches -> Progs]
  BY MgrFacts
<1>2. c \in Banks /\ Table(c) /\ v \in SUBSET Gprs
  BY DEF Moves
<1>3. /\ n.bank = c /\ n.prog = m.prog
      /\ n = [bank |-> n.bank, prog |-> n.prog, routing |-> n.routing]
  OBVIOUS
<1>4. n.routing.used = v /\ n.routing \in Routings
  OBVIOUS
<1>5. n \in Mgrs
  BY <1>1, <1>2, <1>3, <1>4 DEF Mgrs
<1>6. Counted(n)
  <2>1. ASSUME NEW g \in Gprs
        PROVE  Cardinality({q \in Patches : g \in n.prog[q].used})
                  + (IF g \in n.routing.used THEN 1 ELSE 0) <= n.bank.usage[g]
    <3> DEFINE S == {q \in Patches : g \in m.prog[q].used}
               a == Cardinality(S)
               x == IF g \in m.routing.used THEN 1 ELSE 0
               y == IF g \in v THEN 1 ELSE 0
    <3>1. S \in SUBSET Patches
      OBVIOUS
    <3>2. a \in Nat
      BY <3>1, Sizes, FS_Subset, FS_CardinalityType
    <3>3. a + x <= m.bank.usage[g] /\ m.bank.usage[g] \in Nat
      BY <1>1, BankFacts DEF Counted
    <3>4. /\ g \in m.routing.used /\ g \notin v => c.usage[g] = m.bank.usage[g] - 1
          /\ g \notin m.routing.used /\ g \in v => c.usage[g] = m.bank.usage[g] + 1
          /\ (g \in m.routing.used <=> g \in v) => c.usage[g] = m.bank.usage[g]
      BY DEF Moves
    <3> HIDE DEF a
    <3>5. a + y <= c.usage[g]
      BY <3>2, <3>3, <3>4
    <3>6. QED
      BY <1>3, <1>4, <3>5 DEF a
  <2>2. QED
    BY <2>1 DEF Counted
<1>7. \A g \in Gprs : m.bank.usage[g] > 0 /\ c.usage[g] > 0 => c.line[g] = m.bank.line[g]
  BY DEF Moves
<1>8. /\ \A q \in Patches : \A g \in m.prog[q].used : g \in Gprs /\ m.bank.usage[g] > 0
      /\ \A g \in m.routing.used : g \in Gprs /\ m.bank.usage[g] > 0
      /\ \A q \in Patches : \A g \in n.prog[q].used : g \in Gprs /\ n.bank.usage[g] > 0
      /\ \A g \in n.routing.used : g \in Gprs /\ n.bank.usage[g] > 0
  BY <1>5, <1>6, InUse
<1>9. /\ \A q \in Patches : \A g \in m.prog[q].used : c.line[g] = m.bank.line[g]
      /\ \A g \in m.routing.used \cap v : c.line[g] = m.bank.line[g]
  BY <1>3, <1>4, <1>7, <1>8
<1>10. QED
  BY <1>2, <1>3, <1>4, <1>5, <1>6, <1>9

-----------------------------------------------------------------------------
(* What a program reads and writes.                                        *)

\* On line l, t reads a gpr that is marked as read or the line itself, writes another one
\* that is not or the line itself, and has no other gpr of the line.
AtLine(b, t, l) ==
    /\ t.rd[l] \in {In(l)} \cup GprOps /\ t.wr[l] \in {Out(l)} \cup GprOps /\ t.rd[l] # t.wr[l]
    /\ \A g \in Gprs : /\ g \in t.used /\ b.line[g] = l <=> Gpr(g) \in {t.rd[l], t.wr[l]}
                       /\ g \in t.input /\ b.line[g] = l <=> Gpr(g) = t.rd[l]

Whole(b, p, t) ==
    /\ t.input \subseteq t.used /\ \A g \in t.used : b.line[g] \in LinesOf[p]
    /\ \A l \in LinesOf[p] : AtLine(b, t, l)

LEMMA WholeElsewhere ==
    ASSUME NEW p \in Patches, NEW t \in Progs, NEW b, NEW c, Whole(b, p, t), \A g \in t.used : c.line[g] = b.line[g]
    PROVE  Whole(c, p, t)
<1>1. t.used \in SUBSET Gprs
  BY ProgFacts
<1>2. ASSUME NEW l \in LinesOf[p] PROVE AtLine(c, t, l)
  <2>1. AtLine(b, t, l)
    BY DEF Whole
  <2>2. ASSUME NEW g \in Gprs
        PROVE  /\ g \in t.used /\ c.line[g] = l <=> Gpr(g) \in {t.rd[l], t.wr[l]}
               /\ g \in t.input /\ c.line[g] = l <=> Gpr(g) = t.rd[l]
    <3>1. t.input \subseteq t.used
      BY DEF Whole
    <3>2. QED
      BY <2>1, <3>1 DEF AtLine
  <2>3. QED
    BY <2>1, <2>2 DEF AtLine
<1>3. QED
  BY <1>2 DEF Whole

\* A program that differs on line l only.
LEMMA WholeAgain ==
    ASSUME NEW p \in Patches, NEW l \in LinesOf[p], NEW b, NEW c, NEW t, NEW v \in Progs,
           Whole(b, p, t), NEW r \in {In(l)} \cup GprOps, NEW w \in {Out(l)} \cup GprOps, r # w,
           v.rd[l] = r, v.wr[l] = w,
           \A k \in LinesOf[p] : k # l => v.rd[k] = t.rd[k] /\ v.wr[k] = t.wr[k],
           \A g \in Gprs : g \in v.used <=> (g \in t.used /\ b.line[g] # l) \/ Gpr(g) \in {r, w},
           \A g \in Gprs : g \in v.input <=> (g \in t.input /\ b.line[g] # l) \/ Gpr(g) = r,
           \A g \in Gprs : Gpr(g) \in {r, w} => c.line[g] = l,
           \A g \in t.used : b.line[g] # l => c.line[g] = b.line[g]
    PROVE  Whole(c, p, v)
<1>1. v.used \in SUBSET Gprs /\ v.input \in SUBSET Gprs
  BY ProgFacts
<1>2. t.input \subseteq t.used /\ \A g \in t.used : b.line[g] \in LinesOf[p]
  BY DEF Whole
<1>3. v.input \subseteq v.used
  BY <1>1, <1>2
<1>4. \A g \in v.used : c.line[g] \in LinesOf[p]
  BY <1>1, <1>2
<1>5. AtLine(c, v, l)
  <2>1. ASSUME NEW g \in Gprs
        PROVE  /\ g \in v.used /\ c.line[g] = l <=> Gpr(g) \in {v.rd[l], v.wr[l]}
               /\ g \in v.input /\ c.line[g] = l <=> Gpr(g) = v.rd[l]
    BY <1>2
  <2>2. QED
    BY <2>1 DEF AtLine
<1>6. ASSUME NEW k \in LinesOf[p], k # l PROVE AtLine(c, v, k)
  <2>1. AtLine(b, t, k) /\ v.rd[k] = t.rd[k] /\ v.wr[k] = t.wr[k]
    BY <1>6 DEF Whole
  <2>2. ASSUME NEW g \in Gprs
        PROVE  /\ g \in v.used /\ c.line[g] = k <=> Gpr(g) \in {v.rd[k], v.wr[k]}
               /\ g \in v.input /\ c.line[g] = k <=> Gpr(g) = v.rd[k]
    <3>1. /\ g \in t.used /\ b.line[g] = k <=> Gpr(g) \in {t.rd[k], t.wr[k]}
          /\ g \in t.input /\ b.line[g] = k <=> Gpr(g) = t.rd[k]
      BY <2>1 DEF AtLine
    <3>2. QED
      BY <1>2, <1>6, <2>1, <3>1
  <2>3. QED
    BY <2>1, <2>2 DEF AtLine
<1>7. QED
  BY <1>3, <1>4, <1>5, <1>6 DEF Whole

\* No other line has an operand of line l.
LEMMA OtherLines ==
    ASSUME NEW p \in Patches, NEW b, NEW t, Whole(b, p, t), NEW l \in LinesOf[p], NEW k \in LinesOf[p], k # l
    PROVE  t.rd[k] \notin {t.rd[l], t.wr[l]} /\ t.wr[k] \notin {t.rd[l], t.wr[l]}
<1>1. AtLine(b, t, l) /\ AtLine(b, t, k)
  BY DEF Whole
<1>2. ASSUME NEW x \in {t.rd[k], t.wr[k]}, NEW y \in {t.rd[l], t.wr[l]}, x = y PROVE FALSE
  <2>1. CASE x \in GprOps
    <3>1. PICK g \in Gprs : x = Gpr(g)
      BY <2>1 DEF GprOps
    <3>2. b.line[g] = k /\ b.line[g] = l
      BY <1>1, <1>2, <3>1 DEF AtLine
    <3>3. QED
      BY <3>2
  <2>2. CASE x \notin GprOps
    <3>1. x \in {In(k), Out(k)} /\ y \in {In(l), Out(l)}
      BY <1>1, <1>2, <2>2 DEF AtLine
    <3>2. QED
      BY <1>2, <3>1, OperandFacts
  <2>3. QED
    BY <2>1, <2>2
<1>3. QED
  BY <1>2

LEMMA ReplaceIs ==
    ASSUME NEW t \in Progs, NEW S, NEW change \in [S -> Operands]
    PROVE  LET v == Replace(t, change)
           IN /\ v \in Progs
              /\ v.used = t.used /\ v.input = t.input /\ v.in = t.in /\ v.out = t.out
              /\ \A k \in Lines : v.rd[k] = IF t.rd[k] \in S THEN change[t.rd[k]] ELSE t.rd[k]
              /\ \A k \in Lines : v.wr[k] = IF t.wr[k] \in S THEN change[t.wr[k]] ELSE t.wr[k]
<1> DEFINE v == Replace(t, change)
           rd == [l \in Lines |-> IF t.rd[l] \in DOMAIN change THEN change[t.rd[l]] ELSE t.rd[l]]
           wr == [l \in Lines |-> IF t.wr[l] \in DOMAIN change THEN change[t.wr[l]] ELSE t.wr[l]]
<1>1. /\ t = [used |-> t.used, input |-> t.input, in |-> t.in, out |-> t.out, rd |-> t.rd, wr |-> t.wr]
      /\ t.used \in SUBSET Gprs /\ t.input \in SUBSET Gprs
      /\ t.in \in [Lines -> Operands] /\ t.out \in [Lines -> Operands]
      /\ t.rd \in [Lines -> Operands] /\ t.wr \in [Lines -> Operands]
  BY ProgFacts
<1>2. v = [used |-> t.used, input |-> t.input, in |-> t.in, out |-> t.out, rd |-> rd, wr |-> wr]
  <2>1. v = [t EXCEPT !.rd = rd, !.wr = wr]
    BY DEF Replace
  <2> HIDE DEF v, rd, wr
  <2>2. QED
    BY <1>1, <2>1
<1>3. rd \in [Lines -> Operands] /\ wr \in [Lines -> Operands]
  BY <1>1
<1>4. /\ \A k \in Lines : rd[k] = IF t.rd[k] \in S THEN change[t.rd[k]] ELSE t.rd[k]
      /\ \A k \in Lines : wr[k] = IF t.wr[k] \in S THEN change[t.wr[k]] ELSE t.wr[k]
  OBVIOUS
<1> HIDE DEF rd, wr, v
<1>5. v \in Progs
  BY <1>1, <1>2, <1>3 DEF Progs
<1>6. QED
  BY <1>2, <1>4, <1>5 DEF v

\* What match_io() makes of bank and program: the program reads r on line l, the line goes
\* on where it writes, and nothing is different on the other lines.
Rewired(b, p, t, l, r, c, v, w) ==
    /\ v \in Progs /\ w \in Operands /\ Moves(b, t.used, c, v.used) /\ Whole(c, p, v)
    /\ v.rd[l] = r /\ v.wr[l] = w
    /\ t.rd[l] \in GprOps => v.out[l] = w
    /\ w = t.wr[l] \/ w \in GprOps
    /\ w \in {t.rd[l], t.wr[l]} \/ \E h \in Gprs : w = Gpr(h) /\ b.usage[h] > 0
    /\ r # t.wr[l] => w = t.wr[l]
    /\ \A k \in LinesOf[p] : k # l => /\ v.rd[k] = t.rd[k] /\ v.wr[k] = t.wr[k]
                                      /\ v.in[k] = t.in[k] /\ v.out[k] = t.out[k]

LEMMA Stays ==
    ASSUME NEW b \in Banks, Table(b), NEW u \in SUBSET Gprs
    PROVE  Moves(b, u, b, u)
  BY DEF Moves

LEMMA NowReadsIs ==
    ASSUME NEW t \in Progs, NEW i, NEW r, NEW v, v = NowReads(t, i, r), GprsOf(r) \subseteq Gprs
    PROVE  /\ v = [used |-> t.used, input |-> (t.input \ GprsOf(i)) \cup GprsOf(r),
                   in |-> t.in, out |-> t.out, rd |-> t.rd, wr |-> t.wr]
           /\ v \in Progs
<1>1. v = [t EXCEPT !.input = (@ \ GprsOf(i)) \cup GprsOf(r)]
  BY DEF NowReads
<1> DEFINE input == (t.input \ GprsOf(i)) \cup GprsOf(r)
<1>2. input \in SUBSET Gprs
  BY ProgFacts
<1>3. v = [used |-> t.used, input |-> input, in |-> t.in, out |-> t.out, rd |-> t.rd, wr |-> t.wr]
  BY <1>1, ProgFacts
<1> HIDE DEF input
<1>4. v \in Progs
  BY <1>2, <1>3, ProgFacts DEF Progs
<1>5. QED
  BY <1>3, <1>4 DEF input

\* What a line stands at: the line itself, or an IO gpr of it in use.
Standing(b, l, r) ==
    \/ r = In(l)
    \/ \E h \in Gprs : r = Gpr(h) /\ b.usage[h] > 0 /\ b.line[h] = l

LEMMA StandingFacts ==
    ASSUME NEW b, NEW l \in Lines, NEW r, Standing(b, l, r)
    PROVE  /\ r \in Operands /\ r \in {In(l)} \cup GprOps /\ GprsOf(r) \in SUBSET Gprs
           /\ \A g \in Gprs : g \in GprsOf(r) <=> Gpr(g) = r
           /\ \A g \in GprsOf(r) : b.usage[g] > 0 /\ b.line[g] = l
<1>1. CASE r = In(l)
  BY <1>1, OperandFacts, OperandTypes
<1>2. CASE r # In(l)
  <2>1. PICK h \in Gprs : r = Gpr(h) /\ b.usage[h] > 0 /\ b.line[h] = l
    BY <1>2 DEF Standing
  <2>2. GprsOf(r) = {h} /\ r \in GprOps /\ r \in Operands
    BY <2>1, OperandFacts, OperandTypes DEF GprOps
  <2>3. \A g \in Gprs : g \in GprsOf(r) <=> Gpr(g) = r
    BY <2>1, <2>2, OperandFacts
  <2>4. QED
    BY <2>1, <2>2, <2>3
<1>3. QED
  BY <1>1, <1>2

\* The operands of a line.
LEMMA LineFacts ==
    ASSUME NEW p \in Patches, NEW b, NEW t \in Progs, Whole(b, p, t), NEW l \in LinesOf[p],
           NEW x \in {t.rd[l], t.wr[l]}
    PROVE  /\ l \in Lines /\ x \in Operands /\ GprsOf(x) \in SUBSET Gprs
           /\ x \in GprOps <=> IsGpr(x)
           /\ \A g \in Gprs : g \in GprsOf(x) <=> Gpr(g) = x
           /\ \A g \in GprsOf(x) : g \in t.used /\ b.line[g] = l
<1>1. AtLine(b, t, l) /\ l \in Lines
  BY Sizes DEF Whole
<1>2. CASE x \in GprOps
  <2>1. PICK h \in Gprs : x = Gpr(h)
    BY <1>2 DEF GprOps
  <2>2. GprsOf(x) = {h} /\ IsGpr(x) /\ x \in Operands
    BY <2>1, OperandFacts, OperandTypes
  <2>3. \A g \in Gprs : g \in GprsOf(x) <=> Gpr(g) = x
    BY <2>1, <2>2, OperandFacts
  <2>4. h \in t.used /\ b.line[h] = l
    BY <1>1, <2>1 DEF AtLine
  <2>5. QED
    BY <1>1, <1>2, <2>1, <2>2, <2>3, <2>4
<1>3. CASE x \notin GprOps
  <2>1. x \in {In(l), Out(l)}
    BY <1>1, <1>3 DEF AtLine
  <2>2. QED
    BY <1>1, <1>3, <2>1, OperandFacts, OperandTypes
<1>4. QED
  BY <1>2, <1>3

LEMMA InOutIs ==
    ASSUME NEW t \in Progs, NEW l \in Lines, NEW i \in Operands, NEW o \in Operands,
           NEW v, v = [t EXCEPT !.in[l] = i, !.out[l] = o]
    PROVE  /\ v = [used |-> t.used, input |-> t.input,
                   in |-> [t.in EXCEPT ![l] = i], out |-> [t.out EXCEPT ![l] = o],
                   rd |-> t.rd, wr |-> t.wr]
           /\ v \in Progs
<1>1. v = [used |-> t.used, input |-> t.input,
           in |-> [t.in EXCEPT ![l] = i], out |-> [t.out EXCEPT ![l] = o], rd |-> t.rd, wr |-> t.wr]
  <2>1. /\ t = [used |-> t.used, input |-> t.input, in |-> t.in, out |-> t.out, rd |-> t.rd, wr |-> t.wr]
        /\ t.in \in [Lines -> Operands] /\ t.out \in [Lines -> Operands]
    BY ProgFacts
  <2>2. QED
    BY <2>1
<1>2. [t.in EXCEPT ![l] = i] \in [Lines -> Operands] /\ [t.out EXCEPT ![l] = o] \in [Lines -> Operands]
  BY ProgFacts
<1>3. v \in Progs
  BY <1>1, <1>2, ProgFacts DEF Progs
<1>4. QED
  BY <1>1, <1>3

LEMMA MatchSwap ==
    ASSUME NEW p \in Patches, NEW b \in Banks, Table(b), NEW t \in Progs, Whole(b, p, t),
           NEW l \in LinesOf[p], t.wr[l] \in GprOps, t.rd[l] \in GprOps,
           NEW n, n = Swap([b |-> b, t |-> t, in |-> t.wr[l]], l, t.rd[l], t.wr[l])
    PROVE  n = [b |-> n.b, t |-> n.t, in |-> n.in] /\ Rewired(b, p, t, l, t.wr[l], n.b, n.t, n.in)
<1> DEFINE i == t.rd[l]
           o == t.wr[l]
           x == NowReads(t, i, o)
           y == [x EXCEPT !.in[l] = o, !.out[l] = i]
           change == [a \in {i, o} |-> IF a = o THEN i ELSE o]
           v == Replace(y, change)
<1>1. n = [b |-> b, t |-> v, in |-> i]
  BY DEF Swap
<1>2. AtLine(b, t, l) /\ LinesOf[p] \subseteq Lines
  BY Sizes DEF Whole
<1>3. i # o /\ i \in Operands /\ o \in Operands /\ l \in Lines
  BY <1>2, LineFacts DEF AtLine
<1>4. /\ GprsOf(i) \in SUBSET Gprs /\ GprsOf(o) \in SUBSET Gprs
      /\ \A g \in Gprs : (g \in GprsOf(i) <=> Gpr(g) = i) /\ (g \in GprsOf(o) <=> Gpr(g) = o)
  BY LineFacts
<1>5. /\ x \in Progs
      /\ x = [used |-> t.used, input |-> (t.input \ GprsOf(i)) \cup GprsOf(o),
              in |-> t.in, out |-> t.out, rd |-> t.rd, wr |-> t.wr]
  BY <1>4, NowReadsIs
<1> HIDE DEF x
<1>6. t.in \in [Lines -> Operands] /\ t.out \in [Lines -> Operands]
  BY ProgFacts
<1>7. /\ y = [used |-> t.used, input |-> (t.input \ GprsOf(i)) \cup GprsOf(o),
              in |-> [t.in EXCEPT ![l] = o], out |-> [t.out EXCEPT ![l] = i], rd |-> t.rd, wr |-> t.wr]
      /\ y \in Progs
  <2>1. /\ y = [used |-> x.used, input |-> x.input,
                in |-> [x.in EXCEPT ![l] = o], out |-> [x.out EXCEPT ![l] = i], rd |-> x.rd, wr |-> x.wr]
        /\ y \in Progs
    BY Zenon, <1>3, <1>5, InOutIs
  <2>2. QED
    BY <1>5, <2>1
<1> HIDE DEF y, i, o
<1>8. /\ v \in Progs
      /\ v.used = y.used /\ v.input = y.input /\ v.in = y.in /\ v.out = y.out
      /\ \A k \in Lines : v.rd[k] = IF y.rd[k] = i THEN o ELSE IF y.rd[k] = o THEN i ELSE y.rd[k]
      /\ \A k \in Lines : v.wr[k] = IF y.wr[k] = i THEN o ELSE IF y.wr[k] = o THEN i ELSE y.wr[k]
  <2> DEFINE S == {i, o}
  <2>1. change \in [S -> Operands] /\ change[i] = o /\ change[o] = i
    BY <1>3
  <2>2. y \in Progs /\ v = Replace(y, change)
    BY <1>7
  <2> HIDE DEF change, S, v
  <2>3. /\ v \in Progs
        /\ v.used = y.used /\ v.input = y.input /\ v.in = y.in /\ v.out = y.out
        /\ \A k \in Lines : v.rd[k] = IF y.rd[k] \in S THEN change[y.rd[k]] ELSE y.rd[k]
        /\ \A k \in Lines : v.wr[k] = IF y.wr[k] \in S THEN change[y.wr[k]] ELSE y.wr[k]
    BY <2>1, <2>2, ReplaceIs
  <2>4. QED
    BY <1>3, <2>1, <2>3 DEF S
<1> HIDE DEF v
<1>9. v.rd[l] = o /\ v.wr[l] = i /\ v.in[l] = o /\ v.out[l] = i
  BY <1>3, <1>6, <1>7, <1>8 DEF i, o
<1>10. ASSUME NEW k \in LinesOf[p], k # l
       PROVE  v.rd[k] = t.rd[k] /\ v.wr[k] = t.wr[k] /\ v.in[k] = t.in[k] /\ v.out[k] = t.out[k]
  <2>1. t.rd[k] \notin {i, o} /\ t.wr[k] \notin {i, o}
    BY <1>10, OtherLines DEF i, o
  <2>2. k \in Lines
    BY <1>2
  <2>3. QED
    BY <1>6, <1>7, <1>8, <1>10, <2>1, <2>2
<1>11. /\ v.used = t.used /\ v.input = (t.input \ GprsOf(i)) \cup GprsOf(o)
  BY <1>7, <1>8
<1>12. /\ \A g \in Gprs : g \in v.used <=> (g \in t.used /\ b.line[g] # l) \/ Gpr(g) \in {o, i}
       /\ \A g \in Gprs : g \in v.input <=> (g \in t.input /\ b.line[g] # l) \/ Gpr(g) = o
       /\ \A g \in Gprs : Gpr(g) \in {o, i} => b.line[g] = l
  BY <1>2, <1>3, <1>4, <1>11 DEF AtLine, i, o
<1>13. Whole(b, p, v)
  <2>1. o \in {In(l)} \cup GprOps /\ i \in {Out(l)} \cup GprOps /\ o # i
    BY <1>3 DEF i, o
  <2>2. QED
    BY <1>8, <1>9, <1>10, <1>12, <2>1, WholeAgain
<1>14. Moves(b, t.used, b, v.used)
  BY <1>11, ProgFacts, Stays
<1>15. Rewired(b, p, t, l, o, b, v, i)
  BY <1>3, <1>8, <1>9, <1>10, <1>13, <1>14 DEF Rewired, i, o
<1>16. QED
  BY <1>1, <1>15 DEF o

LEMMA MovesOn ==
    ASSUME NEW b \in Banks, NEW u, NEW c, NEW v, NEW d, NEW w, Moves(b, u, c, v), Moves(c, v, d, w),
           \A g \in Gprs : b.usage[g] > 0 /\ d.usage[g] > 0 => c.usage[g] > 0
    PROVE  Moves(b, u, d, w)
<1>1. c \in Banks /\ d \in Banks /\ w \in SUBSET Gprs /\ Table(d)
  BY DEF Moves
<1>2. ASSUME NEW g \in Gprs
      PROVE  /\ g \in u /\ g \notin w => d.usage[g] = b.usage[g] - 1
             /\ g \notin u /\ g \in w => d.usage[g] = b.usage[g] + 1
             /\ (g \in u <=> g \in w) => d.usage[g] = b.usage[g]
             /\ b.usage[g] > 0 /\ d.usage[g] > 0 => d.line[g] = b.line[g]
  <2>1. b.usage[g] \in Nat /\ c.usage[g] \in Nat /\ d.usage[g] \in Nat
    BY <1>1, BankFacts
  <2>2. /\ g \in u /\ g \notin v => c.usage[g] = b.usage[g] - 1
        /\ g \notin u /\ g \in v => c.usage[g] = b.usage[g] + 1
        /\ (g \in u <=> g \in v) => c.usage[g] = b.usage[g]
        /\ b.usage[g] > 0 /\ c.usage[g] > 0 => c.line[g] = b.line[g]
    BY DEF Moves
  <2>3. /\ g \in v /\ g \notin w => d.usage[g] = c.usage[g] - 1
        /\ g \notin v /\ g \in w => d.usage[g] = c.usage[g] + 1
        /\ (g \in v <=> g \in w) => d.usage[g] = c.usage[g]
        /\ c.usage[g] > 0 /\ d.usage[g] > 0 => d.line[g] = c.line[g]
    BY DEF Moves
  <2>4. QED
    BY <2>1, <2>2, <2>3
<1>3. QED
  BY <1>1, <1>2 DEF Moves

LEMMA UsedIs ==
    ASSUME NEW t \in Progs, NEW u \in SUBSET Gprs, NEW v, v = [t EXCEPT !.used = u]
    PROVE  /\ v = [used |-> u, input |-> t.input, in |-> t.in, out |-> t.out, rd |-> t.rd, wr |-> t.wr]
           /\ v \in Progs
<1>1. v = [used |-> u, input |-> t.input, in |-> t.in, out |-> t.out, rd |-> t.rd, wr |-> t.wr]
  <2>1. t = [used |-> t.used, input |-> t.input, in |-> t.in, out |-> t.out, rd |-> t.rd, wr |-> t.wr]
    BY ProgFacts
  <2>2. QED
    BY <2>1
<1>2. v \in Progs
  BY <1>1, ProgFacts DEF Progs
<1>3. QED
  BY <1>1, <1>2

LEMMA MatchRethread ==
    ASSUME NEW p \in Patches, NEW b \in Banks, Table(b), NEW t \in Progs, Whole(b, p, t),
           \A g \in t.used : b.usage[g] > 0,
           NEW l \in LinesOf[p], t.out[l] = t.wr[l],
           NEW r, Standing(b, l, r), r # t.rd[l], r # t.wr[l],
           NEW n, n = Rethread([b |-> b, t |-> t, in |-> r], t.rd[l], t.wr[l])
    PROVE  n = [b |-> n.b, t |-> n.t, in |-> n.in] /\ Rewired(b, p, t, l, r, n.b, n.t, n.in)
<1> DEFINE i == t.rd[l]
           o == t.wr[l]
           e == FreeGprs(b, t.used, GprsOf(i))
           f == GetGprs(e.b, e.u, GprsOf(r))
           x == NowReads(t, i, r)
           y == [x EXCEPT !.used = f.u]
           change == [a \in {i} |-> r]
           v == Replace(y, change)
<1>1. n = [b |-> f.b, t |-> v, in |-> o]
  BY DEF Rethread, FreeOf, TakeOf
<1>2. AtLine(b, t, l) /\ LinesOf[p] \subseteq Lines /\ l \in Lines
  BY Sizes DEF Whole
<1>3. i # o /\ i \in Operands /\ o \in Operands /\ r \in Operands /\ r \in {In(l)} \cup GprOps
  BY <1>2, LineFacts, StandingFacts DEF AtLine
<1>4. /\ GprsOf(i) \in SUBSET Gprs /\ GprsOf(r) \in SUBSET Gprs
      /\ \A g \in Gprs : (g \in GprsOf(i) <=> Gpr(g) = i) /\ (g \in GprsOf(r) <=> Gpr(g) = r)
      /\ \A g \in GprsOf(r) : b.usage[g] > 0 /\ b.line[g] = l
  BY <1>2, LineFacts, StandingFacts
<1>5. t.used \in SUBSET Gprs
  BY ProgFacts
<1>6. /\ \A g \in Gprs : g \in t.used /\ b.line[g] = l <=> Gpr(g) \in {i, o}
      /\ \A g \in Gprs : g \in t.input /\ b.line[g] = l <=> Gpr(g) = i
  BY <1>2 DEF AtLine
<1>7. Moves(b, t.used, e.b, e.u) /\ e.u = t.used \ GprsOf(i)
  <2> DEFINE u == t.used
             S == GprsOf(i)
  <2>1. u \in SUBSET Gprs /\ \A g \in u : b.usage[g] > 0
    BY <1>5
  <2> HIDE DEF u, S
  <2>2. Moves(b, u, FreeGprs(b, u, S).b, FreeGprs(b, u, S).u) /\ FreeGprs(b, u, S).u = u \ S
    BY Zenon, <2>1, FreeMoves
  <2>3. QED
    BY <2>2 DEF u, S
<1> HIDE DEF e
<1>8. e.b \in Banks /\ Table(e.b) /\ e.u \in SUBSET Gprs
  BY <1>7 DEF Moves
<1>9. \A g \in GprsOf(r) : e.b.usage[g] = b.usage[g] /\ e.b.usage[g] > 0
  <2>1. ASSUME NEW g \in GprsOf(r) PROVE e.b.usage[g] = b.usage[g] /\ b.usage[g] > 0
    <3>1. g \in Gprs /\ g \notin GprsOf(i)
      BY <1>4
    <3>2. g \in t.used <=> g \in e.u
      BY <1>7, <3>1
    <3>3. QED
      BY <1>4, <1>7, <3>1, <3>2 DEF Moves
  <2>2. QED
    BY <2>1
<1>10. Moves(e.b, e.u, f.b, f.u) /\ f.u = e.u \cup GprsOf(r)
  <2> DEFINE c == e.b
             u == e.u
             S == GprsOf(r)
  <2>1. c \in Banks /\ Table(c) /\ u \in SUBSET Gprs /\ S \in SUBSET Gprs
        /\ \A g \in S : c.usage[g] > 0
    BY <1>4, <1>8, <1>9
  <2> HIDE DEF c, u, S
  <2>2. Moves(c, u, GetGprs(c, u, S).b, GetGprs(c, u, S).u) /\ GetGprs(c, u, S).u = u \cup S
    BY Zenon, <2>1, GetMoves
  <2>3. QED
    BY <2>2 DEF c, u, S
<1> HIDE DEF f, i, o
<1>11. ASSUME NEW g \in Gprs, b.usage[g] > 0, f.b.usage[g] > 0 PROVE e.b.usage[g] > 0
  <2>1. CASE g \in GprsOf(r)
    BY <1>9, <2>1
  <2>2. CASE g \notin GprsOf(r)
    <3>1. g \in e.u <=> g \in f.u
      BY <1>10, <2>2
    <3>2. f.b.usage[g] = e.b.usage[g]
      BY <1>10, <3>1 DEF Moves
    <3>3. QED
      BY <1>11, <3>2
  <2>3. QED
    BY <2>1, <2>2
<1>12. Moves(b, t.used, f.b, f.u)
  BY <1>7, <1>10, <1>11, MovesOn
<1>13. f.u = (t.used \ GprsOf(i)) \cup GprsOf(r) /\ f.u \in SUBSET Gprs
  BY <1>7, <1>8, <1>10, <1>4
<1>14. /\ \A g \in Gprs : g \in f.u <=> (g \in t.used /\ b.line[g] # l) \/ Gpr(g) \in {r, o}
  BY <1>3, <1>4, <1>6, <1>13
<1>15. /\ x \in Progs
       /\ x = [used |-> t.used, input |-> (t.input \ GprsOf(i)) \cup GprsOf(r),
               in |-> t.in, out |-> t.out, rd |-> t.rd, wr |-> t.wr]
  BY <1>4, NowReadsIs
<1> HIDE DEF x
<1>16. /\ y \in Progs
       /\ y = [used |-> f.u, input |-> (t.input \ GprsOf(i)) \cup GprsOf(r),
               in |-> t.in, out |-> t.out, rd |-> t.rd, wr |-> t.wr]
  <2>1. y = [used |-> f.u, input |-> x.input, in |-> x.in, out |-> x.out, rd |-> x.rd, wr |-> x.wr] /\ y \in Progs
    BY <1>13, <1>15, UsedIs
  <2>2. QED
    BY <1>15, <2>1
<1> HIDE DEF y
<1>17. /\ v \in Progs
       /\ v.used = y.used /\ v.input = y.input /\ v.in = y.in /\ v.out = y.out
       /\ \A k \in Lines : v.rd[k] = IF y.rd[k] = i THEN r ELSE y.rd[k]
       /\ \A k \in Lines : v.wr[k] = IF y.wr[k] = i THEN r ELSE y.wr[k]
  <2> DEFINE S == {i}
  <2>1. change \in [S -> Operands] /\ change[i] = r
    BY <1>3
  <2>2. y \in Progs /\ v = Replace(y, change)
    BY <1>16
  <2> HIDE DEF change, S, v
  <2>3. /\ v \in Progs
        /\ v.used = y.used /\ v.input = y.input /\ v.in = y.in /\ v.out = y.out
        /\ \A k \in Lines : v.rd[k] = IF y.rd[k] \in S THEN change[y.rd[k]] ELSE y.rd[k]
        /\ \A k \in Lines : v.wr[k] = IF y.wr[k] \in S THEN change[y.wr[k]] ELSE y.wr[k]
    BY <2>1, <2>2, ReplaceIs
  <2>4. QED
    BY <2>1, <2>3 DEF S
<1> HIDE DEF v
<1>18. v.rd[l] = r /\ v.wr[l] = o /\ v.out[l] = o
  BY <1>2, <1>3, <1>16, <1>17 DEF i, o
<1>19. ASSUME NEW k \in LinesOf[p], k # l
       PROVE  v.rd[k] = t.rd[k] /\ v.wr[k] = t.wr[k] /\ v.in[k] = t.in[k] /\ v.out[k] = t.out[k]
  <2>1. t.rd[k] # i /\ t.wr[k] # i
    BY <1>19, OtherLines DEF i
  <2>2. k \in Lines
    BY <1>2
  <2>3. QED
    BY <1>16, <1>17, <2>1, <2>2
<1>20. v.used = f.u /\ v.input = (t.input \ GprsOf(i)) \cup GprsOf(r)
  BY <1>16, <1>17
<1>21. \A g \in Gprs : g \in v.input <=> (g \in t.input /\ b.line[g] # l) \/ Gpr(g) = r
  BY <1>4, <1>6, <1>20
<1>22. \A g \in Gprs : Gpr(g) \in {r, o} => f.b.line[g] = l
  <2>1. ASSUME NEW g \in Gprs, Gpr(g) = r PROVE f.b.line[g] = l
    <3>1. g \in GprsOf(r) /\ g \in f.u
      BY <1>4, <1>14, <2>1
    <3>2. e.b.usage[g] = b.usage[g] /\ b.usage[g] > 0 /\ b.line[g] = l
      BY <1>4, <1>9, <3>1
    <3>3. f.b.usage[g] > 0
      BY <1>8, <1>10, <3>1, <3>2, BankFacts DEF Moves
    <3>4. QED
      BY <1>12, <3>2, <3>3 DEF Moves
  <2>2. ASSUME NEW g \in Gprs, Gpr(g) = o PROVE f.b.line[g] = l
    <3>1. g \in t.used /\ b.line[g] = l /\ g \in f.u /\ b.usage[g] > 0
      BY <1>6, <1>14, <2>2
    <3>2. f.b.usage[g] = b.usage[g]
      BY <1>12, <3>1 DEF Moves
    <3>3. QED
      BY <1>12, <3>1, <3>2 DEF Moves
  <2>3. QED
    BY <2>1, <2>2
<1>23. \A g \in t.used : b.line[g] # l => f.b.line[g] = b.line[g]
  <2>1. ASSUME NEW g \in t.used, b.line[g] # l PROVE f.b.line[g] = b.line[g]
    <3>1. g \in Gprs /\ g \in f.u /\ b.usage[g] > 0
      BY <1>5, <1>14, <2>1
    <3>2. f.b.usage[g] = b.usage[g]
      BY <1>12, <3>1 DEF Moves
    <3>3. QED
      BY <1>12, <3>1, <3>2 DEF Moves
  <2>2. QED
    BY <2>1
<1>24. Whole(f.b, p, v)
  <2>1. o \in {Out(l)} \cup GprOps /\ r # o
    BY <1>2 DEF AtLine, o
  <2>2. QED
    BY <1>3, <1>14, <1>17, <1>18, <1>19, <1>20, <1>21, <1>22, <1>23, <2>1, WholeAgain
<1>25. Rewired(b, p, t, l, r, f.b, v, o)
  <2>1. Moves(b, t.used, f.b, v.used)
    BY <1>12, <1>20
  <2>2. QED
    BY <1>3, <1>17, <1>18, <1>19, <1>24, <2>1 DEF Rewired, o
<1>26. QED
  BY <1>1, <1>25

\* The line l has the two IO gprs slots, and the one that is not w is in use.
Spare(b, l, w, slots) ==
    \E g \in Gprs, h \in Gprs :
        /\ g # h /\ w = Gpr(h) /\ b.usage[g] > 0 /\ b.line[g] = l
        /\ \/ slots[1] = g /\ slots[2] = h
           \/ slots[1] = h /\ slots[2] = g

LEMMA MatchTake ==
    ASSUME NEW p \in Patches, NEW b \in Banks, Table(b), NEW t \in Progs, Whole(b, p, t),
           \A g \in t.used : b.usage[g] > 0,
           NEW l \in LinesOf[p], t.rd[l] = In(l),
           NEW slots, Spare(b, l, t.wr[l], slots),
           NEW n, n = TakeOther([b |-> b, t |-> t, in |-> t.wr[l]], l, slots, t.rd[l], t.wr[l])
    PROVE  n = [b |-> n.b, t |-> n.t, in |-> n.in] /\ Rewired(b, p, t, l, t.wr[l], n.b, n.t, n.in)
<1>1. PICK g \in Gprs, h \in Gprs :
         /\ g # h /\ t.wr[l] = Gpr(h) /\ b.usage[g] > 0 /\ b.line[g] = l
         /\ \/ slots[1] = g /\ slots[2] = h
            \/ slots[1] = h /\ slots[2] = g
  BY Zenon DEF Spare
<1> DEFINE i == t.rd[l]
           o == t.wr[l]
           z == Gpr(g)
           f == GetGprs(b, t.used, {g})
           x == NowReads(t, i, o)
           y == [x EXCEPT !.in[l] = z, !.used = f.u]
           change == [a \in {i, o} |-> IF a = o THEN z ELSE o]
           v == Replace(y, change)
<1>2. n = [b |-> f.b, t |-> v, in |-> z]
  <2>1. (IF t.wr[l] = Gpr(slots[2]) THEN slots[1] ELSE slots[2]) = g
    BY <1>1, OperandFacts
  <2>2. QED
    BY <2>1 DEF TakeOther
<1>3. AtLine(b, t, l) /\ LinesOf[p] \subseteq Lines /\ l \in Lines
  BY Sizes DEF Whole
<1>4. /\ i = In(l) /\ o = Gpr(h) /\ i # o /\ i # z /\ o # z
      /\ i \in Operands /\ o \in Operands /\ z \in Operands /\ z \in GprOps
  BY <1>1, <1>3, OperandFacts, OperandTypes DEF GprOps
<1>5. GprsOf(i) = {} /\ GprsOf(o) = {h} /\ GprsOf(o) \subseteq Gprs
  BY <1>4, OperandFacts
<1>6. t.used \in SUBSET Gprs
  BY ProgFacts
<1>7. /\ \A e \in Gprs : e \in t.used /\ b.line[e] = l <=> e = h
      /\ \A e \in Gprs : ~(e \in t.input /\ b.line[e] = l)
  <2>1. ASSUME NEW e \in Gprs
        PROVE  (e \in t.used /\ b.line[e] = l <=> e = h) /\ ~(e \in t.input /\ b.line[e] = l)
    <3>1. Gpr(e) # i /\ (Gpr(e) = o <=> e = h)
      BY <1>4, OperandFacts
    <3>2. QED
      BY <1>3, <3>1 DEF AtLine
  <2>2. QED
    BY <2>1
<1>8. Moves(b, t.used, f.b, f.u) /\ f.u = t.used \cup {g}
  <2> DEFINE S == {g}
  <2>1. S \in SUBSET Gprs /\ \A e \in S : b.usage[e] > 0
    BY <1>1
  <2> HIDE DEF S
  <2>2. Moves(b, t.used, GetGprs(b, t.used, S).b, GetGprs(b, t.used, S).u) /\ GetGprs(b, t.used, S).u = t.used \cup S
    BY <1>6, <2>1, GetMoves
  <2>3. QED
    BY <2>2 DEF S
<1> HIDE DEF f, i, o, z
<1>9. f.u \in SUBSET Gprs
  BY <1>6, <1>8
<1>10. \A e \in Gprs : e \in f.u <=> (e \in t.used /\ b.line[e] # l) \/ Gpr(e) \in {o, z}
  <2>1. \A e \in Gprs : Gpr(e) \in {o, z} <=> e \in {h, g}
    BY <1>4, OperandFacts DEF z
  <2>2. QED
    BY <1>7, <1>8, <2>1
<1>11. /\ x \in Progs
       /\ x = [used |-> t.used, input |-> (t.input \ GprsOf(i)) \cup GprsOf(o),
               in |-> t.in, out |-> t.out, rd |-> t.rd, wr |-> t.wr]
  BY <1>5, NowReadsIs
<1> HIDE DEF x
<1>12. /\ y \in Progs
       /\ y.used = f.u /\ y.input = t.input \cup {h} /\ y.out = t.out /\ y.rd = t.rd /\ y.wr = t.wr
       /\ \A k \in Lines : k # l => y.in[k] = t.in[k]
  <2> DEFINE in == [t.in EXCEPT ![l] = z]
             in2 == t.input \cup {h}
  <2>1. x = [used |-> t.used, input |-> in2, in |-> t.in, out |-> t.out, rd |-> t.rd, wr |-> t.wr]
    BY <1>5, <1>11
  <2>2. y = [used |-> f.u, input |-> in2, in |-> in, out |-> t.out, rd |-> t.rd, wr |-> t.wr]
    <3> DEFINE u == f.u
    <3> HIDE DEF u, z, in2
    <3>1. x.in = t.in
      BY <2>1
    <3>2. [x EXCEPT !.in[l] = z, !.used = u] = [x EXCEPT !.in = in, !.used = u]
      BY <3>1
    <3> HIDE DEF in
    <3> DEFINE e == [x EXCEPT !.in = in]
    <3>3. e = [used |-> t.used, input |-> in2, in |-> in, out |-> t.out, rd |-> t.rd, wr |-> t.wr]
      BY <2>1
    <3> HIDE DEF e
    <3>4. [e EXCEPT !.used = u]
            = [used |-> u, input |-> in2, in |-> in, out |-> t.out, rd |-> t.rd, wr |-> t.wr]
      BY <3>3
    <3>5. QED
      BY <3>2, <3>4 DEF u, e
  <2>3. /\ t.in \in [Lines -> Operands] /\ t.out \in [Lines -> Operands] /\ t.rd \in [Lines -> Operands]
        /\ t.wr \in [Lines -> Operands] /\ t.input \in SUBSET Gprs
    BY ProgFacts
  <2>4. in \in [Lines -> Operands] /\ in2 \in SUBSET Gprs /\ \A k \in Lines : k # l => in[k] = t.in[k]
    BY <1>4, <2>3
  <2> HIDE DEF in, in2, y
  <2>5. y \in Progs
    BY <1>9, <2>2, <2>3, <2>4 DEF Progs
  <2>6. QED
    BY <2>2, <2>4, <2>5 DEF in2
<1> HIDE DEF y
<1>13. /\ v \in Progs
       /\ v.used = y.used /\ v.input = y.input /\ v.in = y.in /\ v.out = y.out
       /\ \A k \in Lines : v.rd[k] = IF y.rd[k] = i THEN o ELSE IF y.rd[k] = o THEN z ELSE y.rd[k]
       /\ \A k \in Lines : v.wr[k] = IF y.wr[k] = i THEN o ELSE IF y.wr[k] = o THEN z ELSE y.wr[k]
  <2> DEFINE S == {i, o}
  <2>1. change \in [S -> Operands] /\ change[i] = o /\ change[o] = z
    BY <1>4
  <2>2. y \in Progs /\ v = Replace(y, change)
    BY <1>12
  <2> HIDE DEF change, S, v
  <2>3. /\ v \in Progs
        /\ v.used = y.used /\ v.input = y.input /\ v.in = y.in /\ v.out = y.out
        /\ \A k \in Lines : v.rd[k] = IF y.rd[k] \in S THEN change[y.rd[k]] ELSE y.rd[k]
        /\ \A k \in Lines : v.wr[k] = IF y.wr[k] \in S THEN change[y.wr[k]] ELSE y.wr[k]
    BY <2>1, <2>2, ReplaceIs
  <2>4. QED
    BY <1>4, <2>1, <2>3 DEF S
<1> HIDE DEF v
<1>14. v.rd[l] = o /\ v.wr[l] = z
  BY <1>3, <1>4, <1>12, <1>13 DEF i, o
<1>15. ASSUME NEW k \in LinesOf[p], k # l
       PROVE  v.rd[k] = t.rd[k] /\ v.wr[k] = t.wr[k] /\ v.in[k] = t.in[k] /\ v.out[k] = t.out[k]
  <2>1. t.rd[k] \notin {i, o} /\ t.wr[k] \notin {i, o}
    BY <1>15, OtherLines DEF i, o
  <2>2. k \in Lines
    BY <1>3
  <2>3. QED
    BY <1>12, <1>13, <1>15, <2>1, <2>2
<1>16. \A e \in Gprs : e \in v.input <=> (e \in t.input /\ b.line[e] # l) \/ Gpr(e) = o
  <2>1. \A e \in Gprs : Gpr(e) = o <=> e = h
    BY <1>4, OperandFacts
  <2>2. QED
    BY <1>7, <1>12, <1>13, <2>1
<1>17. \A e \in t.used \cup {g} : f.b.line[e] = b.line[e]
  <2>1. ASSUME NEW e \in t.used \cup {g} PROVE f.b.line[e] = b.line[e]
    <3>1. e \in Gprs /\ b.usage[e] > 0 /\ b.usage[e] \in Nat /\ e \in f.u
      BY <1>1, <1>6, <1>8, BankFacts
    <3>2. f.b.usage[e] \in {b.usage[e], b.usage[e] + 1}
      BY <1>8, <3>1 DEF Moves
    <3>3. f.b.usage[e] > 0
      BY <3>1, <3>2
    <3>4. QED
      BY <1>8, <3>1, <3>3 DEF Moves
  <2>2. QED
    BY <2>1
<1>18. \A e \in Gprs : Gpr(e) \in {o, z} => f.b.line[e] = l
  <2>1. \A e \in Gprs : Gpr(e) \in {o, z} => e \in {h, g}
    BY <1>4, OperandFacts DEF z
  <2>2. h \in t.used /\ b.line[h] = l
    BY <1>7
  <2>3. QED
    BY <1>1, <1>17, <2>1, <2>2
<1>19. Whole(f.b, p, v)
  <2>1. o \in {In(l)} \cup GprOps /\ z \in {Out(l)} \cup GprOps /\ o # z
    BY <1>4 DEF GprOps
  <2>2. \A e \in Gprs : e \in v.used <=> (e \in t.used /\ b.line[e] # l) \/ Gpr(e) \in {o, z}
    BY <1>10, <1>12, <1>13
  <2>3. \A e \in t.used : b.line[e] # l => f.b.line[e] = b.line[e]
    BY <1>17
  <2>4. QED
    BY <1>13, <1>14, <1>15, <1>16, <1>18, <2>1, <2>2, <2>3, WholeAgain
<1>20. Rewired(b, p, t, l, o, f.b, v, z)
  <2>1. Moves(b, t.used, f.b, v.used)
    BY <1>8, <1>12, <1>13
  <2>2. t.rd[l] \notin GprOps
    BY OperandFacts DEF GprOps
  <2>3. z = Gpr(g) /\ b.usage[g] > 0
    BY <1>1 DEF z
  <2>4. QED
    BY <1>4, <1>13, <1>14, <1>15, <1>19, <2>1, <2>2, <2>3 DEF Rewired, o
<1>21. QED
  BY <1>2, <1>20 DEF o

LEMMA MatchIs ==
    ASSUME NEW p \in Patches, NEW b \in Banks, Table(b), NEW t \in Progs, Whole(b, p, t),
           \A g \in t.used : b.usage[g] > 0,
           NEW l \in LinesOf[p], t.in[l] = t.rd[l], t.out[l] = t.wr[l],
           NEW r, Standing(b, l, r),
           NEW slots, t.rd[l] \in GprOps \/ r # t.wr[l] \/ Spare(b, l, t.wr[l], slots), NEW n, n = MatchIo([b |-> b, t |-> t, in |-> r], l, slots)
    PROVE  n = [b |-> n.b, t |-> n.t, in |-> n.in] /\ Rewired(b, p, t, l, r, n.b, n.t, n.in)
<1> DEFINE i == t.rd[l]
           o == t.wr[l]
           s == [b |-> b, t |-> t, in |-> r]
<1>1. /\ i # o /\ i \in {In(l)} \cup GprOps /\ o \in {Out(l)} \cup GprOps
      /\ i \in Operands /\ o \in Operands /\ (i \in GprOps <=> IsGpr(i))
  BY LineFacts DEF Whole, AtLine
<1>2. i # None /\ o # None
  BY <1>1, OperandFacts DEF GprOps
<1>3. s.in = r /\ s.t = t /\ s.b = b
  OBVIOUS
<1>4. CASE i = r
  <2>1. n = [b |-> b, t |-> t, in |-> o]
    BY <1>2, <1>4 DEF MatchIo
  <2>2. Moves(b, t.used, b, t.used)
    BY ProgFacts, Stays
  <2>3. Rewired(b, p, t, l, r, b, t, o)
    BY <1>1, <1>4, <2>2 DEF Rewired
  <2>4. QED
    BY <2>1, <2>3
<1>5. CASE i # r /\ o = r
  <2>1. r \in GprOps
    <3>1. r \in {In(l)} \cup GprOps
      BY Sizes, StandingFacts
    <3>2. QED
      BY <1>1, <1>5, <3>1, OperandFacts
  <2>2. CASE i \in GprOps
    <3>1. IsGpr(i)
      BY <1>1, <2>2
    <3>2. n = Swap(s, l, i, o)
      BY <1>2, <1>3, <1>5, <3>1 DEF MatchIo
    <3>3. QED
      BY <1>5, <2>1, <2>2, <3>2, MatchSwap
  <2>3. CASE i \notin GprOps
    <3>1. i = In(l) /\ ~IsGpr(i) /\ Spare(b, l, o, slots)
      BY <1>1, <1>5, <2>3
    <3>2. n = TakeOther(s, l, slots, i, o)
      BY <1>2, <1>3, <1>5, <3>1 DEF MatchIo
    <3>3. QED
      BY <1>5, <3>1, <3>2, MatchTake
  <2>4. QED
    BY <2>2, <2>3
<1>6. CASE i # r /\ o # r
  <2>1. n = Rethread(s, i, o)
    BY <1>2, <1>3, <1>6 DEF MatchIo
  <2>2. QED
    BY <1>6, <2>1, MatchRethread
<1>7. QED
  BY <1>4, <1>5, <1>6

\* No gpr comes into use in c that was not in b, and those of the lines other than l
\* have the users they had.
Keeps(b, l, c) ==
    \A g \in Gprs : /\ c.usage[g] > 0 => b.usage[g] > 0 /\ c.line[g] = b.line[g]
                    /\ b.usage[g] > 0 /\ b.line[g] # l => c.usage[g] = b.usage[g]

LEMMA KeepsOn ==
    ASSUME NEW b, NEW l, NEW c, NEW d, Keeps(b, l, c), Keeps(c, l, d)
    PROVE  Keeps(b, l, d)
<1>1. ASSUME NEW g \in Gprs
      PROVE  /\ c.usage[g] > 0 => b.usage[g] > 0 /\ c.line[g] = b.line[g]
             /\ b.usage[g] > 0 /\ b.line[g] # l => c.usage[g] = b.usage[g]
             /\ d.usage[g] > 0 => c.usage[g] > 0 /\ d.line[g] = c.line[g]
             /\ c.usage[g] > 0 /\ c.line[g] # l => d.usage[g] = c.usage[g]
  BY DEF Keeps
<1>2. ASSUME NEW g \in Gprs, b.usage[g] > 0, b.line[g] # l PROVE d.usage[g] = b.usage[g]
  <2>1. c.usage[g] = b.usage[g]
    BY <1>1, <1>2
  <2>2. c.usage[g] > 0
    BY <1>2, <2>1
  <2>3. QED
    BY <1>1, <1>2, <2>1, <2>2
<1>3. ASSUME NEW g \in Gprs, d.usage[g] > 0 PROVE b.usage[g] > 0 /\ d.line[g] = b.line[g]
  BY <1>1, <1>3
<1>4. QED
  BY <1>2, <1>3 DEF Keeps

LEMMA RewiredKeeps ==
    ASSUME NEW p \in Patches, NEW b \in Banks, NEW t \in Progs, Whole(b, p, t),
           \A g \in t.used : b.usage[g] > 0,
           NEW l \in LinesOf[p], NEW r, Standing(b, l, r),
           NEW c, NEW v, NEW w, Rewired(b, p, t, l, r, c, v, w)
    PROVE  Keeps(b, l, c) /\ \A g \in Gprs : c.usage[g] >= b.usage[g] - 1
<1>1. /\ Moves(b, t.used, c, v.used) /\ Whole(c, p, v) /\ v.rd[l] = r /\ v.wr[l] = w
      /\ w \in {t.rd[l], t.wr[l]} \/ \E h \in Gprs : w = Gpr(h) /\ b.usage[h] > 0
      /\ \A k \in LinesOf[p] : k # l => v.rd[k] = t.rd[k] /\ v.wr[k] = t.wr[k]
  BY DEF Rewired
<1>2. /\ \A k \in LinesOf[p] : \A g \in Gprs :
            /\ g \in t.used /\ b.line[g] = k <=> Gpr(g) \in {t.rd[k], t.wr[k]}
            /\ g \in v.used /\ c.line[g] = k <=> Gpr(g) \in {v.rd[k], v.wr[k]}
      /\ \A g \in t.used : b.line[g] \in LinesOf[p]
      /\ \A g \in v.used : c.line[g] \in LinesOf[p]
  BY <1>1 DEF Whole, AtLine
<1>3. l \in Lines /\ \A g \in Gprs : Gpr(g) = r => b.usage[g] > 0
  <2>1. l \in Lines
    BY Sizes
  <2>2. QED
    BY <2>1, StandingFacts
<1>4. ASSUME NEW g \in Gprs PROVE b.usage[g] \in Nat /\ c.usage[g] \in Nat
  BY <1>1, BankFacts DEF Moves
<1>5. ASSUME NEW g \in Gprs
      PROVE  /\ g \in t.used /\ g \notin v.used => c.usage[g] = b.usage[g] - 1
             /\ g \notin t.used /\ g \in v.used => c.usage[g] = b.usage[g] + 1
             /\ (g \in t.used <=> g \in v.used) => c.usage[g] = b.usage[g]
             /\ b.usage[g] > 0 /\ c.usage[g] > 0 => c.line[g] = b.line[g]
  BY <1>1 DEF Moves
<1>6. ASSUME NEW g \in Gprs, c.usage[g] > 0 PROVE b.usage[g] > 0 /\ c.line[g] = b.line[g]
  <2>1. CASE g \in t.used
    BY <1>5, <1>6, <2>1
  <2>2. CASE g \notin t.used /\ g \notin v.used
    BY <1>5, <1>6, <2>2
  <2>3. CASE g \notin t.used /\ g \in v.used
    <3> DEFINE k == c.line[g]
    <3>1. k \in LinesOf[p] /\ Gpr(g) \in {v.rd[k], v.wr[k]}
      BY <1>2, <2>3
    <3>2. Gpr(g) \notin {t.rd[k], t.wr[k]}
      BY <1>2, <2>3, <3>1
    <3>3. k = l
      BY <1>1, <3>1, <3>2
    <3>4. Gpr(g) = r \/ Gpr(g) = w
      BY <1>1, <3>1, <3>3
    <3>5. b.usage[g] > 0
      <4>1. CASE Gpr(g) = r
        BY <1>3, <4>1
      <4>2. CASE Gpr(g) = w
        <5>1. PICK h \in Gprs : w = Gpr(h) /\ b.usage[h] > 0
          BY <1>1, <3>2, <3>3, <4>2
        <5>2. QED
          BY <4>2, <5>1, OperandFacts
      <4>3. QED
        BY <3>4, <4>1, <4>2
    <3>6. QED
      BY <1>5, <1>6, <3>5
  <2>4. QED
    BY <2>1, <2>2, <2>3
<1>7. ASSUME NEW g \in Gprs, b.usage[g] > 0, b.line[g] # l PROVE c.usage[g] = b.usage[g]
  <2>1. ASSUME g \in t.used PROVE g \in v.used
    <3> DEFINE k == b.line[g]
    <3>1. k \in LinesOf[p] /\ Gpr(g) \in {t.rd[k], t.wr[k]}
      BY <1>2, <2>1
    <3>2. QED
      BY <1>1, <1>2, <1>7, <3>1
  <2>2. ASSUME g \in v.used, g \notin t.used PROVE FALSE
    <3> DEFINE k == c.line[g]
    <3>1. k = b.line[g]
      BY <1>4, <1>5, <1>7, <2>2
    <3>2. k \in LinesOf[p] /\ Gpr(g) \in {v.rd[k], v.wr[k]}
      BY <1>2, <2>2
    <3>3. QED
      BY <1>1, <1>2, <1>7, <2>2, <3>1, <3>2
  <2>3. QED
    BY <1>5, <2>1, <2>2
<1>8. \A g \in Gprs : c.usage[g] >= b.usage[g] - 1
  BY <1>4, <1>5
<1>9. QED
  BY <1>6, <1>7, <1>8 DEF Keeps

-----------------------------------------------------------------------------
(* One line.                                                               *)

\* The manager x.m after the first k patches of a line, here, have been threaded, with
\* the line at x.in; All are the patches that are loaded.
Threaded(All, m, here, l, r, k, x) ==
    /\ Counted(x.m) /\ Table(x.m.bank)
    /\ \A p \in All : Whole(x.m.bank, p, x.m.prog[p])
    /\ x.m.routing = m.routing /\ \A g \in m.routing.used : x.m.bank.line[g] = m.bank.line[g]
    /\ \A p \in Patches : p \notin {here[j] : j \in 1 .. k} => x.m.prog[p] = m.prog[p]
    /\ \A p \in ToSet(here) : \A i \in LinesOf[p] : i # l =>
          /\ x.m.prog[p].rd[i] = m.prog[p].rd[i] /\ x.m.prog[p].wr[i] = m.prog[p].wr[i]
          /\ x.m.prog[p].in[i] = m.prog[p].in[i] /\ x.m.prog[p].out[i] = m.prog[p].out[i]
    /\ \A j \in 1 .. k :
          /\ x.m.prog[here[j]].rd[l] = IF j = 1 THEN r ELSE x.m.prog[here[j - 1]].wr[l]
          /\ m.prog[here[j]].rd[l] \in GprOps => x.m.prog[here[j]].out[l] = x.m.prog[here[j]].wr[l]
          /\ x.m.prog[here[j]].wr[l] = m.prog[here[j]].wr[l] \/ x.m.prog[here[j]].wr[l] \in GprOps
    /\ Keeps(m.bank, l, x.m.bank)
    /\ k = 1 => \A g \in Gprs : x.m.bank.usage[g] >= m.bank.usage[g] - 1
    /\ k = 1 /\ r # m.prog[here[1]].wr[l] => x.m.prog[here[1]].wr[l] = m.prog[here[1]].wr[l]
    /\ x.in = IF k = 0 THEN r ELSE x.m.prog[here[k]].wr[l]
    /\ k = 0 => x.m = m

\* The second patch of a line reads the line itself and writes the gpr the first one does:
\* then somebody but the first one has the gpr the first one reads.
Spared(m, here, l) ==
    Len(here) > 1 /\ m.prog[here[2]].rd[l] = In(l) /\ m.prog[here[1]].wr[l] = m.prog[here[2]].wr[l]
        => \E g \in Gprs : m.prog[here[1]].rd[l] = Gpr(g) /\ m.bank.usage[g] > 1

\* What threading a line relies on.
Threadable(All, m, here, l, r) ==
    /\ m \in Mgrs /\ Counted(m) /\ Table(m.bank) /\ l \in Lines
    /\ here \in Seq(Patches) /\ Distinct(here) /\ ToSet(here) \subseteq All /\ All \subseteq Patches
    /\ \A p \in All : Whole(m.bank, p, m.prog[p])
    /\ \A p \in ToSet(here) : l \in LinesOf[p] /\ m.prog[p].in[l] = m.prog[p].rd[l]
                                               /\ m.prog[p].out[l] = m.prog[p].wr[l]
    /\ Standing(m.bank, l, r)
    /\ \/ \A k \in DOMAIN here : m.prog[here[k]].rd[l] \in GprOps
       \/ r = In(l) /\ Spared(m, here, l)
    /\ \A k \in DOMAIN here : k < Len(here) => m.prog[here[k]].wr[l] \in GprOps

LEMMA AtLineGpr ==
    ASSUME NEW b, NEW t, NEW l, AtLine(b, t, l), NEW g \in Gprs, Gpr(g) \in {t.rd[l], t.wr[l]}
    PROVE  g \in t.used /\ b.line[g] = l
  BY DEF AtLine

LEMMA ThreadStep ==
    ASSUME NEW All, NEW m, NEW here, NEW l, NEW r, Threadable(All, m, here, l, r),
           NEW k \in 1 .. Len(here), NEW x \in [m : Mgrs, in : Operands], Threaded(All, m, here, l, r, k - 1, x),
           NEW slots, slots = m.bank.io[l],
           NEW s, s = MatchIo([b |-> x.m.bank, t |-> x.m.prog[here[k]], in |-> x.in], l, slots),
           NEW y, y = [m |-> [x.m EXCEPT !.bank = s.b, !.prog[here[k]] = s.t], in |-> s.in]
    PROVE  y \in [m : Mgrs, in : Operands] /\ Threaded(All, m, here, l, r, k, y)
<1> DEFINE p == here[k]
           t == x.m.prog[p]
           N == Len(here)
<1>1. /\ \A q \in Patches : q \notin {here[j] : j \in 1 .. k - 1} => x.m.prog[q] = m.prog[q]
      /\ x.m.routing = m.routing /\ \A g \in m.routing.used : x.m.bank.line[g] = m.bank.line[g]
      /\ x.in = IF k - 1 = 0 THEN r ELSE x.m.prog[here[k - 1]].wr[l]
      /\ k - 1 = 0 => x.m = m
  BY Zenon DEF Threaded
<1>2. \A q \in ToSet(here) : \A i \in LinesOf[q] : i # l =>
          /\ x.m.prog[q].rd[i] = m.prog[q].rd[i] /\ x.m.prog[q].wr[i] = m.prog[q].wr[i]
          /\ x.m.prog[q].in[i] = m.prog[q].in[i] /\ x.m.prog[q].out[i] = m.prog[q].out[i]
  BY Zenon DEF Threaded
<1>3. \A j \in 1 .. k - 1 :
          /\ x.m.prog[here[j]].rd[l] = IF j = 1 THEN r ELSE x.m.prog[here[j - 1]].wr[l]
          /\ m.prog[here[j]].rd[l] \in GprOps => x.m.prog[here[j]].out[l] = x.m.prog[here[j]].wr[l]
          /\ x.m.prog[here[j]].wr[l] = m.prog[here[j]].wr[l] \/ x.m.prog[here[j]].wr[l] \in GprOps
  BY Zenon DEF Threaded
<1>4. /\ Keeps(m.bank, l, x.m.bank)
      /\ k - 1 = 1 => \A g \in Gprs : x.m.bank.usage[g] >= m.bank.usage[g] - 1
      /\ k - 1 = 1 /\ r # m.prog[here[1]].wr[l] => x.m.prog[here[1]].wr[l] = m.prog[here[1]].wr[l]
  BY Zenon DEF Threaded
<1>5. /\ m \in Mgrs /\ Counted(m) /\ Table(m.bank) /\ l \in Lines
      /\ here \in Seq(Patches) /\ Distinct(here) /\ ToSet(here) \subseteq All /\ All \subseteq Patches
      /\ \A q \in ToSet(here) : l \in LinesOf[q] /\ m.prog[q].in[l] = m.prog[q].rd[l]
                                                 /\ m.prog[q].out[l] = m.prog[q].wr[l]
  BY DEF Threadable
<1>6. N \in Nat /\ DOMAIN here = 1 .. N /\ k \in 1 .. N
  BY <1>5
<1>7. p \in ToSet(here) /\ p \in Patches /\ p \in All /\ l \in LinesOf[p]
  BY <1>5, <1>6 DEF ToSet
<1>8. \A j \in 1 .. k - 1 : j \in 1 .. N /\ here[j] # p /\ here[j] \in ToSet(here) /\ here[j] \in Patches /\ here[j] \in All
  <2>1. ASSUME NEW j \in 1 .. k - 1 PROVE j \in 1 .. N /\ here[j] # p /\ here[j] \in ToSet(here)
    <3>1. j \in 1 .. N /\ j # k
      BY <1>6
    <3>2. QED
      BY <1>5, <1>6, <3>1 DEF Distinct, ToSet
  <2>2. QED
    BY <1>5, <2>1
<1>9. t = m.prog[p]
  BY <1>7, <1>8, <1>1
<1>10. x.m \in Mgrs /\ x.in \in Operands /\ Counted(x.m) /\ Table(x.m.bank) /\ x.m.bank \in Banks /\ t \in Progs
  BY Zenon, <1>7, MgrFacts DEF Threaded
<1>11. /\ \A q \in All : Whole(x.m.bank, q, x.m.prog[q])
       /\ x.m.routing = m.routing /\ \A g \in m.routing.used : x.m.bank.line[g] = m.bank.line[g]
  BY Zenon DEF Threaded
<1>12. \A q \in Patches : \A g \in x.m.prog[q].used : x.m.bank.usage[g] > 0
  BY <1>10, InUse
<1>13. Standing(x.m.bank, l, x.in)
  <2>1. CASE k = 1
    <3>1. x.m = m /\ x.in = r
      BY <2>1, <1>1
    <3>2. QED
      BY <1>6, <1>9, <2>1, <3>1 DEF Threadable
  <2>2. CASE k # 1
    <3> DEFINE j == k - 1
               q == here[j]
    <3>1. j \in 1 .. k - 1 /\ j \in 1 .. N /\ j < N /\ j # 0
      BY <1>6, <2>2
    <3>2. x.in = x.m.prog[q].wr[l]
      BY <3>1, <1>1
    <3>3. q \in Patches /\ q \in All /\ l \in LinesOf[q]
      BY <1>5, <1>8, <3>1
    <3>4. m.prog[q].wr[l] \in GprOps
      BY <1>6, <3>1 DEF Threadable
    <3>5. x.m.prog[q].wr[l] = m.prog[q].wr[l] \/ x.m.prog[q].wr[l] \in GprOps
      BY <3>1, <1>3
    <3> HIDE DEF q
    <3>6. PICK h \in Gprs : x.in = Gpr(h)
      BY <3>2, <3>4, <3>5 DEF GprOps
    <3>7. h \in x.m.prog[q].used /\ x.m.bank.line[h] = l
      <4>1. AtLine(x.m.bank, x.m.prog[q], l)
        BY <1>11, <3>3 DEF Whole
      <4>2. QED
        BY <3>2, <3>6, <4>1 DEF AtLine
    <3>8. x.m.bank.usage[h] > 0
      BY <1>12, <3>3, <3>7
    <3>9. QED
      BY <3>6, <3>7, <3>8 DEF Standing
  <2>3. QED
    BY <2>1, <2>2
<1>14. t.rd[l] \in GprOps \/ x.in # t.wr[l] \/ Spare(x.m.bank, l, t.wr[l], slots)
  <2> SUFFICES ASSUME t.rd[l] \notin GprOps, x.in = t.wr[l] PROVE Spare(x.m.bank, l, t.wr[l], slots)
    OBVIOUS
  <2>1. r = In(l) /\ Spared(m, here, l)
    BY <1>6, <1>9 DEF Threadable
  <2>2. AtLine(m.bank, m.prog[p], l) /\ t.rd[l] = In(l)
    BY <1>5, <1>7, <1>9 DEF Threadable, Whole, AtLine
  <2>3. k # 1
    <3>1. CASE k = 1
      <4>1. x.in = In(l)
        BY <2>1, <3>1, <1>1
      <4>2. QED
        BY <1>9, <2>2, <4>1 DEF AtLine
    <3>2. QED
      BY <3>1
  <2> DEFINE j == k - 1
             q == here[j]
  <2>4. j \in 1 .. k - 1 /\ j \in 1 .. N /\ j < N /\ k \in 1 .. N
    BY <1>6, <2>3
  <2>5. q \in Patches /\ q \in All /\ l \in LinesOf[q] /\ x.in = x.m.prog[q].wr[l]
    BY <1>1, <1>5, <1>8, <2>4
  <2>6. m.prog[q].wr[l] \in GprOps /\ (x.m.prog[q].wr[l] = m.prog[q].wr[l] \/ x.m.prog[q].wr[l] \in GprOps)
    <3>1. m.prog[q].wr[l] \in GprOps
      BY <1>6, <2>4 DEF Threadable
    <3>2. x.m.prog[q].wr[l] = m.prog[q].wr[l] \/ x.m.prog[q].wr[l] \in GprOps
      BY Zenon, <2>4, <1>3
    <3>3. QED
      BY <3>1, <3>2
  <2>7. PICK h \in Gprs : t.wr[l] = Gpr(h)
    BY <2>5, <2>6 DEF GprOps
  <2>8. h \in t.used /\ m.bank.line[h] = l /\ m.bank.usage[h] > 0
    <3>1. h \in t.used /\ m.bank.line[h] = l
      BY <1>9, <2>2, <2>7 DEF AtLine
    <3>2. QED
      BY <1>5, <1>7, <1>9, <3>1, InUse
  <2>9. \E g \in Gprs : g # h /\ x.m.bank.usage[g] > 0 /\ x.m.bank.line[g] = l
    <3>1. CASE k = 2
      <4>1. here[1] = q /\ here[2] = p /\ Len(here) > 1 /\ k - 1 = 1
        BY <1>6, <3>1
      <4>2. r # m.prog[q].wr[l]
        BY <2>1, <2>6, OperandFacts DEF GprOps
      <4>3. x.m.prog[q].wr[l] = m.prog[q].wr[l]
        BY <4>1, <4>2, <1>4
      <4>4. PICK g \in Gprs : m.prog[q].rd[l] = Gpr(g) /\ m.bank.usage[g] > 1
        BY <1>9, <2>1, <2>2, <2>5, <4>1, <4>3 DEF Spared
      <4>5. AtLine(m.bank, m.prog[q], l)
        BY <2>5 DEF Threadable, Whole
      <4>6. m.bank.line[g] = l /\ g # h
        BY <2>5, <2>7, <4>3, <4>4, <4>5 DEF AtLine
      <4>7. x.m.bank.usage[g] >= m.bank.usage[g] - 1 /\ x.m.bank.usage[g] \in Nat /\ m.bank.usage[g] \in Nat
        <5>1. x.m.bank.usage[g] >= m.bank.usage[g] - 1
          BY <4>1, <1>4
        <5>2. QED
          BY <1>5, <1>10, <5>1, MgrFacts, BankFacts
      <4>8. x.m.bank.usage[g] > 0
        BY <4>4, <4>7
      <4>9. x.m.bank.line[g] = l
        BY <4>6, <4>8, <1>4 DEF Keeps
      <4>10. QED
        BY <4>6, <4>8, <4>9
    <3>2. CASE k # 2
      <4> DEFINE i == k - 2
                 o == here[i]
      <4>1. i \in 1 .. k - 1 /\ i \in 1 .. N /\ i < N /\ j # 1 /\ j - 1 = i
        BY <1>6, <2>3, <3>2
      <4>2. x.m.prog[q].rd[l] = x.m.prog[o].wr[l]
        <5>1. x.m.prog[here[j]].rd[l] = IF j = 1 THEN r ELSE x.m.prog[here[j - 1]].wr[l]
          BY Zenon, <2>4, <1>3
        <5>2. QED
          BY <4>1, <5>1
      <4>3. m.prog[o].wr[l] \in GprOps
        BY <1>6, <4>1 DEF Threadable
      <4>4. x.m.prog[o].wr[l] = m.prog[o].wr[l] \/ x.m.prog[o].wr[l] \in GprOps
        BY Zenon, <4>1, <1>3
      <4> HIDE DEF o, i
      <4>5. PICK g \in Gprs : x.m.prog[q].rd[l] = Gpr(g)
        BY <4>2, <4>3, <4>4 DEF GprOps
      <4>6. AtLine(x.m.bank, x.m.prog[q], l)
        BY <1>11, <2>5 DEF Whole
      <4>7. g \in x.m.prog[q].used /\ x.m.bank.line[g] = l /\ g # h
        <5>1. Gpr(g) \in {x.m.prog[q].rd[l], x.m.prog[q].wr[l]} /\ x.m.prog[q].rd[l] # x.m.prog[q].wr[l]
          BY <4>5, <4>6 DEF AtLine
        <5>2. g \in x.m.prog[q].used /\ x.m.bank.line[g] = l
          BY <4>6, <5>1, AtLineGpr
        <5>3. x.m.prog[q].wr[l] = Gpr(h)
          BY <2>5, <2>7
        <5>4. QED
          BY <4>5, <5>1, <5>2, <5>3
      <4>8. QED
        BY <1>12, <2>5, <4>7
    <3>3. QED
      BY <3>1, <3>2
  <2>10. PICK g \in Gprs : g # h /\ x.m.bank.usage[g] > 0 /\ x.m.bank.line[g] = l
    BY <2>9
  <2>11. m.bank.usage[g] > 0 /\ m.bank.line[g] = l
    BY <2>10, <1>4 DEF Keeps
  <2>12. \/ slots[1] = g /\ slots[2] = h
         \/ slots[1] = h /\ slots[2] = g
    <3>1. (\E i \in 1 .. 2 : slots[i] = g) /\ (\E i \in 1 .. 2 : slots[i] = h)
      <4>1. Table(m.bank)
        BY <1>5
      <4>2. QED
        <5>1. \A e \in Gprs : m.bank.usage[e] > 0 => \E i \in 1 .. 2 : m.bank.io[m.bank.line[e]][i] = e
          BY Zenon, <4>1 DEF Table
        <5>2. m.bank.io[m.bank.line[g]] = slots /\ m.bank.io[m.bank.line[h]] = slots
          BY <2>8, <2>11
        <5>3. \E i \in 1 .. 2 : slots[i] = g
          BY <2>10, <2>11, <5>1, <5>2
        <5>4. \E i \in 1 .. 2 : slots[i] = h
          BY <2>8, <5>1, <5>2
        <5>5. QED
          BY <5>3, <5>4
    <3>2. \A i \in 1 .. 2 : i = 1 \/ i = 2
      OBVIOUS
    <3>3. QED
      BY <2>10, <3>1, <3>2
  <2>13. QED
    BY <2>7, <2>10, <2>12 DEF Spare
<1>15. s = [b |-> s.b, t |-> s.t, in |-> s.in] /\ Rewired(x.m.bank, p, t, l, x.in, s.b, s.t, s.in)
  <2>1. t.in[l] = t.rd[l] /\ t.out[l] = t.wr[l]
    BY <1>5, <1>7, <1>9
  <2>2. Whole(x.m.bank, p, t) /\ \A g \in t.used : x.m.bank.usage[g] > 0
    BY <1>7, <1>11, <1>12
  <2> DEFINE b == x.m.bank
             a == x.in
  <2>3. s = MatchIo([b |-> b, t |-> t, in |-> a], l, slots)
    OBVIOUS
  <2> HIDE DEF p, t, b, a
  <2>4. /\ b \in Banks /\ Table(b) /\ t \in Progs /\ Standing(b, l, a)
        /\ t.rd[l] \in GprOps \/ a # t.wr[l] \/ Spare(b, l, t.wr[l], slots)
    BY <1>10, <1>13, <1>14 DEF b, a
  <2>5. Whole(b, p, t) /\ \A g \in t.used : b.usage[g] > 0
    BY <2>2 DEF b
  <2>6. s = [b |-> s.b, t |-> s.t, in |-> s.in] /\ Rewired(b, p, t, l, a, s.b, s.t, s.in)
    BY <1>7, <2>1, <2>3, <2>4, <2>5, MatchIs
  <2>7. QED
    BY <2>6 DEF b, a
<1>16. \A q \in ToSet(here) : \A i \in LinesOf[q] : i # l =>
          /\ x.m.prog[q].rd[i] = m.prog[q].rd[i] /\ x.m.prog[q].wr[i] = m.prog[q].wr[i]
          /\ x.m.prog[q].in[i] = m.prog[q].in[i] /\ x.m.prog[q].out[i] = m.prog[q].out[i]
  BY <1>2
<1>17. x.in = IF k - 1 = 0 THEN r ELSE x.m.prog[here[k - 1]].wr[l]
  BY <1>1
<1> DEFINE n == [x.m EXCEPT !.bank = s.b, !.prog[p] = s.t]
<1>18. y.m = n /\ y.in = s.in /\ y = [m |-> n, in |-> s.in]
  OBVIOUS
<1>19. /\ s.t \in Progs /\ s.in \in Operands /\ Moves(x.m.bank, t.used, s.b, s.t.used) /\ Whole(s.b, p, s.t)
       /\ s.t.rd[l] = x.in /\ s.t.wr[l] = s.in
       /\ t.rd[l] \in GprOps => s.t.out[l] = s.in
       /\ s.in = t.wr[l] \/ s.in \in GprOps
       /\ x.in # t.wr[l] => s.in = t.wr[l]
       /\ \A i \in LinesOf[p] : i # l => /\ s.t.rd[i] = t.rd[i] /\ s.t.wr[i] = t.wr[i]
                                         /\ s.t.in[i] = t.in[i] /\ s.t.out[i] = t.out[i]
  BY Zenon, <1>15 DEF Rewired
<1>20. /\ n \in Mgrs /\ Counted(n) /\ Table(n.bank)
       /\ n.bank = s.b /\ n.routing = x.m.routing
       /\ n.prog[p] = s.t /\ \A q \in Patches : q # p => n.prog[q] = x.m.prog[q]
       /\ \A q \in Patches : q # p => \A g \in x.m.prog[q].used : s.b.line[g] = x.m.bank.line[g]
       /\ \A g \in x.m.routing.used : s.b.line[g] = x.m.bank.line[g]
  <2> DEFINE xm == x.m
             c == s.b
             v == s.t
  <2>1. n = [xm EXCEPT !.bank = c, !.prog[p] = v]
    OBVIOUS
  <2>2. xm \in Mgrs /\ Counted(xm) /\ p \in Patches /\ v \in Progs /\ Moves(xm.bank, xm.prog[p].used, c, v.used)
    BY Zenon, <1>7, <1>10, <1>19
  <2> HIDE DEF n, xm, c, v, p
  <2>3. /\ xm = [bank |-> xm.bank, prog |-> xm.prog, routing |-> xm.routing]
        /\ xm.prog \in [Patches -> Progs]
    BY <2>2, MgrFacts
  <2>4. /\ n = [bank |-> n.bank, prog |-> n.prog, routing |-> n.routing]
        /\ n.bank = c /\ n.routing = xm.routing /\ n.prog \in [Patches -> Progs]
        /\ n.prog[p] = v /\ \A q \in Patches : q # p => n.prog[q] = xm.prog[q]
    BY <2>1, <2>2, <2>3
  <2>5. Moves(xm.bank, xm.prog[p].used, n.bank, n.prog[p].used)
    BY <2>2, <2>4
  <2>6. /\ n \in Mgrs /\ Counted(n) /\ Table(n.bank)
        /\ \A q \in Patches : q # p => \A g \in xm.prog[q].used : n.bank.line[g] = xm.bank.line[g]
        /\ \A g \in xm.routing.used : n.bank.line[g] = xm.bank.line[g]
    BY <2>2, <2>4, <2>5, Reprogrammed
  <2>7. /\ n \in Mgrs /\ Counted(n) /\ Table(n.bank)
        /\ n.bank = c /\ n.routing = xm.routing
        /\ n.prog[p] = v /\ \A q \in Patches : q # p => n.prog[q] = xm.prog[q]
        /\ \A q \in Patches : q # p => \A g \in xm.prog[q].used : c.line[g] = xm.bank.line[g]
        /\ \A g \in xm.routing.used : c.line[g] = xm.bank.line[g]
    BY <2>4, <2>6
  <2>8. QED
    BY <2>7 DEF xm, c, v
<1> HIDE DEF n, t
<1>21. ASSUME NEW q \in All PROVE Whole(n.bank, q, n.prog[q])
  <2>1. CASE q = p
    BY Zenon, <1>19, <1>20, <2>1
  <2>2. CASE q # p
    <3>1. q \in Patches /\ n.prog[q] = x.m.prog[q] /\ Whole(x.m.bank, q, x.m.prog[q]) /\ x.m.prog[q] \in Progs
      BY <1>5, <1>10, <1>11, <1>20, <2>2, MgrFacts
    <3>2. \A g \in x.m.prog[q].used : n.bank.line[g] = x.m.bank.line[g]
      BY <1>20, <2>2, <3>1
    <3>3. QED
      BY <3>1, <3>2, WholeElsewhere
  <2>3. QED
    BY <2>1, <2>2
<1>22. n.routing = m.routing /\ \A g \in m.routing.used : n.bank.line[g] = m.bank.line[g]
  BY <1>11, <1>20
<1>23. ASSUME NEW q \in Patches, q \notin {here[j] : j \in 1 .. k} PROVE n.prog[q] = m.prog[q]
  <2>1. q # p
    BY <1>6, <1>23
  <2>2. q \notin {here[j] : j \in 1 .. k - 1}
    BY <1>6, <1>23
  <2>3. QED
    BY Zenon, <1>1, <1>20, <2>1, <2>2
<1>24. ASSUME NEW q \in ToSet(here), NEW i \in LinesOf[q], i # l
       PROVE  /\ n.prog[q].rd[i] = m.prog[q].rd[i] /\ n.prog[q].wr[i] = m.prog[q].wr[i]
              /\ n.prog[q].in[i] = m.prog[q].in[i] /\ n.prog[q].out[i] = m.prog[q].out[i]
  <2>1. CASE q = p
    <3>1. n.prog[q] = s.t /\ t = m.prog[q] /\ i \in LinesOf[p]
      BY <1>9, <1>20, <2>1
    <3>2. s.t.rd[i] = t.rd[i] /\ s.t.wr[i] = t.wr[i] /\ s.t.in[i] = t.in[i] /\ s.t.out[i] = t.out[i]
      BY Zenon, <1>19, <1>24, <3>1
    <3>3. QED
      BY <3>1, <3>2
  <2>2. CASE q # p
    <3>1. n.prog[q] = x.m.prog[q]
      BY <1>5, <1>20, <2>2
    <3>2. QED
      BY <1>24, <1>16, <3>1
  <2>3. QED
    BY <2>1, <2>2
<1>25. ASSUME NEW j \in 1 .. k
       PROVE /\ n.prog[here[j]].rd[l] = IF j = 1 THEN r ELSE n.prog[here[j - 1]].wr[l]
             /\ m.prog[here[j]].rd[l] \in GprOps => n.prog[here[j]].out[l] = n.prog[here[j]].wr[l]
             /\ n.prog[here[j]].wr[l] = m.prog[here[j]].wr[l] \/ n.prog[here[j]].wr[l] \in GprOps
  <2>1. CASE j = k
    <3>1. n.prog[here[j]] = s.t
      BY <1>20, <2>1
    <3>2. s.t.wr[l] = m.prog[here[j]].wr[l] \/ s.t.wr[l] \in GprOps
      BY Zenon, <1>9, <1>19, <2>1
    <3>3. s.t.rd[l] = IF j = 1 THEN r ELSE n.prog[here[j - 1]].wr[l]
      <4>1. CASE k = 1
        <5>1. x.in = r
          BY <1>17, <4>1
        <5>2. QED
          BY Zenon, <1>19, <2>1, <4>1, <5>1
      <4>2. CASE k # 1
        <5>1. k - 1 \in 1 .. k - 1 /\ k - 1 # 0
          BY <1>6, <4>2
        <5>2. x.in = x.m.prog[here[k - 1]].wr[l]
          BY <5>1, <1>1
        <5>3. n.prog[here[k - 1]] = x.m.prog[here[k - 1]]
          BY <1>8, <1>20, <5>1
        <5>4. QED
          BY Zenon, <1>19, <2>1, <4>2, <5>2, <5>3
      <4>3. QED
        BY <4>1, <4>2
    <3>4. m.prog[here[j]].rd[l] \in GprOps => s.t.out[l] = s.t.wr[l]
      BY Zenon, <1>9, <1>19, <2>1
    <3>5. QED
      BY Zenon, <3>1, <3>2, <3>3, <3>4
  <2>2. CASE j # k
    <3>1. j \in 1 .. k - 1 /\ (j # 1 => j - 1 \in 1 .. k - 1)
      BY <1>6, <2>2
    <3>2. n.prog[here[j]] = x.m.prog[here[j]] /\ (j # 1 => n.prog[here[j - 1]] = x.m.prog[here[j - 1]])
      BY <1>8, <1>20, <3>1
    <3>3. /\ x.m.prog[here[j]].rd[l] = IF j = 1 THEN r ELSE x.m.prog[here[j - 1]].wr[l]
          /\ m.prog[here[j]].rd[l] \in GprOps => x.m.prog[here[j]].out[l] = x.m.prog[here[j]].wr[l]
          /\ x.m.prog[here[j]].wr[l] = m.prog[here[j]].wr[l] \/ x.m.prog[here[j]].wr[l] \in GprOps
      BY <3>1, <1>3
    <3>4. QED
      BY <3>2, <3>3
  <2>3. QED
    BY <2>1, <2>2
<1>26. k # 0 /\ s.in = n.prog[here[k]].wr[l]
  <2>1. s.in = n.prog[here[k]].wr[l]
    BY Zenon, <1>19, <1>20
  <2>2. k # 0
    BY <1>6
  <2>3. QED
    BY <2>1, <2>2
<1>27. Keeps(x.m.bank, l, n.bank) /\ \A g \in Gprs : n.bank.usage[g] >= x.m.bank.usage[g] - 1
  <2> DEFINE b == x.m.bank
             v == s.t
  <2>1. /\ b \in Banks /\ t \in Progs /\ Whole(b, p, t) /\ \A g \in t.used : b.usage[g] > 0
        /\ l \in LinesOf[p] /\ Standing(b, l, x.in) /\ Rewired(b, p, t, l, x.in, s.b, v, s.in)
    BY <1>7, <1>10, <1>11, <1>12, <1>13, <1>15 DEF t
  <2> HIDE DEF p, b, v
  <2>2. Keeps(b, l, s.b) /\ \A g \in Gprs : s.b.usage[g] >= b.usage[g] - 1
    BY <1>7, <2>1, RewiredKeeps
  <2>3. QED
    BY <1>20, <2>2 DEF b
<1>28. Keeps(m.bank, l, n.bank)
  <2> DEFINE b == m.bank
             c == x.m.bank
             d == n.bank
  <2>1. Keeps(b, l, c) /\ Keeps(c, l, d)
    BY <1>4, <1>27
  <2> HIDE DEF b, c, d
  <2>2. Keeps(b, l, d)
    BY <2>1, KeepsOn
  <2>3. QED
    BY <2>2 DEF b, d
<1>29. ASSUME k = 1
        PROVE  /\ \A g \in Gprs : n.bank.usage[g] >= m.bank.usage[g] - 1
               /\ r # m.prog[here[1]].wr[l] => n.prog[here[1]].wr[l] = m.prog[here[1]].wr[l]
  <2>1. x.m = m /\ x.in = r
    BY <1>1, <1>29
  <2>2. n.prog[here[1]] = s.t /\ t = m.prog[here[1]]
    BY <1>9, <1>20, <1>29
  <2>3. QED
    BY <1>19, <1>27, <2>1, <2>2
<1>30. Threaded(All, m, here, l, r, k, y)
  <2>1. Counted(n) /\ Table(n.bank)
    BY <1>20
  <2>2. y.m = n /\ y.in = s.in
    BY <1>18
  <2> HIDE DEF p
  <2>3. /\ Counted(y.m) /\ Table(y.m.bank)
        /\ y.m.routing = m.routing /\ \A g \in m.routing.used : y.m.bank.line[g] = m.bank.line[g]
        /\ \A q \in All : Whole(y.m.bank, q, y.m.prog[q])
        /\ \A q \in Patches : q \notin {here[j] : j \in 1 .. k} => y.m.prog[q] = m.prog[q]
    BY Zenon, <1>21, <1>22, <1>23, <2>1, <2>2
  <2>4. /\ \A q \in ToSet(here) : \A i \in LinesOf[q] : i # l =>
              /\ y.m.prog[q].rd[i] = m.prog[q].rd[i] /\ y.m.prog[q].wr[i] = m.prog[q].wr[i]
              /\ y.m.prog[q].in[i] = m.prog[q].in[i] /\ y.m.prog[q].out[i] = m.prog[q].out[i]
    BY Zenon, <1>24, <2>2
  <2>5. ASSUME NEW j \in 1 .. k
        PROVE  /\ y.m.prog[here[j]].rd[l] = IF j = 1 THEN r ELSE y.m.prog[here[j - 1]].wr[l]
               /\ m.prog[here[j]].rd[l] \in GprOps => y.m.prog[here[j]].out[l] = y.m.prog[here[j]].wr[l]
               /\ y.m.prog[here[j]].wr[l] = m.prog[here[j]].wr[l] \/ y.m.prog[here[j]].wr[l] \in GprOps
    <3> DEFINE w == here[j]
               prev == here[j - 1]
    <3>1. /\ n.prog[w].rd[l] = IF j = 1 THEN r ELSE n.prog[prev].wr[l]
          /\ m.prog[w].rd[l] \in GprOps => n.prog[w].out[l] = n.prog[w].wr[l]
          /\ n.prog[w].wr[l] = m.prog[w].wr[l] \/ n.prog[w].wr[l] \in GprOps
      BY <1>25
    <3>2. y.m.prog = n.prog
      BY <2>2
    <3> HIDE DEF w, prev
    <3>3. /\ y.m.prog[w].rd[l] = IF j = 1 THEN r ELSE y.m.prog[prev].wr[l]
          /\ m.prog[w].rd[l] \in GprOps => y.m.prog[w].out[l] = y.m.prog[w].wr[l]
          /\ y.m.prog[w].wr[l] = m.prog[w].wr[l] \/ y.m.prog[w].wr[l] \in GprOps
      BY Zenon, <3>1, <3>2
    <3>4. QED
      BY Zenon, <3>3 DEF w, prev
  <2>6. k # 0 /\ y.in = y.m.prog[here[k]].wr[l]
    BY <1>26, <2>2
  <2>7. /\ Keeps(m.bank, l, y.m.bank)
        /\ k = 1 => \A g \in Gprs : y.m.bank.usage[g] >= m.bank.usage[g] - 1
        /\ k = 1 /\ r # m.prog[here[1]].wr[l] => y.m.prog[here[1]].wr[l] = m.prog[here[1]].wr[l]
    BY Zenon, <1>28, <1>29, <2>2
  <2>8. QED
    BY Zenon, <2>3, <2>4, <2>5, <2>6, <2>7 DEF Threaded
<1>31. y \in [m : Mgrs, in : Operands]
  BY Zenon, <1>18, <1>19, <1>20
<1>32. QED
  BY <1>30, <1>31

LEMMA ThreadIs ==
    ASSUME NEW All, NEW m, NEW list, NEW l, NEW r, Threadable(All, m, OnLine(list, l), l, r)
    PROVE  /\ Thread(m, list, l, r) \in [m : Mgrs, in : Operands]
           /\ Threaded(All, m, OnLine(list, l), l, r, Len(OnLine(list, l)), Thread(m, list, l, r))
<1> DEFINE here == OnLine(list, l)
           N == Len(here)
           W == [m : Mgrs, in : Operands]
           base == [m |-> m, in |-> r]
           slots == m.bank.io[l]
           Matching(x, p) == MatchIo([b |-> x.m.bank, t |-> x.m.prog[p], in |-> x.in], l, slots)
           Step(x, p) == [m |-> [x.m EXCEPT !.bank = Matching(x, p).b, !.prog[p] = Matching(x, p).t],
                          in |-> Matching(x, p).in]
           J == [k \in 0 .. N |-> {x \in W : Threaded(All, m, here, l, r, k, x)}]
           F == [k \in 1 .. N |-> [x \in J[k - 1] |-> Step(x, here[k])]]
           Loops(f) == f = [k \in 0 .. N |-> IF k = 0 THEN base ELSE Step(f[k - 1], here[k])]
<1>1. Threadable(All, m, here, l, r)
  OBVIOUS
<1>2. Thread(m, list, l, r) = (CHOOSE f : Loops(f))[N]
  BY DEF Thread, After
<1> HIDE DEF here
<1>3. N \in Nat /\ m \in Mgrs /\ l \in Lines
  BY <1>1 DEF Threadable
<1>4. base \in J[0]
  <2>1. r \in Operands
    BY <1>1, <1>3, StandingFacts DEF Threadable
  <2>2. base \in W /\ base.m = m /\ base.in = r
    BY <1>3, <2>1
  <2>3. 0 \in 0 .. N /\ {here[j] : j \in 1 .. 0} = {} /\ 1 .. 0 = {}
    BY <1>3
  <2> HIDE DEF base, N
  <2>4. Keeps(m.bank, l, m.bank)
    BY DEF Keeps
  <2>5. Threaded(All, m, here, l, r, 0, base)
    BY <1>1, <2>2, <2>3, <2>4 DEF Threaded, Threadable
  <2>6. QED
    BY <2>2, <2>3, <2>5
<1>5. ASSUME NEW k \in 1 .. N, NEW x \in J[k - 1] PROVE Step(x, here[k]) \in J[k] /\ F[k][x] = Step(x, here[k])
  <2>1. k - 1 \in 0 .. N /\ k \in 0 .. N
    BY <1>3
  <2>2. x \in W /\ Threaded(All, m, here, l, r, k - 1, x)
    BY <2>1
  <2> DEFINE s == Matching(x, here[k])
             y == Step(x, here[k])
  <2>3. y = [m |-> [x.m EXCEPT !.bank = s.b, !.prog[here[k]] = s.t], in |-> s.in]
    OBVIOUS
  <2>4. s = MatchIo([b |-> x.m.bank, t |-> x.m.prog[here[k]], in |-> x.in], l, slots) /\ slots = m.bank.io[l]
    OBVIOUS
  <2> HIDE DEF s, Step, slots
  <2>5. y \in W /\ Threaded(All, m, here, l, r, k, y)
    BY Zenon, <1>1, <2>2, <2>3, <2>4, ThreadStep
  <2>6. QED
    BY <2>1, <2>5
<1>6. /\ DOMAIN J = 0 .. N /\ DOMAIN F = 1 .. N
      /\ \A k \in 1 .. N : \A x \in J[k - 1] : F[k][x] \in J[k]
  BY Zenon, <1>5
<1> HIDE DEF J, F, N, Step, base
<1>7. PICK f : /\ f = [k \in 0 .. N |-> f[k]]
               /\ f[0] = base /\ \A k \in 1 .. N : f[k] = F[k][f[k - 1]]
               /\ \A k \in 0 .. N : f[k] \in J[k]
  BY <1>3, <1>4, <1>6, Walk
<1>8. Loops(f)
  <2> DEFINE G(k) == IF k = 0 THEN base ELSE Step(f[k - 1], here[k])
  <2>1. ASSUME NEW k \in 0 .. N PROVE f[k] = G(k)
    <3>1. CASE k = 0
      BY <1>7, <3>1
    <3>2. CASE k # 0
      <4>1. k \in 1 .. N /\ k - 1 \in 0 .. N
        BY <1>3, <3>2
      <4>2. f[k - 1] \in J[k - 1] /\ f[k] = F[k][f[k - 1]]
        BY <1>7, <4>1
      <4>3. QED
        BY <1>5, <3>2, <4>1, <4>2
    <3>3. QED
      BY <3>1, <3>2
  <2> HIDE DEF G
  <2>2. f = [k \in 0 .. N |-> G(k)]
    BY <1>7, <2>1
  <2>3. QED
    BY <2>2 DEF G
<1> DEFINE g == CHOOSE h : Loops(h)
<1>9. Loops(g)
  BY <1>8
<1>10. \A k \in 0 .. N : g[k] \in J[k]
  <2> HIDE DEF g
  <2>1. g[0] = base
    BY <1>3, <1>9
  <2>2. ASSUME NEW k \in 1 .. N, g[k - 1] \in J[k - 1] PROVE g[k] \in J[k]
    <3>1. g[k] = Step(g[k - 1], here[k])
      <4>1. k \in 0 .. N /\ k # 0
        BY <1>3
      <4>2. QED
        BY <1>9, <4>1
    <3>2. QED
      BY <1>5, <2>2, <3>1
  <2>3. g[0] \in J[0]
    BY <1>4, <2>1
  <2>4. QED
    BY <1>3, <2>2, <2>3, AlongWalk
<1>11. Thread(m, list, l, r) \in J[N]
  BY <1>2, <1>3, <1>10
<1>12. QED
  BY <1>3, <1>11 DEF J, N, here

\* What threading line l of list makes of the manager m.
Ends(All, m, list, l, r, x) ==
    /\ x.m \in Mgrs /\ x.in \in Operands /\ Counted(x.m) /\ Table(x.m.bank)
    /\ \A p \in All : Whole(x.m.bank, p, x.m.prog[p])
    /\ x.m.routing = m.routing /\ \A g \in m.routing.used : x.m.bank.line[g] = m.bank.line[g]
    /\ Keeps(m.bank, l, x.m.bank)
    /\ \A p \in Patches : ~(p \in ToSet(list) /\ l \in LinesOf[p]) => x.m.prog[p] = m.prog[p]
    /\ \A p \in Patches : \A i \in LinesOf[p] : i # l =>
          /\ x.m.prog[p].rd[i] = m.prog[p].rd[i] /\ x.m.prog[p].wr[i] = m.prog[p].wr[i]
          /\ x.m.prog[p].in[i] = m.prog[p].in[i] /\ x.m.prog[p].out[i] = m.prog[p].out[i]
    /\ LET here == OnLine(list, l)
       IN /\ \A j \in DOMAIN here :
                /\ x.m.prog[here[j]].rd[l] = IF j = 1 THEN r ELSE x.m.prog[here[j - 1]].wr[l]
                /\ m.prog[here[j]].rd[l] \in GprOps => x.m.prog[here[j]].out[l] = x.m.prog[here[j]].wr[l]
                /\ x.m.prog[here[j]].wr[l] = m.prog[here[j]].wr[l] \/ x.m.prog[here[j]].wr[l] \in GprOps
          /\ x.in = IF Len(here) = 0 THEN r ELSE x.m.prog[here[Len(here)]].wr[l]

LEMMA ThreadEnds ==
    ASSUME NEW All, NEW m, NEW list \in Seq(Patches), NEW l, NEW r, Threadable(All, m, OnLine(list, l), l, r)
    PROVE  Ends(All, m, list, l, r, Thread(m, list, l, r))
<1> DEFINE here == OnLine(list, l)
           N == Len(here)
           x == Thread(m, list, l, r)
<1>1. x \in [m : Mgrs, in : Operands] /\ Threaded(All, m, here, l, r, N, x)
  BY ThreadIs
<1> HIDE DEF x
<1>2. N \in Nat /\ DOMAIN here = 1 .. N /\ ToSet(here) = {p \in ToSet(list) : l \in LinesOf[p]}
  BY OnLineFacts
<1>3. {here[j] : j \in 1 .. N} = ToSet(here)
  BY <1>2 DEF ToSet
<1>4. /\ Counted(x.m) /\ Table(x.m.bank)
      /\ \A p \in All : Whole(x.m.bank, p, x.m.prog[p])
      /\ x.m.routing = m.routing /\ \A g \in m.routing.used : x.m.bank.line[g] = m.bank.line[g]
      /\ Keeps(m.bank, l, x.m.bank)
  BY <1>1 DEF Threaded
<1>5. \A p \in Patches : p \notin ToSet(here) => x.m.prog[p] = m.prog[p]
  BY <1>1, <1>3 DEF Threaded
<1>6. \A p \in ToSet(here) : \A i \in LinesOf[p] : i # l =>
          /\ x.m.prog[p].rd[i] = m.prog[p].rd[i] /\ x.m.prog[p].wr[i] = m.prog[p].wr[i]
          /\ x.m.prog[p].in[i] = m.prog[p].in[i] /\ x.m.prog[p].out[i] = m.prog[p].out[i]
  BY <1>1 DEF Threaded
<1>7. \A j \in DOMAIN here :
          /\ x.m.prog[here[j]].rd[l] = IF j = 1 THEN r ELSE x.m.prog[here[j - 1]].wr[l]
          /\ m.prog[here[j]].rd[l] \in GprOps => x.m.prog[here[j]].out[l] = x.m.prog[here[j]].wr[l]
          /\ x.m.prog[here[j]].wr[l] = m.prog[here[j]].wr[l] \/ x.m.prog[here[j]].wr[l] \in GprOps
  BY <1>1, <1>2 DEF Threaded
<1>8. x.in = IF Len(here) = 0 THEN r ELSE x.m.prog[here[Len(here)]].wr[l]
  BY <1>1 DEF Threaded
<1>9. x.m \in Mgrs /\ x.in \in Operands
  BY <1>1
<1>10. \A p \in Patches : \A i \in LinesOf[p] : i # l =>
          /\ x.m.prog[p].rd[i] = m.prog[p].rd[i] /\ x.m.prog[p].wr[i] = m.prog[p].wr[i]
          /\ x.m.prog[p].in[i] = m.prog[p].in[i] /\ x.m.prog[p].out[i] = m.prog[p].out[i]
  BY <1>5, <1>6
<1>11. \A p \in Patches : ~(p \in ToSet(list) /\ l \in LinesOf[p]) => x.m.prog[p] = m.prog[p]
  BY <1>2, <1>5
<1>12. Ends(All, m, list, l, r, x)
  BY <1>4, <1>7, <1>8, <1>9, <1>10, <1>11 DEF Ends
<1>13. QED
  BY <1>12 DEF x

-----------------------------------------------------------------------------
(* The manager.                                                            *)

\* A patch writes an output line itself only when it is the last of it.
OutLast(m, ol) ==
    \A l \in Lines : \A k \in DOMAIN OnLine(ol, l) :
        k < Len(OnLine(ol, l)) => m.prog[OnLine(ol, l)[k]].wr[l] \in GprOps

\* A manager with the patches il on input lines and ol on output lines.
Sound(m, il, ol) ==
    /\ m \in Mgrs /\ Counted(m)
    /\ \A p \in ToSet(il) \cup ToSet(ol) : Whole(m.bank, p, m.prog[p])
    /\ \A p \in Patches : p \notin ToSet(il) \cup ToSet(ol) => m.prog[p].used = {}
    /\ \A p \in ToSet(il) : \A l \in LinesOf[p] : m.prog[p].wr[l] \in GprOps
    /\ \A p \in ToSet(ol) : \A l \in LinesOf[p] : m.prog[p].rd[l] \in GprOps
    /\ OutLast(m, ol)

\* The library knows what p reads and writes on line l.
Known(m, p, l) == m.prog[p].in[l] = m.prog[p].rd[l] /\ m.prog[p].out[l] = m.prog[p].wr[l]

\* The patches of input line l read one what the other writes, and the routing what the last one does.
InChain(m, il, l) ==
    /\ \A k \in DOMAIN OnLine(il, l) :
          m.prog[OnLine(il, l)[k]].rd[l] = IF k = 1 THEN In(l) ELSE m.prog[OnLine(il, l)[k - 1]].wr[l]
    /\ m.routing.in[l] = IF Len(OnLine(il, l)) = 0 THEN In(l)
                         ELSE m.prog[OnLine(il, l)[Len(OnLine(il, l))]].wr[l]

\* Nothing but line l may be different in n for the patches of list, and nothing for the others.
Elsewhere(m, n, list, l) ==
    /\ \A p \in Patches : p \notin ToSet(list) => n.prog[p] = m.prog[p]
    /\ \A p \in Patches : \A i \in LinesOf[p] : i # l =>
          /\ n.prog[p].rd[i] = m.prog[p].rd[i] /\ n.prog[p].wr[i] = m.prog[p].wr[i]
          /\ n.prog[p].in[i] = m.prog[p].in[i] /\ n.prog[p].out[i] = m.prog[p].out[i]

\* A load that is not refused a gpr.
LEMMA SparedIs ==
    ASSUME NEW m, NEW il \in Seq(Patches), NEW l \in Lines, m.bank \in Banks,
           \A p \in ToSet(il) : Whole(m.bank, p, m.prog[p]), ~Starves(m, il, l)
    PROVE  Spared(m, OnLine(il, l), l)
<1> DEFINE here == OnLine(il, l)
           p == m.prog[here[1]]
           q == m.prog[here[2]]
<1> SUFFICES ASSUME Len(here) > 1, q.rd[l] = In(l), p.wr[l] = q.wr[l]
             PROVE  \E g \in Gprs : p.rd[l] = Gpr(g) /\ m.bank.usage[g] > 1
  BY DEF Spared
<1>1. PICK g \in GprsOf(p.rd[l]) : ~(m.bank.usage[g] <= 1)
  BY DEF Starves
<1>2. Len(here) \in Nat /\ DOMAIN here = 1 .. Len(here) /\ ToSet(here) = {x \in ToSet(il) : l \in LinesOf[x]}
  BY OnLineFacts
<1>3. here[1] \in ToSet(il) /\ l \in LinesOf[here[1]]
  BY <1>2 DEF ToSet
<1>4. p.rd[l] \in {In(l)} \cup GprOps
  BY <1>3 DEF Whole, AtLine
<1> HIDE DEF p
<1>5. PICK h \in Gprs : p.rd[l] = Gpr(h)
  BY <1>1, <1>4, OperandFacts DEF GprOps
<1>6. g = h
  BY <1>1, <1>5, OperandFacts
<1>7. m.bank.usage[h] \in Nat
  BY BankFacts
<1>8. QED
  BY <1>1, <1>5, <1>6, <1>7

LEMMA ApartFacts ==
    ASSUME NEW il, NEW ol, Apart(il, ol)
    PROVE  /\ il \in Seq(Patches) /\ ol \in Seq(Patches) /\ Distinct(il) /\ Distinct(ol)
           /\ ToSet(il) \in SUBSET Patches /\ ToSet(ol) \in SUBSET Patches
           /\ \A p \in ToSet(il) : p \notin ToSet(ol)
  BY DEF Apart, ToSet

\* The patches of a line of a list.
LEMMA HereFacts ==
    ASSUME NEW list \in Seq(Patches), NEW l, NEW k \in DOMAIN OnLine(list, l)
    PROVE  /\ OnLine(list, l)[k] \in ToSet(list) /\ OnLine(list, l)[k] \in Patches
           /\ l \in LinesOf[OnLine(list, l)[k]]
           /\ k - 1 # 0 /\ k # 1 => k - 1 \in DOMAIN OnLine(list, l)
<1> DEFINE here == OnLine(list, l)
<1>1. /\ here \in Seq(Patches) /\ ToSet(here) = {p \in ToSet(list) : l \in LinesOf[p]}
      /\ Len(here) \in Nat /\ DOMAIN here = 1 .. Len(here)
  BY OnLineFacts
<1> HIDE DEF here
<1>2. k \in DOMAIN here
  BY DEF here
<1>3. here[k] \in ToSet(here) /\ here[k] \in Patches
  BY <1>1, <1>2 DEF ToSet
<1>4. k # 1 => k - 1 \in DOMAIN here
  BY <1>1, <1>2
<1>5. QED
  BY <1>1, <1>3, <1>4 DEF here

\* The routing code is to read what the line x stands at.
Inserted(x, l) == [x.m EXCEPT !.routing.in[l] = x.in]

\* What is threaded at one line leaves the others what they need.
LEMMA SparedOn ==
    ASSUME NEW il \in Seq(Patches), NEW m, NEW n, NEW l \in Lines, NEW i \in Lines, i # l,
           \A p \in ToSet(il) : Whole(m.bank, p, m.prog[p]),
           m.bank \in Banks, Elsewhere(m, n, il, l), Keeps(m.bank, l, n.bank), Spared(m, OnLine(il, i), i)
    PROVE  Spared(n, OnLine(il, i), i)
<1> DEFINE here == OnLine(il, i)
<1> SUFFICES ASSUME Len(here) > 1, n.prog[here[2]].rd[i] = In(i), n.prog[here[1]].wr[i] = n.prog[here[2]].wr[i]
             PROVE  \E g \in Gprs : n.prog[here[1]].rd[i] = Gpr(g) /\ n.bank.usage[g] > 1
  BY DEF Spared
<1>1. Len(here) \in Nat /\ DOMAIN here = 1 .. Len(here)
  BY OnLineFacts
<1>2. 1 \in DOMAIN here /\ 2 \in DOMAIN here
  BY <1>1
<1>3. \A k \in DOMAIN here : here[k] \in Patches /\ here[k] \in ToSet(il) /\ i \in LinesOf[here[k]]
  BY HereFacts
<1>4. \A k \in DOMAIN here : /\ n.prog[here[k]].rd[i] = m.prog[here[k]].rd[i]
                             /\ n.prog[here[k]].wr[i] = m.prog[here[k]].wr[i]
  BY <1>3 DEF Elsewhere
<1>5. PICK g \in Gprs : m.prog[here[1]].rd[i] = Gpr(g) /\ m.bank.usage[g] > 1
  BY <1>2, <1>4 DEF Spared
<1>6. m.bank.line[g] = i
  <2> DEFINE b == m.bank
             t == m.prog[here[1]]
  <2>1. AtLine(b, t, i)
    BY <1>2, <1>3 DEF Whole
  <2>2. Gpr(g) \in {t.rd[i], t.wr[i]}
    BY <1>5
  <2> HIDE DEF b, t
  <2>3. b.line[g] = i
    BY <2>1, <2>2, AtLineGpr
  <2>4. QED
    BY <2>3 DEF b
<1>7. n.bank.usage[g] = m.bank.usage[g]
  <2>1. m.bank.usage[g] > 0
    BY <1>5, BankFacts
  <2>2. QED
    BY <1>6, <2>1 DEF Keeps
<1>8. QED
  BY <1>2, <1>4, <1>5, <1>7

LEMMA ThreadInputStep ==
    ASSUME NEW il, NEW ol, Apart(il, ol), NEW m, Sound(m, il, ol), Table(m.bank), NEW l \in Lines,
           \A p \in ToSet(il) : l \in LinesOf[p] => Known(m, p, l), Spared(m, OnLine(il, l), l),
           NEW x, x = Thread(m, il, l, In(l)), NEW n, n = Inserted(x, l)
    PROVE  /\ Sound(n, il, ol) /\ Table(n.bank) /\ Elsewhere(m, n, il, l) /\ InChain(n, il, l)
           /\ Keeps(m.bank, l, n.bank)
           /\ \A i \in Lines : i # l => n.routing.in[i] = m.routing.in[i]
<1> DEFINE All == ToSet(il) \cup ToSet(ol)
           here == OnLine(il, l)
           N == Len(here)
<1>1. /\ il \in Seq(Patches) /\ ol \in Seq(Patches) /\ Distinct(il) /\ Distinct(ol)
      /\ ToSet(il) \in SUBSET Patches /\ ToSet(ol) \in SUBSET Patches
      /\ \A p \in ToSet(il) : p \notin ToSet(ol)
  BY ApartFacts
<1>2. /\ here \in Seq(Patches) /\ ToSet(here) = {p \in ToSet(il) : l \in LinesOf[p]} /\ Distinct(here)
      /\ N \in Nat /\ DOMAIN here = 1 .. N
  BY <1>1, OnLineFacts
<1>3. \A k \in DOMAIN here : here[k] \in ToSet(il) /\ here[k] \in Patches /\ l \in LinesOf[here[k]]
  BY <1>1, HereFacts
<1>4. m \in Mgrs /\ Counted(m) /\ (\A p \in All : Whole(m.bank, p, m.prog[p])) /\ OutLast(m, ol)
  BY DEF Sound
<1>5. Threadable(All, m, here, l, In(l))
  <2>1. Standing(m.bank, l, In(l))
    BY DEF Standing
  <2>2. Spared(m, here, l)
    OBVIOUS
  <2>3. \A k \in DOMAIN here : m.prog[here[k]].wr[l] \in GprOps
    BY <1>3 DEF Sound
  <2>4. ToSet(here) \subseteq All /\ All \subseteq Patches
    BY <1>1, <1>2
  <2>5. \A p \in ToSet(here) : l \in LinesOf[p] /\ m.prog[p].in[l] = m.prog[p].rd[l]
                                               /\ m.prog[p].out[l] = m.prog[p].wr[l]
    BY <1>2 DEF Known
  <2> HIDE DEF here, All
  <2>6. QED
    BY <1>2, <1>4, <2>1, <2>2, <2>3, <2>4, <2>5 DEF Threadable
<1> HIDE DEF All
<1>6. /\ x.m \in Mgrs /\ x.in \in Operands /\ Counted(x.m) /\ Table(x.m.bank)
      /\ \A p \in All : Whole(x.m.bank, p, x.m.prog[p])
      /\ x.m.routing = m.routing /\ Keeps(m.bank, l, x.m.bank)
      /\ \A p \in Patches : ~(p \in ToSet(il) /\ l \in LinesOf[p]) => x.m.prog[p] = m.prog[p]
      /\ \A p \in Patches : \A i \in LinesOf[p] : i # l =>
            /\ x.m.prog[p].rd[i] = m.prog[p].rd[i] /\ x.m.prog[p].wr[i] = m.prog[p].wr[i]
            /\ x.m.prog[p].in[i] = m.prog[p].in[i] /\ x.m.prog[p].out[i] = m.prog[p].out[i]
      /\ \A j \in DOMAIN here :
            /\ x.m.prog[here[j]].rd[l] = IF j = 1 THEN In(l) ELSE x.m.prog[here[j - 1]].wr[l]
            /\ x.m.prog[here[j]].wr[l] = m.prog[here[j]].wr[l] \/ x.m.prog[here[j]].wr[l] \in GprOps
      /\ x.in = IF Len(here) = 0 THEN In(l) ELSE x.m.prog[here[Len(here)]].wr[l]
  <2>1. Threadable(All, m, OnLine(il, l), l, In(l))
    BY <1>5
  <2> HIDE DEF here, N
  <2>2. Ends(All, m, il, l, In(l), x)
    BY <1>1, <2>1, ThreadEnds
  <2>3. QED
    BY <2>2 DEF Ends, here
<1>7. n = [x.m EXCEPT !.routing.in[l] = x.in]
  BY DEF Inserted
<1>8. /\ n.bank = x.m.bank /\ n.prog = x.m.prog
      /\ n.routing = [used |-> m.routing.used, in |-> [m.routing.in EXCEPT ![l] = x.in],
                      out |-> m.routing.out, code |-> m.routing.code]
      /\ n = [bank |-> n.bank, prog |-> n.prog, routing |-> n.routing]
  <2>1. /\ x.m = [bank |-> x.m.bank, prog |-> x.m.prog, routing |-> m.routing]
        /\ m.routing = [used |-> m.routing.used, in |-> m.routing.in, out |-> m.routing.out, code |-> m.routing.code]
    BY <1>4, <1>6, MgrFacts, RoutingFacts
  <2>2. QED
    BY <1>7, <2>1
<1>9. m.routing.in \in [Lines -> Operands] /\ m.routing.used \in SUBSET Gprs
  BY <1>4, MgrFacts, RoutingFacts
<1>10. n.routing \in Routings /\ n.routing.used = m.routing.used
  <2>1. [m.routing.in EXCEPT ![l] = x.in] \in [Lines -> Operands]
    BY <1>6, <1>9
  <2> DEFINE f == [m.routing.in EXCEPT ![l] = x.in]
  <2>2. f \in [Lines -> Operands] /\ m.routing \in Routings
    BY <1>4, <2>1, MgrFacts
  <2>3. n.routing = [used |-> m.routing.used, in |-> f, out |-> m.routing.out, code |-> m.routing.code]
    BY <1>8
  <2> HIDE DEF f
  <2>4. QED
    BY <2>2, <2>3, RoutingFacts DEF Routings
<1>11. n \in Mgrs /\ Counted(n) /\ Table(n.bank)
  <2>1. n \in Mgrs
    BY <1>6, <1>8, <1>10, MgrFacts DEF Mgrs
  <2>2. Counted(n)
    <3>1. n.bank = x.m.bank /\ n.prog = x.m.prog /\ n.routing.used = x.m.routing.used /\ Counted(x.m)
      BY <1>6, <1>8, <1>10
    <3>2. QED
      BY <3>1 DEF Counted
  <2>3. QED
    BY <1>6, <1>8, <2>1, <2>2
<1>12. Elsewhere(m, n, il, l)
  <2>1. n.prog = x.m.prog
    BY <1>8
  <2>2. \A p \in Patches : p \notin ToSet(il) => x.m.prog[p] = m.prog[p]
    BY <1>6
  <2>3. \A p \in Patches : \A i \in LinesOf[p] : i # l =>
          /\ x.m.prog[p].rd[i] = m.prog[p].rd[i] /\ x.m.prog[p].wr[i] = m.prog[p].wr[i]
          /\ x.m.prog[p].in[i] = m.prog[p].in[i] /\ x.m.prog[p].out[i] = m.prog[p].out[i]
    BY <1>6
  <2>4. QED
    BY <2>1, <2>2, <2>3 DEF Elsewhere
<1>13. \A k \in DOMAIN here : n.prog[here[k]].wr[l] \in GprOps
  BY <1>3, <1>6, <1>8 DEF Sound
<1>14. n.routing.in[l] = x.in /\ \A i \in Lines : i # l => n.routing.in[i] = m.routing.in[i]
  BY <1>8, <1>9
<1>15. InChain(n, il, l)
  <2>1. \A j \in DOMAIN here : n.prog[here[j]].rd[l] = IF j = 1 THEN In(l) ELSE n.prog[here[j - 1]].wr[l]
    BY <1>6, <1>8
  <2>2. n.routing.in[l] = IF Len(here) = 0 THEN In(l) ELSE n.prog[here[Len(here)]].wr[l]
    BY <1>6, <1>8, <1>14
  <2>3. QED
    BY <2>1, <2>2 DEF InChain
<1>16. ASSUME NEW p \in ToSet(il), NEW i \in LinesOf[p] PROVE n.prog[p].wr[i] \in GprOps
  <2>1. p \in Patches
    BY <1>1
  <2>2. CASE i # l
    BY <1>6, <1>8, <2>1, <2>2 DEF Sound
  <2>3. CASE i = l
    <3>1. p \in ToSet(here)
      BY <1>2, <2>3
    <3>2. PICK k \in DOMAIN here : p = here[k]
      BY <3>1 DEF ToSet
    <3>3. QED
      BY <1>13, <2>3, <3>2
  <2>4. QED
    BY <2>2, <2>3
<1>17. \A p \in ToSet(ol) : n.prog[p] = m.prog[p]
  BY <1>1, <1>6, <1>8
<1>19. OutLast(n, ol)
  <2>1. ASSUME NEW i \in Lines, NEW k \in DOMAIN OnLine(ol, i), k < Len(OnLine(ol, i))
        PROVE  n.prog[OnLine(ol, i)[k]].wr[i] \in GprOps
    <3>1. OnLine(ol, i)[k] \in ToSet(ol)
      BY <1>1, HereFacts
    <3>2. QED
      BY <1>4, <1>17, <2>1, <3>1 DEF OutLast
  <2>2. QED
    BY <2>1 DEF OutLast
<1>20. \A p \in Patches : p \notin ToSet(il) \cup ToSet(ol) => n.prog[p].used = {}
  BY <1>6, <1>8 DEF Sound
<1>21. \A p \in ToSet(ol) : \A i \in LinesOf[p] : n.prog[p].rd[i] \in GprOps
  BY <1>17 DEF Sound
<1>22. \A p \in ToSet(il) \cup ToSet(ol) : Whole(n.bank, p, n.prog[p])
  BY <1>6, <1>8 DEF All
<1>23. Sound(n, il, ol)
  BY <1>11, <1>16, <1>19, <1>20, <1>21, <1>22 DEF Sound
<1>24. Keeps(m.bank, l, n.bank)
  BY <1>6, <1>8
<1>25. QED
  BY <1>11, <1>12, <1>14, <1>15, <1>23, <1>24

\* The manager x after the first k lines, seq, have been threaded to the patches on input lines.
Entered(m, il, ol, seq, k, x) ==
    /\ Sound(x, il, ol) /\ Table(x.bank)
    /\ \A j \in 1 .. k : InChain(x, il, seq[j])
    /\ \A p \in ToSet(il) : \A l \in LinesOf[p] : l \notin {seq[j] : j \in 1 .. k} => Known(x, p, l)
    /\ \A l \in Lines : l \notin {seq[j] : j \in 1 .. k} => Spared(x, OnLine(il, l), l)
    /\ \A p \in Patches : p \notin ToSet(il) => x.prog[p] = m.prog[p]

LEMMA EnteredStep ==
    ASSUME NEW il, NEW ol, Apart(il, ol), NEW m, NEW seq \in Seq(Lines), Distinct(seq), NEW k \in 1 .. Len(seq), NEW x,
           Entered(m, il, ol, seq, k - 1, x),
           NEW n, Sound(n, il, ol), Table(n.bank), Elsewhere(x, n, il, seq[k]), InChain(n, il, seq[k]),
           Keeps(x.bank, seq[k], n.bank), \A i \in Lines : i # seq[k] => n.routing.in[i] = x.routing.in[i]
    PROVE  Entered(m, il, ol, seq, k, n)
<1> DEFINE l == seq[k]
<1>1. Len(seq) \in Nat /\ DOMAIN seq = 1 .. Len(seq) /\ l \in Lines
  OBVIOUS
<1>2. \A p \in Patches : p \notin ToSet(il) => n.prog[p] = m.prog[p]
  BY DEF Elsewhere, Entered
<1>3. /\ il \in Seq(Patches) /\ ToSet(il) \in SUBSET Patches
  BY ApartFacts
<1>4. ASSUME NEW j \in 1 .. k PROVE InChain(n, il, seq[j])
  <2>1. CASE j = k
    BY <2>1
  <2>2. CASE j # k
    <3> DEFINE i == seq[j]
               here == OnLine(il, i)
    <3>1. j \in 1 .. k - 1 /\ j \in DOMAIN seq /\ k \in DOMAIN seq /\ i \in Lines
      BY <1>1, <2>2
    <3>2. i # l
      BY <2>2, <3>1 DEF Distinct
    <3>3. InChain(x, il, i)
      BY <3>1 DEF Entered
    <3>4. \A h \in DOMAIN here : n.prog[here[h]].rd[i] = x.prog[here[h]].rd[i] /\ n.prog[here[h]].wr[i] = x.prog[here[h]].wr[i]
      <4>1. \A h \in DOMAIN here : here[h] \in Patches /\ i \in LinesOf[here[h]]
        BY <1>3, HereFacts
      <4>2. QED
        BY <3>2, <4>1 DEF Elsewhere
    <3>5. n.routing.in[i] = x.routing.in[i]
      BY <3>1, <3>2
    <3>6. Len(here) \in Nat /\ DOMAIN here = 1 .. Len(here)
      BY <1>3, OnLineFacts
    <3> HIDE DEF here, i, l
    <3>7. /\ \A h \in DOMAIN here : x.prog[here[h]].rd[i] = IF h = 1 THEN In(i) ELSE x.prog[here[h - 1]].wr[i]
          /\ x.routing.in[i] = IF Len(here) = 0 THEN In(i) ELSE x.prog[here[Len(here)]].wr[i]
      BY <3>3 DEF InChain, here
    <3>8. ASSUME NEW h \in DOMAIN here
          PROVE  n.prog[here[h]].rd[i] = IF h = 1 THEN In(i) ELSE n.prog[here[h - 1]].wr[i]
      <4>1. h # 1 => h - 1 \in DOMAIN here
        BY <3>6
      <4>2. QED
        BY <3>4, <3>7, <4>1
    <3>9. n.routing.in[i] = IF Len(here) = 0 THEN In(i) ELSE n.prog[here[Len(here)]].wr[i]
      <4>1. Len(here) # 0 => Len(here) \in DOMAIN here
        BY <3>6
      <4>2. QED
        BY <3>4, <3>5, <3>7, <4>1
    <3>10. InChain(n, il, i)
      BY <3>8, <3>9 DEF InChain, here
    <3>11. QED
      BY <3>10 DEF i
  <2>3. QED
    BY <2>1, <2>2
<1>5. ASSUME NEW p \in ToSet(il), NEW i \in LinesOf[p], i \notin {seq[j] : j \in 1 .. k} PROVE Known(n, p, i)
  <2>1. i # l /\ i \notin {seq[j] : j \in 1 .. k - 1} /\ p \in Patches
    BY <1>1, <1>3, <1>5
  <2>2. Known(x, p, i)
    BY <2>1 DEF Entered
  <2>3. QED
    BY <2>1, <2>2 DEF Elsewhere, Known
<1>6. ASSUME NEW i \in Lines, i \notin {seq[j] : j \in 1 .. k} PROVE Spared(n, OnLine(il, i), i)
  <2>1. i # l /\ i \notin {seq[j] : j \in 1 .. k - 1}
    BY <1>1, <1>6
  <2>2. Spared(x, OnLine(il, i), i) /\ Sound(x, il, ol)
    BY <2>1 DEF Entered
  <2>3. x.bank \in Banks /\ \A p \in ToSet(il) : Whole(x.bank, p, x.prog[p])
    BY <2>2, MgrFacts DEF Sound
  <2>4. Elsewhere(x, n, il, l) /\ Keeps(x.bank, l, n.bank)
    OBVIOUS
  <2> HIDE DEF l
  <2>5. QED
    BY <1>1, <1>3, <2>1, <2>2, <2>3, <2>4, SparedOn
<1>7. QED
  BY <1>2, <1>4, <1>5, <1>6 DEF Entered

LEMMA ThreadInputs ==
    ASSUME Apart(ilist, olist), NEW m, Sound(m, ilist, olist), Table(m.bank),
           \A p \in ToSet(ilist) : \A l \in LinesOf[p] : Known(m, p, l),
           \A l \in Lines : Spared(m, OnLine(ilist, l), l),
           NEW n, n = After(ThreadInput, m, Ascending(Lines))
    PROVE  /\ Sound(n, ilist, olist) /\ Table(n.bank)
           /\ \A l \in Lines : InChain(n, ilist, l)
           /\ \A p \in Patches : p \notin ToSet(ilist) => n.prog[p] = m.prog[p]
<1> DEFINE seq == Ascending(Lines)
           N == Len(seq)
           base == m
           Step(x, l) == ThreadInput(x, l)
           W == Mgrs
           J == [k \in 0 .. N |-> {x \in W : Entered(m, ilist, olist, seq, k, x)}]
           F == [k \in 1 .. N |-> [x \in J[k - 1] |-> Step(x, seq[k])]]
           Loops(f) == f = [k \in 0 .. N |-> IF k = 0 THEN base ELSE Step(f[k - 1], seq[k])]
<1>1. seq \in Seq(Gprs) /\ ToSet(seq) = Lines /\ Distinct(seq)
  BY Sizes, AscendingFacts
<1>2. n = (CHOOSE f : Loops(f))[N]
  BY DEF After
<1>3. {seq[j] : j \in 1 .. N} = Lines
  BY <1>1 DEF ToSet
<1> HIDE DEF seq
<1>4. N \in Nat /\ seq \in Seq(Lines)
  <2>1. N \in Nat /\ DOMAIN seq = 1 .. N /\ \A j \in 1 .. N : seq[j] \in Lines
    BY <1>1, <1>3
  <2>2. seq = [j \in 1 .. N |-> seq[j]]
    BY <1>1
  <2>3. QED
    BY <2>1, <2>2
<1>5. base \in J[0]
  <2>1. 0 \in 0 .. N /\ {seq[j] : j \in 1 .. 0} = {} /\ 1 .. 0 = {}
    BY <1>4
  <2>2. Entered(m, ilist, olist, seq, 0, m) /\ m \in Mgrs
    BY <2>1 DEF Entered, Sound
  <2>3. QED
    BY <2>1, <2>2
<1>6. ASSUME NEW k \in 1 .. N, NEW x \in J[k - 1] PROVE Step(x, seq[k]) \in J[k] /\ F[k][x] = Step(x, seq[k])
  <2>1. k - 1 \in 0 .. N /\ k \in 0 .. N /\ k \in DOMAIN seq /\ seq[k] \in Lines
    BY <1>4
  <2>2. x \in Mgrs /\ Entered(m, ilist, olist, seq, k - 1, x)
    BY <2>1
  <2> DEFINE l == seq[k]
             th == Thread(x, ilist, l, In(l))
             y == Step(x, seq[k])
  <2>3. y = Inserted(th, l)
    BY Zenon DEF ThreadInput, Inserted
  <2>4. l \notin {seq[j] : j \in 1 .. k - 1}
    <3>1. \A j \in 1 .. k - 1 : j \in DOMAIN seq /\ j # k
      BY <1>4
    <3>2. QED
      BY <1>1, <2>1, <3>1 DEF Distinct
  <2>5. /\ Sound(x, ilist, olist) /\ Table(x.bank) /\ \A p \in ToSet(ilist) : l \in LinesOf[p] => Known(x, p, l)
        /\ Spared(x, OnLine(ilist, l), l)
    BY <2>1, <2>2, <2>4 DEF Entered
  <2>6. l \in Lines /\ th = Thread(x, ilist, l, In(l))
    BY <2>1
  <2> HIDE DEF Step, th, y, l
  <2>7. /\ Sound(y, ilist, olist) /\ Table(y.bank) /\ Elsewhere(x, y, ilist, l) /\ InChain(y, ilist, l)
        /\ Keeps(x.bank, l, y.bank) /\ \A i \in Lines : i # l => y.routing.in[i] = x.routing.in[i]
    BY <2>3, <2>5, <2>6, ThreadInputStep
  <2>8. Entered(m, ilist, olist, seq, k, y)
    BY <1>1, <1>4, <2>2, <2>7, EnteredStep DEF l
  <2>9. y \in Mgrs
    BY <2>7 DEF Sound
  <2>10. QED
    BY <2>1, <2>2, <2>8, <2>9 DEF y
<1>7. /\ DOMAIN J = 0 .. N /\ DOMAIN F = 1 .. N
      /\ \A k \in 1 .. N : \A x \in J[k - 1] : F[k][x] \in J[k]
  BY <1>6
<1> HIDE DEF J, F, N, Step, base
<1>8. PICK f : /\ f = [k \in 0 .. N |-> f[k]]
               /\ f[0] = base /\ \A k \in 1 .. N : f[k] = F[k][f[k - 1]]
               /\ \A k \in 0 .. N : f[k] \in J[k]
  BY <1>4, <1>5, <1>7, Walk
<1>9. Loops(f)
  <2> DEFINE G(k) == IF k = 0 THEN base ELSE Step(f[k - 1], seq[k])
  <2>1. ASSUME NEW k \in 0 .. N PROVE f[k] = G(k)
    <3>1. CASE k = 0
      BY <1>8, <3>1
    <3>2. CASE k # 0
      <4>1. k \in 1 .. N /\ k - 1 \in 0 .. N
        BY <1>4, <3>2
      <4>2. f[k - 1] \in J[k - 1] /\ f[k] = F[k][f[k - 1]]
        BY <1>8, <4>1
      <4>3. QED
        BY <1>6, <3>2, <4>1, <4>2
    <3>3. QED
      BY <3>1, <3>2
  <2> HIDE DEF G
  <2>2. f = [k \in 0 .. N |-> G(k)]
    BY <1>8, <2>1
  <2>3. QED
    BY <2>2 DEF G
<1> DEFINE g == CHOOSE h : Loops(h)
<1>10. Loops(g)
  BY <1>9
<1>11. \A k \in 0 .. N : g[k] \in J[k]
  <2> HIDE DEF g
  <2>1. g[0] = base
    BY <1>4, <1>10
  <2>2. ASSUME NEW k \in 1 .. N, g[k - 1] \in J[k - 1] PROVE g[k] \in J[k]
    <3>1. g[k] = Step(g[k - 1], seq[k])
      <4>1. k \in 0 .. N /\ k # 0
        BY <1>4
      <4>2. QED
        BY <1>10, <4>1
    <3>2. QED
      BY <1>6, <2>2, <3>1
  <2>3. g[0] \in J[0]
    BY <1>5, <2>1
  <2>4. QED
    BY <1>4, <2>2, <2>3, AlongWalk
<1>12. n \in J[N]
  BY <1>2, <1>4, <1>11
<1>13. Entered(m, ilist, olist, seq, N, n)
  BY <1>4, <1>12 DEF J
<1>14. ASSUME NEW l \in Lines PROVE InChain(n, ilist, l)
  <2>1. PICK j \in 1 .. N : l = seq[j]
    BY <1>3
  <2>2. QED
    BY <1>13, <2>1 DEF Entered
<1>15. QED
  BY <1>13, <1>14 DEF Entered

-----------------------------------------------------------------------------
(* The routing code.                                                       *)

\* In n there may be more about output line o than in m, and there is nothing else.
Along(m, o, n) ==
    /\ n \in Mgrs /\ Counted(n) /\ Table(n.bank) /\ n.prog = m.prog /\ n.routing.in = m.routing.in
    /\ \A p \in Patches : \A g \in m.prog[p].used : n.bank.line[g] = m.bank.line[g]
    /\ \A g \in m.routing.used : g \in n.routing.used /\ n.bank.line[g] = m.bank.line[g]
    /\ \A g \in n.routing.used : g \notin m.routing.used => n.bank.line[g] = o
    /\ \A i \in Lines : i # o => n.routing.out[i] = m.routing.out[i]

\* There is no gpr for the sum of output line o yet: the routing code has no gpr of the
\* line but the one the input line with the same number stands at.
Fresh(m, o) ==
    /\ m.routing.out[o] = None
    /\ \A g \in m.routing.used : m.bank.line[g] = o => g \in GprsOf(m.routing.in[o])

\* There is.
Summed(m, o) == \E g \in m.routing.used : m.routing.out[o] = Gpr(g) /\ m.bank.line[g] = o

LEMMA AlongSame ==
    ASSUME NEW m \in Mgrs, Counted(m), Table(m.bank), NEW o
    PROVE  Along(m, o, m)
  BY DEF Along

LEMMA AlongOn ==
    ASSUME NEW m, NEW o, NEW n, NEW x, Along(m, o, n), Along(n, o, x)
    PROVE  Along(m, o, x)
<1>1. x \in Mgrs /\ Counted(x) /\ Table(x.bank) /\ x.prog = m.prog /\ x.routing.in = m.routing.in
  BY DEF Along
<1>2. \A p \in Patches : \A g \in m.prog[p].used : x.bank.line[g] = m.bank.line[g]
  BY DEF Along
<1>3. \A g \in m.routing.used : g \in x.routing.used /\ x.bank.line[g] = m.bank.line[g]
  BY DEF Along
<1>4. \A g \in x.routing.used : g \notin m.routing.used => x.bank.line[g] = o
  BY DEF Along
<1>5. \A i \in Lines : i # o => x.routing.out[i] = m.routing.out[i]
  BY DEF Along
<1>6. QED
  BY <1>1, <1>2, <1>3, <1>4, <1>5 DEF Along

LEMMA AlongKeeps ==
    ASSUME NEW m, NEW o, NEW n, Along(m, o, n)
    PROVE  \A i \in Lines : i # o => /\ Fresh(m, i) => Fresh(n, i)
                                     /\ Summed(m, i) => Summed(n, i)
<1>1. ASSUME NEW i \in Lines, i # o, Fresh(m, i) PROVE Fresh(n, i)
  BY <1>1 DEF Fresh, Along
<1>2. ASSUME NEW i \in Lines, i # o, Summed(m, i) PROVE Summed(n, i)
  BY <1>2 DEF Summed, Along
<1>3. QED
  BY <1>1, <1>2

\* n is m but for the gprs of the routing code, which f has.
Held(m, f, n) ==
    /\ n \in Mgrs /\ Counted(n) /\ Table(n.bank) /\ n.bank = f.b /\ n.prog = m.prog
    /\ n.routing \in Routings
    /\ n.routing.used = f.u /\ n.routing.in = m.routing.in /\ n.routing.out = m.routing.out
    /\ n.routing.code = m.routing.code
    /\ \A p \in Patches : \A g \in m.prog[p].used : n.bank.line[g] = m.bank.line[g]
    /\ \A g \in m.routing.used \cap f.u : n.bank.line[g] = m.bank.line[g]

LEMMA HoldingIs ==
    ASSUME NEW m \in Mgrs, NEW f, Moves(m.bank, m.routing.used, f.b, f.u), Counted(m)
    PROVE  Held(m, f, Holding(m, f))
<1> DEFINE n == Holding(m, f)
<1>1. /\ m = [bank |-> m.bank, prog |-> m.prog, routing |-> m.routing]
      /\ m.routing = [used |-> m.routing.used, in |-> m.routing.in, out |-> m.routing.out, code |-> m.routing.code]
      /\ m.routing \in Routings
  BY MgrFacts, RoutingFacts
<1>2. n = [m EXCEPT !.bank = f.b, !.routing.used = f.u]
  BY DEF Holding
<1> HIDE DEF n
<1>3. /\ n.bank = f.b /\ n.prog = m.prog /\ n = [bank |-> n.bank, prog |-> n.prog, routing |-> n.routing]
      /\ n.routing = [used |-> f.u, in |-> m.routing.in, out |-> m.routing.out, code |-> m.routing.code]
  BY <1>1, <1>2
<1>4. n.routing \in Routings
  <2>1. f.u \in SUBSET Gprs
    BY DEF Moves
  <2>2. QED
    BY <1>1, <1>3, <2>1, RoutingFacts DEF Routings
<1>5. Moves(m.bank, m.routing.used, n.bank, n.routing.used)
  BY <1>3
<1>6. /\ n \in Mgrs /\ Counted(n) /\ Table(n.bank)
      /\ \A q \in Patches : \A g \in m.prog[q].used : n.bank.line[g] = m.bank.line[g]
      /\ \A g \in m.routing.used \cap n.routing.used : n.bank.line[g] = m.bank.line[g]
  BY <1>3, <1>4, <1>5, Rerouted
<1>7. n.routing.used = f.u /\ n.routing.in = m.routing.in /\ n.routing.out = m.routing.out
      /\ n.routing.code = m.routing.code
  BY <1>3
<1>8. Held(m, f, n)
  BY <1>3, <1>4, <1>6, <1>7 DEF Held
<1>9. QED
  BY <1>8 DEF n

LEMMA ReleaseIs ==
    ASSUME NEW m \in Mgrs, Counted(m), Table(m.bank)
    PROVE  LET n == Release(m)
           IN /\ n \in Mgrs /\ Counted(n) /\ Table(n.bank) /\ n.prog = m.prog
              /\ n.routing.used = {} /\ n.routing.in = m.routing.in
              /\ \A p \in Patches : \A g \in m.prog[p].used : n.bank.line[g] = m.bank.line[g]
<1> DEFINE f == FreeGprs(m.bank, m.routing.used, Gprs)
<1>1. m.bank \in Banks /\ m.routing.used \in SUBSET Gprs
  BY MgrFacts, RoutingFacts
<1>2. \A g \in m.routing.used : m.bank.usage[g] > 0
  BY InUse
<1>3. Moves(m.bank, m.routing.used, f.b, f.u) /\ f.u = {}
  <2> DEFINE b == m.bank
             u == m.routing.used
             S == Gprs
  <2>1. b \in Banks /\ Table(b) /\ u \in SUBSET Gprs /\ (\A g \in u : b.usage[g] > 0) /\ f = FreeGprs(b, u, S)
    BY <1>1, <1>2
  <2>2. u \ S = {}
    BY <1>1
  <2> HIDE DEF b, u, S, f
  <2>3. Moves(b, u, f.b, f.u) /\ f.u = u \ S
    BY <2>1, FreeMoves
  <2>4. QED
    BY <2>2, <2>3 DEF b, u
<1>4. Release(m) = Holding(m, f)
  BY DEF Release
<1> HIDE DEF f
<1>5. Held(m, f, Release(m))
  BY <1>3, <1>4, HoldingIs
<1>6. QED
  BY <1>3, <1>5 DEF Held

LEMMA TakeInputsIs ==
    ASSUME NEW m \in Mgrs, Counted(m), Table(m.bank), m.routing.used = {},
           \A l \in Lines : \A g \in GprsOf(m.routing.in[l]) : g \in Gprs /\ m.bank.usage[g] > 0 /\ m.bank.line[g] = l
    PROVE  LET n == TakeInputs(m)
           IN /\ n \in Mgrs /\ Counted(n) /\ Table(n.bank) /\ n.prog = m.prog /\ n.routing.in = m.routing.in
              /\ \A p \in Patches : \A g \in m.prog[p].used : n.bank.line[g] = m.bank.line[g]
              /\ \A o \in Lines : Fresh(n, o)
<1> DEFINE S == UNION {GprsOf(m.routing.in[l]) : l \in Lines}
           f == GetGprs(m.bank, m.routing.used, S)
           x == Holding(m, f)
           n == TakeInputs(m)
<1>1. m.bank \in Banks /\ m.routing.used \in SUBSET Gprs
  BY MgrFacts, RoutingFacts
<1>2. S \in SUBSET Gprs /\ \A g \in S : m.bank.usage[g] > 0
  OBVIOUS
<1>3. S = {} \cup S
  OBVIOUS
<1>4. n = [x EXCEPT !.routing.out = [l \in Lines |-> None], !.routing.code = <<>>]
  BY DEF TakeInputs
<1>5. \A l \in Lines : \A g \in GprsOf(m.routing.in[l]) : g \in S
  OBVIOUS
<1>6. \A g \in S : \E l \in Lines : g \in GprsOf(m.routing.in[l])
  OBVIOUS
<1> HIDE DEF S
<1>7. Moves(m.bank, m.routing.used, f.b, f.u) /\ f.u = S
  <2> DEFINE b == m.bank
             u == m.routing.used
  <2>1. b \in Banks /\ Table(b) /\ u \in SUBSET Gprs /\ (\A g \in S : b.usage[g] > 0) /\ f = GetGprs(b, u, S)
    BY <1>1, <1>2
  <2> HIDE DEF b, u, f
  <2>2. Moves(b, u, f.b, f.u) /\ f.u = u \cup S
    BY <1>2, <2>1, GetMoves
  <2>3. QED
    BY <1>3, <2>2 DEF b, u
<1> HIDE DEF f
<1>8. /\ x \in Mgrs /\ Counted(x) /\ Table(x.bank) /\ x.bank = f.b /\ x.prog = m.prog
      /\ x.routing \in Routings /\ x.routing.used = S /\ x.routing.in = m.routing.in
      /\ \A p \in Patches : \A g \in m.prog[p].used : x.bank.line[g] = m.bank.line[g]
  <2>1. Held(m, f, x)
    BY <1>7, HoldingIs
  <2>2. QED
    BY <1>7, <2>1 DEF Held
<1> HIDE DEF x, n
<1>9. /\ n.bank = x.bank /\ n.prog = x.prog /\ n = [bank |-> n.bank, prog |-> n.prog, routing |-> n.routing]
      /\ n.routing = [used |-> S, in |-> m.routing.in, out |-> [l \in Lines |-> None], code |-> <<>>]
  <2>1. /\ x = [bank |-> x.bank, prog |-> x.prog, routing |-> x.routing]
        /\ x.routing = [used |-> x.routing.used, in |-> x.routing.in, out |-> x.routing.out, code |-> x.routing.code]
    BY <1>8, MgrFacts, RoutingFacts
  <2>2. QED
    BY <1>4, <1>8, <2>1
<1>10. n.routing \in Routings
  <2> DEFINE none == [l \in Lines |-> None]
  <2>1. none \in [Lines -> Operands] /\ <<>> \in Seq(Ops)
    BY OperandTypes
  <2>2. m.routing.in \in [Lines -> Operands]
    BY MgrFacts, RoutingFacts
  <2> HIDE DEF none
  <2>3. n.routing = [used |-> S, in |-> m.routing.in, out |-> none, code |-> <<>>]
    BY <1>9 DEF none
  <2>4. QED
    BY <1>2, <2>1, <2>2, <2>3 DEF Routings
<1>11. n \in Mgrs
  BY <1>8, <1>9, <1>10, MgrFacts DEF Mgrs
<1>12. Counted(n) /\ n.routing.used = S /\ n.routing.in = m.routing.in
  <2>1. n.routing.used = S /\ n.routing.in = m.routing.in
    BY <1>9
  <2>2. n.bank = x.bank /\ n.prog = x.prog /\ n.routing.used = x.routing.used /\ Counted(x)
    BY <1>8, <1>9, <2>1
  <2>3. QED
    BY <2>1, <2>2 DEF Counted
<1>13. \A l \in Lines : \A g \in GprsOf(m.routing.in[l]) : n.bank.line[g] = l
  <2>1. ASSUME NEW l \in Lines, NEW g \in GprsOf(m.routing.in[l]) PROVE n.bank.line[g] = l
    <3>1. g \in Gprs /\ m.bank.usage[g] > 0 /\ m.bank.line[g] = l /\ g \in S
      BY <1>5
    <3>2. x.bank.usage[g] = m.bank.usage[g] + 1
      BY <1>7, <1>8, <3>1 DEF Moves
    <3>3. x.bank.usage[g] > 0
      BY <1>1, <3>1, <3>2, BankFacts
    <3>4. x.bank.line[g] = m.bank.line[g]
      BY <1>7, <1>8, <3>1, <3>3 DEF Moves
    <3>5. QED
      BY <1>9, <3>1, <3>4
  <2>2. QED
    BY <2>1
<1>14. ASSUME NEW o \in Lines PROVE Fresh(n, o)
  <2>1. n.routing.out[o] = None
    BY <1>9
  <2>2. ASSUME NEW g \in S, n.bank.line[g] = o PROVE g \in GprsOf(n.routing.in[o])
    <3>1. PICK l \in Lines : g \in GprsOf(m.routing.in[l])
      BY <1>6
    <3>2. QED
      BY <1>12, <1>13, <2>2, <3>1
  <2>3. QED
    BY <1>12, <2>1, <2>2 DEF Fresh
<1>15. QED
  BY <1>8, <1>9, <1>11, <1>12, <1>14 DEF n

\* At most one of the two IO gprs of a line that has no sum yet is used.
LEMMA FreshSlot ==
    ASSUME NEW m \in Mgrs, Counted(m), Table(m.bank), NEW o \in Lines, Fresh(m, o), m.routing.in[o] \in Operands
    PROVE  m.bank.io[o][1] \notin m.routing.used \/ m.bank.io[o][2] \notin m.routing.used
<1> SUFFICES ASSUME m.bank.io[o][1] \in m.routing.used, m.bank.io[o][2] \in m.routing.used PROVE FALSE
  OBVIOUS
<1> DEFINE g == m.bank.io[o][1]
           h == m.bank.io[o][2]
<1>1. m.routing.used \in SUBSET Gprs /\ -1 \notin Gprs
  BY MgrFacts, RoutingFacts, Sizes
<1>2. g # -1 /\ h # -1
  BY <1>1
<1>3. m.bank.line[g] = o /\ m.bank.line[h] = o /\ g # h
  BY <1>2 DEF Table
<1>4. g \in GprsOf(m.routing.in[o]) /\ h \in GprsOf(m.routing.in[o])
  BY <1>3 DEF Fresh
<1>5. QED
  BY <1>3, <1>4 DEF GprsOf

LEMMA TakeOutputIs ==
    ASSUME NEW m \in Mgrs, Counted(m), Table(m.bank), NEW o \in Lines, Fresh(m, o) \/ Summed(m, o)
    PROVE  Along(m, o, TakeOutput(m, o)) /\ Summed(TakeOutput(m, o), o)
<1>1. CASE m.routing.out[o] # None
  <2>1. TakeOutput(m, o) = m
    BY <1>1 DEF TakeOutput
  <2>2. Summed(m, o)
    BY <1>1 DEF Fresh
  <2>3. QED
    BY <2>1, <2>2, AlongSame
<1>2. CASE m.routing.out[o] = None
  <2> DEFINE f == GetIoGpr(m.bank, o, m.routing.used)
             x == Holding(m, f)
             n == TakeOutput(m, o)
  <2>1. n = [x EXCEPT !.routing.out[o] = Gpr(f.g)]
    BY <1>2 DEF TakeOutput
  <2>2. Fresh(m, o)
    BY <1>2, OperandFacts DEF Summed
  <2>3. /\ m.bank \in Banks /\ m.routing \in Routings /\ m.routing.used \in SUBSET Gprs
        /\ m.routing.in[o] \in Operands /\ m.routing.out \in [Lines -> Operands]
    BY MgrFacts, RoutingFacts
  <2>4. \A g \in m.routing.used : m.bank.usage[g] > 0
    BY InUse
  <2>5. m.bank.io[o][1] \notin m.routing.used \/ m.bank.io[o][2] \notin m.routing.used
    BY <2>2, <2>3, FreshSlot
  <2>6. /\ Moves(m.bank, m.routing.used, f.b, f.u) /\ f.u = m.routing.used \cup {f.g} /\ f.g \in Gprs
        /\ f.g \notin m.routing.used /\ f.b.line[f.g] = o /\ \A g \in m.routing.used : f.b.line[g] = m.bank.line[g]
    <3> DEFINE b == m.bank
               u == m.routing.used
    <3>1. /\ b \in Banks /\ Table(b) /\ u \in SUBSET Gprs /\ (\A g \in u : b.usage[g] > 0)
          /\ (b.io[o][1] \notin u \/ b.io[o][2] \notin u) /\ f = GetIoGpr(b, o, u)
      BY <2>3, <2>4, <2>5
    <3> HIDE DEF b, u, f
    <3>2. /\ Moves(b, u, f.b, f.u) /\ f.u = u \cup {f.g} /\ f.g \in Gprs \ u
          /\ f.b.line[f.g] = o /\ \A g \in u : f.b.line[g] = b.line[g]
      BY <3>1, IoMoves
    <3>3. QED
      BY <3>2 DEF b, u
  <2> HIDE DEF f
  <2>7. Held(m, f, x)
    BY <2>6, HoldingIs
  <2> HIDE DEF x, n
  <2>8. x = [bank |-> x.bank, prog |-> x.prog, routing |-> x.routing] /\ x.routing \in Routings /\ x \in Mgrs
    BY <2>7, MgrFacts DEF Held
  <2>9. /\ n.bank = x.bank /\ n.prog = x.prog /\ n = [bank |-> n.bank, prog |-> n.prog, routing |-> n.routing]
        /\ n.routing = [used |-> x.routing.used, in |-> x.routing.in, out |-> [x.routing.out EXCEPT ![o] = Gpr(f.g)],
                        code |-> x.routing.code]
    <3>1. x.routing = [used |-> x.routing.used, in |-> x.routing.in, out |-> x.routing.out, code |-> x.routing.code]
      BY <2>8, RoutingFacts
    <3>2. QED
      BY <2>1, <2>8, <3>1
  <2>10. /\ n.routing.used = x.routing.used /\ n.routing.in = x.routing.in
         /\ n.routing.out[o] = Gpr(f.g) /\ \A i \in Lines : i # o => n.routing.out[i] = x.routing.out[i]
    BY <2>8, <2>9, RoutingFacts
  <2>11. n \in Mgrs
    <3> DEFINE out == [x.routing.out EXCEPT ![o] = Gpr(f.g)]
    <3>1. out \in [Lines -> Operands]
      <4>1. Gpr(f.g) \in Operands /\ x.routing.out \in [Lines -> Operands]
        BY <2>6, <2>8, OperandTypes, RoutingFacts
      <4>2. QED
        BY <4>1
    <3> HIDE DEF out
    <3>2. n.routing \in Routings
      BY <2>8, <2>9, <3>1, RoutingFacts DEF Routings, out
    <3>3. QED
      BY <2>8, <2>9, <3>2, MgrFacts DEF Mgrs
  <2>12. Counted(n) /\ Table(n.bank)
    <3>1. Counted(x) /\ Table(x.bank) /\ n.bank = x.bank /\ n.prog = x.prog /\ n.routing.used = x.routing.used
      BY <2>7, <2>9, <2>10 DEF Held
    <3>2. QED
      BY <3>1 DEF Counted
  <2>13. /\ n.prog = m.prog /\ n.routing.in = m.routing.in /\ n.routing.used = f.u /\ n.bank = f.b
         /\ \A p \in Patches : \A g \in m.prog[p].used : n.bank.line[g] = m.bank.line[g]
         /\ \A i \in Lines : i # o => n.routing.out[i] = m.routing.out[i]
    BY <2>7, <2>9, <2>10 DEF Held
  <2>14. /\ \A g \in m.routing.used : g \in n.routing.used /\ n.bank.line[g] = m.bank.line[g]
         /\ \A g \in n.routing.used : g \notin m.routing.used => n.bank.line[g] = o
    BY <2>6, <2>13
  <2>15. Along(m, o, n)
    BY <2>11, <2>12, <2>13, <2>14 DEF Along
  <2>16. Summed(n, o)
    BY <2>6, <2>10, <2>13 DEF Summed
  <2>17. QED
    BY <2>15, <2>16 DEF n
<1>3. QED
  BY <1>1, <1>2

\* Only the code of the routing, and what it writes for the output, is different.
LEMMA CodeIs ==
    ASSUME NEW m \in Mgrs, Counted(m), Table(m.bank), NEW o,
           NEW n, n = [bank |-> m.bank, prog |-> m.prog, routing |-> n.routing],
           n.routing = [used |-> m.routing.used, in |-> m.routing.in, out |-> n.routing.out, code |-> n.routing.code],
           n.routing.out \in [Lines -> Operands], n.routing.code \in Seq(Ops),
           \A i \in Lines : i # o => n.routing.out[i] = m.routing.out[i]
    PROVE  Along(m, o, n)
<1>1. /\ n.bank = m.bank /\ n.prog = m.prog /\ n.routing.used = m.routing.used /\ n.routing.in = m.routing.in
  OBVIOUS
<1>2. n.routing \in Routings
  BY MgrFacts, RoutingFacts DEF Routings
<1>3. n \in Mgrs
  BY <1>2, MgrFacts DEF Mgrs
<1>4. Counted(n) /\ Table(n.bank)
  BY <1>1 DEF Counted
<1>5. QED
  BY <1>1, <1>3, <1>4 DEF Along

LEMMA EmitIs ==
    ASSUME NEW m \in Mgrs, Counted(m), Table(m.bank), NEW o, NEW dst \in Operands, NEW args \in Seq(Operands)
    PROVE  /\ Along(m, o, Emit(m, dst, args)) /\ Emit(m, dst, args).routing.out = m.routing.out
           /\ Fresh(m, o) => Fresh(Emit(m, dst, args), o)
           /\ Summed(m, o) => Summed(Emit(m, dst, args), o)
<1> DEFINE a == [k \in 1 .. 3 |-> IF k <= Len(args) THEN args[k] ELSE Zero]
           op == [dst |-> dst, args |-> a]
           n == Emit(m, dst, args)
<1>1. op \in Ops
  <2>1. \A k \in 1 .. 3 : a[k] \in Operands
    <3>1. Len(args) \in Nat /\ \A k \in 1 .. Len(args) : args[k] \in Operands
      OBVIOUS
    <3>2. QED
      BY <3>1, OperandTypes
  <2>2. a \in [1 .. 3 -> Operands]
    BY <2>1
  <2> HIDE DEF a
  <2>3. QED
    BY <2>2 DEF Ops
<1>2. n = [m EXCEPT !.routing.code = Append(@, op)]
  BY DEF Emit
<1> HIDE DEF op, n
<1>3. m = [bank |-> m.bank, prog |-> m.prog, routing |-> m.routing] /\ m.routing \in Routings
  BY MgrFacts
<1>4. /\ n = [bank |-> m.bank, prog |-> m.prog, routing |-> n.routing]
      /\ n.routing = [used |-> m.routing.used, in |-> m.routing.in, out |-> m.routing.out, code |-> Append(m.routing.code, op)]
  <2>1. m.routing = [used |-> m.routing.used, in |-> m.routing.in, out |-> m.routing.out, code |-> m.routing.code]
    BY <1>3, RoutingFacts
  <2>2. QED
    BY <1>2, <1>3, <2>1
<1>5. /\ n.routing.code = Append(m.routing.code, op) /\ n.routing.out = m.routing.out
      /\ n.bank = m.bank /\ n.routing.used = m.routing.used /\ n.routing.in = m.routing.in
  BY <1>4
<1>6. n.routing.code \in Seq(Ops) /\ n.routing.out \in [Lines -> Operands]
  BY <1>1, <1>3, <1>5, RoutingFacts
<1>7. Along(m, o, n)
  <2>1. n.routing = [used |-> m.routing.used, in |-> m.routing.in, out |-> n.routing.out, code |-> n.routing.code]
    BY <1>4, <1>5
  <2>2. QED
    BY <1>4, <1>5, <1>6, <2>1, CodeIs
<1>8. (Fresh(m, o) => Fresh(n, o)) /\ (Summed(m, o) => Summed(n, o))
  BY <1>5 DEF Fresh, Summed
<1>9. QED
  BY <1>5, <1>7, <1>8 DEF n

\* A state of the loop over the routes of an output.
Sums(m, o, c) ==
    /\ c = [m |-> c.m, args |-> c.args] /\ c.args \in Seq(Operands)
    /\ Along(m, o, c.m) /\ (Fresh(c.m, o) \/ Summed(c.m, o))

LEMMA FlushIs ==
    ASSUME NEW m, NEW o \in Lines, NEW c, Sums(m, o, c)
    PROVE  Sums(m, o, Flush(c, o))
<1> DEFINE x == TakeOutput(c.m, o)
           e == Emit(x, x.routing.out[o], c.args)
           d == Flush(c, o)
<1>1. c.m \in Mgrs /\ Counted(c.m) /\ Table(c.m.bank) /\ c.args \in Seq(Operands)
  BY DEF Sums, Along
<1>2. Along(c.m, o, x) /\ Summed(x, o)
  <2>1. Fresh(c.m, o) \/ Summed(c.m, o)
    BY DEF Sums
  <2>2. QED
    BY <1>1, <2>1, TakeOutputIs
<1>3. d = [m |-> e, args |-> <<x.routing.out[o]>>]
  BY DEF Flush
<1> HIDE DEF x, d
<1>4. x \in Mgrs /\ Counted(x) /\ Table(x.bank)
  BY <1>2 DEF Along
<1>5. x.routing.out[o] \in Operands
  BY <1>4, MgrFacts, RoutingFacts
<1>6. Along(x, o, e) /\ Summed(e, o)
  BY <1>1, <1>2, <1>4, <1>5, EmitIs
<1> HIDE DEF e
<1>7. Along(m, o, e)
  <2>1. Along(m, o, c.m)
    BY DEF Sums
  <2>2. QED
    BY <1>2, <1>6, <2>1, AlongOn
<1>8. d.m = e /\ d.args = <<x.routing.out[o]>> /\ d = [m |-> d.m, args |-> d.args]
  BY <1>3
<1>9. d.args \in Seq(Operands)
  BY <1>5, <1>8
<1>10. Sums(m, o, d)
  BY <1>6, <1>7, <1>8, <1>9 DEF Sums
<1>11. QED
  BY <1>10 DEF d

LEMMA AddTermIs ==
    ASSUME NEW m, NEW o \in Lines, NEW c, Sums(m, o, c), NEW t, t.from \in Lines
    PROVE  Sums(m, o, AddTerm(c, o, t))
<1> DEFINE r == c.m.routing.in[t.from]
           d == IF Len(c.args) = 3 THEN Flush(c, o) ELSE c
           a == IF ~t.volume THEN Append(d.args, r) ELSE (IF d.args = <<>> THEN <<Zero>> ELSE d.args) \o <<r, Volume>>
           x == AddTerm(c, o, t)
<1>1. Sums(m, o, d)
  BY FlushIs
<1>2. r \in Operands
  BY MgrFacts, RoutingFacts DEF Sums, Along
<1>3. x = [d EXCEPT !.args = a]
  BY DEF AddTerm
<1> HIDE DEF d, r, x
<1>4. a \in Seq(Operands)
  <2>1. d.args \in Seq(Operands) /\ Zero \in Operands /\ Volume \in Operands
    BY <1>1, OperandTypes DEF Sums
  <2>2. <<r, Volume>> \in Seq(Operands) /\ <<Zero>> \in Seq(Operands)
    BY <1>2, <2>1
  <2>3. QED
    BY <1>2, <2>1, <2>2
<1> HIDE DEF a
<1>5. x.m = d.m /\ x.args = a /\ x = [m |-> x.m, args |-> x.args]
  <2>1. d = [m |-> d.m, args |-> d.args]
    BY <1>1 DEF Sums
  <2>2. QED
    BY <1>3, <2>1
<1>6. Sums(m, o, x)
  BY <1>1, <1>4, <1>5 DEF Sums
<1>7. QED
  BY <1>6 DEF x

LEMMA TermsFacts ==
    ASSUME plain \in [Lines -> SUBSET Lines], vol \in [Lines -> SUBSET Lines], NEW o \in Lines
    PROVE  /\ Len(Terms(o)) \in Nat /\ DOMAIN Terms(o) = 1 .. Len(Terms(o))
           /\ \A k \in DOMAIN Terms(o) : Terms(o)[k].from \in Lines
           /\ Fed(o) => Terms(o) # <<>>
<1> DEFINE T == [from : Lines, volume : BOOLEAN]
           a == Ascending(plain[o])
           b == Ascending(vol[o])
           seq == [k \in 1 .. Cardinality(plain[o]) |-> [from |-> a[k], volume |-> FALSE]]
           vols == [k \in 1 .. Cardinality(vol[o]) |-> [from |-> b[k], volume |-> TRUE]]
<1>1. plain[o] \in SUBSET Lines /\ vol[o] \in SUBSET Lines /\ Lines \subseteq Gprs
  BY Sizes
<1>2. ASSUME NEW S \in SUBSET Lines
      PROVE  /\ Cardinality(S) \in Nat /\ (S # {} => Cardinality(S) # 0)
             /\ \A k \in 1 .. Cardinality(S) : Ascending(S)[k] \in Lines
  <2> DEFINE s == Ascending(S)
  <2>1. s \in Seq(Gprs) /\ ToSet(s) = S /\ Distinct(s) /\ Len(s) \in Nat /\ DOMAIN s = 1 .. Len(s)
    BY <1>1, AscendingFacts
  <2> HIDE DEF s
  <2>2. Cardinality(S) = Len(s)
    BY <2>1, DistinctLength
  <2>3. \A k \in 1 .. Len(s) : s[k] \in S
    BY <2>1 DEF ToSet
  <2>4. S # {} => Len(s) # 0
    BY <2>1 DEF ToSet
  <2>5. QED
    BY <2>1, <2>2, <2>3, <2>4 DEF s
<1>3. seq \in Seq(T) /\ Len(seq) = Cardinality(plain[o]) /\ (plain[o] # {} => seq # <<>>)
  <2>1. /\ Cardinality(plain[o]) \in Nat /\ (plain[o] # {} => Cardinality(plain[o]) # 0)
        /\ \A k \in 1 .. Cardinality(plain[o]) : a[k] \in Lines
    BY <1>1, <1>2
  <2> DEFINE n == Cardinality(plain[o])
  <2> HIDE DEF a, n
  <2>2. seq = [k \in 1 .. n |-> [from |-> a[k], volume |-> FALSE]]
    BY DEF n
  <2>3. n \in Nat /\ (plain[o] # {} => n # 0) /\ \A k \in 1 .. n : a[k] \in Lines
    BY <2>1 DEF n
  <2> HIDE DEF seq
  <2>4. seq \in [1 .. n -> T]
    BY <2>2, <2>3
  <2> HIDE DEF T
  <2>5. seq \in Seq(T) /\ Len(seq) = n
    BY <2>3, <2>4
  <2>6. QED
    BY <2>3, <2>5 DEF n
<1>4. vols \in Seq(T) /\ Len(vols) = Cardinality(vol[o]) /\ (vol[o] # {} => vols # <<>>)
  <2>1. /\ Cardinality(vol[o]) \in Nat /\ (vol[o] # {} => Cardinality(vol[o]) # 0)
        /\ \A k \in 1 .. Cardinality(vol[o]) : b[k] \in Lines
    BY <1>1, <1>2
  <2> DEFINE n == Cardinality(vol[o])
  <2> HIDE DEF b, n
  <2>2. vols = [k \in 1 .. n |-> [from |-> b[k], volume |-> TRUE]]
    BY DEF n
  <2>3. n \in Nat /\ (vol[o] # {} => n # 0) /\ \A k \in 1 .. n : b[k] \in Lines
    BY <2>1 DEF n
  <2> HIDE DEF vols
  <2>4. vols \in [1 .. n -> T]
    BY <2>2, <2>3
  <2> HIDE DEF T
  <2>5. vols \in Seq(T) /\ Len(vols) = n
    BY <2>3, <2>4
  <2>6. QED
    BY <2>3, <2>5 DEF n
<1>5. Terms(o) = IF seq = <<>> THEN vols ELSE <<Head(seq)>> \o vols \o Tail(seq)
  BY DEF Terms
<1>6. Fed(o) => plain[o] # {} \/ vol[o] # {}
  BY DEF Fed
<1> HIDE DEF seq, vols, T
<1>7. Terms(o) \in Seq(T) /\ (Fed(o) => Terms(o) # <<>>)
  <2>1. CASE seq = <<>>
    BY <1>3, <1>4, <1>5, <1>6, <2>1
  <2>2. CASE seq # <<>>
    <3>1. Head(seq) \in T /\ Tail(seq) \in Seq(T)
      BY <1>3, <2>2
    <3>2. <<Head(seq)>> \in Seq(T) /\ Len(<<Head(seq)>>) = 1
      BY <3>1
    <3>3. <<Head(seq)>> \o vols \in Seq(T) /\ Len(<<Head(seq)>> \o vols) = 1 + Len(vols) /\ Len(vols) \in Nat
      BY <1>4, <3>2
    <3> DEFINE s == <<Head(seq)>> \o vols
               t == Tail(seq)
    <3>4. s \in Seq(T) /\ t \in Seq(T) /\ Len(s) >= 1
      BY <3>1, <3>3
    <3>5. Terms(o) = s \o t
      BY <1>5, <2>2
    <3> HIDE DEF s, t
    <3>6. s \o t \in Seq(T) /\ Len(s \o t) >= 1
      BY <3>4
    <3>7. QED
      BY <3>5, <3>6
  <2>3. QED
    BY <2>1, <2>2
<1> DEFINE s == Terms(o)
<1>8. s \in Seq(T)
  BY <1>7
<1> HIDE DEF s
<1>9. Len(s) \in Nat /\ DOMAIN s = 1 .. Len(s) /\ \A k \in DOMAIN s : s[k] \in T
  BY <1>8
<1>10. \A x \in T : x.from \in Lines
  BY DEF T
<1>11. QED
  BY <1>7, <1>9, <1>10 DEF s

LEMMA SumUp ==
    ASSUME plain \in [Lines -> SUBSET Lines], vol \in [Lines -> SUBSET Lines],
           NEW m \in Mgrs, Counted(m), Table(m.bank), NEW o \in Lines, Fresh(m, o)
    PROVE  Sums(m, o, After(LAMBDA c, t : AddTerm(c, o, t), [m |-> m, args |-> <<>>], Terms(o)))
<1> DEFINE seq == Terms(o)
           N == Len(seq)
           base == [m |-> m, args |-> <<>>]
           Step(x, t) == AddTerm(x, o, t)
           W == [m : Mgrs, args : Seq(Operands)]
           J == [k \in 0 .. N |-> {x \in W : Sums(m, o, x)}]
           F == [k \in 1 .. N |-> [x \in J[k - 1] |-> Step(x, seq[k])]]
           Loops(f) == f = [k \in 0 .. N |-> IF k = 0 THEN base ELSE Step(f[k - 1], seq[k])]
           n == After(LAMBDA c, t : AddTerm(c, o, t), [m |-> m, args |-> <<>>], Terms(o))
<1>1. n = (CHOOSE f : Loops(f))[N]
  BY DEF After
<1> HIDE DEF n, seq
<1>2. N \in Nat /\ \A k \in 1 .. N : seq[k].from \in Lines
  BY TermsFacts DEF seq
<1>3. \A x : Sums(m, o, x) => x \in W
  <2>1. ASSUME NEW x, Sums(m, o, x) PROVE x \in W
    <3>1. x.m \in Mgrs /\ x.args \in Seq(Operands) /\ x = [m |-> x.m, args |-> x.args]
      BY <2>1 DEF Sums, Along
    <3>2. QED
      BY <3>1
  <2>2. QED
    BY <2>1
<1>4. base \in J[0]
  <2>1. base.m = m /\ base.args = <<>> /\ <<>> \in Seq(Operands) /\ base = [m |-> base.m, args |-> base.args]
    OBVIOUS
  <2>2. Along(m, o, m)
    BY AlongSame
  <2> HIDE DEF base
  <2>3. Sums(m, o, base)
    BY <2>1, <2>2 DEF Sums
  <2>4. QED
    BY <1>2, <1>3, <2>3
<1>5. ASSUME NEW k \in 1 .. N, NEW x \in J[k - 1] PROVE Step(x, seq[k]) \in J[k] /\ F[k][x] = Step(x, seq[k])
  <2>1. k - 1 \in 0 .. N /\ k \in 0 .. N
    BY <1>2
  <2>2. Sums(m, o, x)
    BY <2>1
  <2>3. Sums(m, o, Step(x, seq[k]))
    BY <1>2, <2>2, AddTermIs
  <2> HIDE DEF Step
  <2>4. QED
    BY <1>3, <2>1, <2>3
<1>6. /\ DOMAIN J = 0 .. N /\ DOMAIN F = 1 .. N
      /\ \A k \in 1 .. N : \A x \in J[k - 1] : F[k][x] \in J[k]
  BY <1>5
<1> HIDE DEF J, F, N, Step, base
<1>7. PICK f : /\ f = [k \in 0 .. N |-> f[k]]
               /\ f[0] = base /\ \A k \in 1 .. N : f[k] = F[k][f[k - 1]]
               /\ \A k \in 0 .. N : f[k] \in J[k]
  BY <1>2, <1>4, <1>6, Walk
<1>8. Loops(f)
  <2> DEFINE G(k) == IF k = 0 THEN base ELSE Step(f[k - 1], seq[k])
  <2>1. ASSUME NEW k \in 0 .. N PROVE f[k] = G(k)
    <3>1. CASE k = 0
      BY <1>7, <3>1
    <3>2. CASE k # 0
      <4>1. k \in 1 .. N /\ k - 1 \in 0 .. N
        BY <1>2, <3>2
      <4>2. f[k - 1] \in J[k - 1] /\ f[k] = F[k][f[k - 1]]
        BY <1>7, <4>1
      <4>3. QED
        BY <1>5, <3>2, <4>1, <4>2
    <3>3. QED
      BY <3>1, <3>2
  <2> HIDE DEF G
  <2>2. f = [k \in 0 .. N |-> G(k)]
    BY <1>7, <2>1
  <2>3. QED
    BY <2>2 DEF G
<1> DEFINE g == CHOOSE h : Loops(h)
<1>9. Loops(g)
  BY <1>8
<1>10. \A k \in 0 .. N : g[k] \in J[k]
  <2> HIDE DEF g
  <2>1. g[0] = base
    BY <1>2, <1>9
  <2>2. ASSUME NEW k \in 1 .. N, g[k - 1] \in J[k - 1] PROVE g[k] \in J[k]
    <3>1. g[k] = Step(g[k - 1], seq[k])
      <4>1. k \in 0 .. N /\ k # 0
        BY <1>2
      <4>2. QED
        BY <1>9, <4>1
    <3>2. QED
      BY <1>5, <2>2, <3>1
  <2>3. g[0] \in J[0]
    BY <1>4, <2>1
  <2>4. QED
    BY <1>2, <2>2, <2>3, AlongWalk
<1>11. n \in J[N]
  BY <1>1, <1>2, <1>10
<1>12. Sums(m, o, n)
  BY <1>2, <1>11 DEF J
<1>13. QED
  BY Zenon, <1>12 DEF n

LEMMA RouteOutputIs ==
    ASSUME plain \in [Lines -> SUBSET Lines], vol \in [Lines -> SUBSET Lines],
           NEW m \in Mgrs, Counted(m), Table(m.bank), NEW o \in Lines, Fresh(m, o)
    PROVE  /\ Along(m, o, RouteOutput(m, o))
           /\ HasReader(m, o) /\ Fed(o) => Summed(RouteOutput(m, o), o)
<1>1. CASE Terms(o) = <<>>
  <2>1. RouteOutput(m, o) = m /\ ~Fed(o)
    BY <1>1, TermsFacts DEF RouteOutput
  <2>2. QED
    BY <2>1, AlongSame
<1>2. CASE Terms(o) # <<>>
  <2> DEFINE c == After(LAMBDA d, t : AddTerm(d, o, t), [m |-> m, args |-> <<>>], Terms(o))
             x == IF HasReader(c.m, o) THEN TakeOutput(c.m, o) ELSE [c.m EXCEPT !.routing.out[o] = Out(o)]
             n == Emit(x, x.routing.out[o], c.args)
  <2>1. RouteOutput(m, o) = n
    BY <1>2 DEF RouteOutput
  <2>2. Sums(m, o, c)
    BY Zenon, SumUp
  <2> HIDE DEF c
  <2>3. /\ c.m \in Mgrs /\ Counted(c.m) /\ Table(c.m.bank) /\ c.m.prog = m.prog /\ Along(m, o, c.m)
        /\ c.args \in Seq(Operands)
    BY <2>2 DEF Sums, Along
  <2>4. HasReader(c.m, o) <=> HasReader(m, o)
    BY <2>3 DEF HasReader
  <2>5. Along(c.m, o, x) /\ (HasReader(m, o) => Summed(x, o))
    <3>1. CASE HasReader(c.m, o)
      <4>1. x = TakeOutput(c.m, o)
        BY <3>1
      <4>2. Fresh(c.m, o) \/ Summed(c.m, o)
        BY <2>2 DEF Sums
      <4>3. QED
        BY <2>3, <4>1, <4>2, TakeOutputIs
    <3>2. CASE ~HasReader(c.m, o)
      <4> DEFINE w == c.m
                 out == [w.routing.out EXCEPT ![o] = Out(o)]
      <4>1. x = [w EXCEPT !.routing.out[o] = Out(o)]
        BY <3>2
      <4> HIDE DEF x, w
      <4>2. w \in Mgrs /\ Counted(w) /\ Table(w.bank)
        BY <2>3 DEF w
      <4>3. w = [bank |-> w.bank, prog |-> w.prog, routing |-> w.routing] /\ w.routing \in Routings
        BY <4>2, MgrFacts
      <4>4. /\ w.routing = [used |-> w.routing.used, in |-> w.routing.in, out |-> w.routing.out, code |-> w.routing.code]
            /\ w.routing.out \in [Lines -> Operands] /\ w.routing.code \in Seq(Ops)
        BY <4>3, RoutingFacts
      <4>5. /\ x = [bank |-> w.bank, prog |-> w.prog, routing |-> x.routing]
            /\ x.routing = [used |-> w.routing.used, in |-> w.routing.in, out |-> out, code |-> w.routing.code]
        BY <4>1, <4>3, <4>4
      <4>6. out \in [Lines -> Operands] /\ \A i \in Lines : i # o => out[i] = w.routing.out[i]
        BY <4>4, OperandTypes
      <4> HIDE DEF out
      <4>7. x.routing.out = out /\ x.routing.code = w.routing.code
        BY <4>5
      <4>8. x.routing = [used |-> w.routing.used, in |-> w.routing.in, out |-> x.routing.out, code |-> x.routing.code]
        BY <4>5, <4>7
      <4>9. Along(w, o, x)
        BY <4>2, <4>4, <4>5, <4>6, <4>7, <4>8, CodeIs
      <4>10. QED
        BY <2>4, <3>2, <4>9 DEF w
    <3>3. QED
      BY <3>1, <3>2
  <2> HIDE DEF x
  <2>6. x \in Mgrs /\ Counted(x) /\ Table(x.bank)
    BY <2>5 DEF Along
  <2>7. x.routing.out[o] \in Operands
    BY <2>6, MgrFacts, RoutingFacts
  <2>8. Along(x, o, n) /\ (Summed(x, o) => Summed(n, o))
    BY <2>3, <2>6, <2>7, EmitIs
  <2> HIDE DEF n
  <2>9. Along(m, o, n)
    <3>1. Along(m, o, x)
      BY <2>3, <2>5, AlongOn
    <3>2. QED
      BY <2>8, <3>1, AlongOn
  <2>10. QED
    BY <2>1, <2>5, <2>8, <2>9
<1>3. QED
  BY <1>1, <1>2

\* n is m but for what the routing code uses and does.
Carried(m, n) ==
    /\ n \in Mgrs /\ Counted(n) /\ Table(n.bank) /\ n.prog = m.prog /\ n.routing.in = m.routing.in
    /\ \A p \in Patches : \A g \in m.prog[p].used : n.bank.line[g] = m.bank.line[g]

\* The manager x after the first k outputs, seq, have been routed.
Sent(m, seq, k, x) ==
    /\ Carried(m, x)
    /\ \A o \in Lines : o \notin {seq[j] : j \in 1 .. k} => Fresh(x, o)
    /\ \A j \in 1 .. k : HasReader(m, seq[j]) /\ Fed(seq[j]) => Summed(x, seq[j])

LEMMA SentStep ==
    ASSUME plain \in [Lines -> SUBSET Lines], vol \in [Lines -> SUBSET Lines],
           NEW m, NEW seq \in Seq(Lines), Distinct(seq), NEW k \in 1 .. Len(seq), NEW x, Sent(m, seq, k - 1, x)
    PROVE  Sent(m, seq, k, RouteOutput(x, seq[k]))
<1> DEFINE o == seq[k]
           n == RouteOutput(x, o)
<1>1. Len(seq) \in Nat /\ DOMAIN seq = 1 .. Len(seq) /\ o \in Lines
  OBVIOUS
<1>2. o \notin {seq[j] : j \in 1 .. k - 1}
  <2>1. \A j \in 1 .. k - 1 : j \in DOMAIN seq /\ k \in DOMAIN seq /\ j # k
    BY <1>1
  <2>2. QED
    BY <2>1 DEF Distinct
<1>3. Fresh(x, o) /\ Carried(m, x)
  BY <1>1, <1>2 DEF Sent
<1>4. x \in Mgrs /\ Counted(x) /\ Table(x.bank) /\ x.prog = m.prog
  BY <1>3 DEF Carried
<1> HIDE DEF o
<1>5. Along(x, o, n) /\ (HasReader(x, o) /\ Fed(o) => Summed(n, o))
  BY <1>1, <1>3, <1>4, RouteOutputIs
<1>6. \A i \in Lines : i # o => (Fresh(x, i) => Fresh(n, i)) /\ (Summed(x, i) => Summed(n, i))
  BY <1>5, AlongKeeps
<1> HIDE DEF n
<1>7. Carried(m, n)
  BY <1>3, <1>5 DEF Carried, Along
<1>8. HasReader(x, o) <=> HasReader(m, o)
  BY <1>4 DEF HasReader
<1>9. ASSUME NEW i \in Lines, i \notin {seq[j] : j \in 1 .. k} PROVE Fresh(n, i)
  <2>1. i # o /\ i \notin {seq[j] : j \in 1 .. k - 1}
    BY <1>1, <1>9 DEF o
  <2>2. QED
    BY <1>6, <2>1 DEF Sent
<1>10. ASSUME NEW j \in 1 .. k, HasReader(m, seq[j]) /\ Fed(seq[j]) PROVE Summed(n, seq[j])
  <2>1. CASE j = k
    BY <1>5, <1>8, <1>10, <2>1 DEF o
  <2>2. CASE j # k
    <3>1. j \in 1 .. k - 1 /\ j \in DOMAIN seq
      BY <1>1, <2>2
    <3>2. seq[j] # o /\ seq[j] \in Lines
      BY <1>1, <1>2, <3>1
    <3>3. QED
      BY <1>6, <1>10, <3>1, <3>2 DEF Sent
  <2>3. QED
    BY <2>1, <2>2
<1>11. Sent(m, seq, k, n)
  BY <1>7, <1>9, <1>10 DEF Sent
<1>12. QED
  BY <1>11 DEF n, o

LEMMA SendAll ==
    ASSUME plain \in [Lines -> SUBSET Lines], vol \in [Lines -> SUBSET Lines],
           NEW m \in Mgrs, Counted(m), Table(m.bank), \A o \in Lines : Fresh(m, o),
           NEW n, n = After(RouteOutput, m, Ascending(Lines))
    PROVE  Carried(m, n) /\ \A o \in Lines : HasReader(m, o) /\ Fed(o) => Summed(n, o)
<1> DEFINE seq == Ascending(Lines)
           N == Len(seq)
           base == m
           Step(x, l) == RouteOutput(x, l)
           W == Mgrs
           J == [k \in 0 .. N |-> {x \in W : Sent(m, seq, k, x)}]
           F == [k \in 1 .. N |-> [x \in J[k - 1] |-> Step(x, seq[k])]]
           Loops(f) == f = [k \in 0 .. N |-> IF k = 0 THEN base ELSE Step(f[k - 1], seq[k])]
<1>1. seq \in Seq(Gprs) /\ ToSet(seq) = Lines /\ Distinct(seq)
  BY Sizes, AscendingFacts
<1>2. n = (CHOOSE f : Loops(f))[N]
  BY DEF After
<1>3. {seq[j] : j \in 1 .. N} = Lines
  BY <1>1 DEF ToSet
<1> HIDE DEF seq
<1>4. N \in Nat /\ seq \in Seq(Lines)
  <2>1. N \in Nat /\ DOMAIN seq = 1 .. N /\ \A j \in 1 .. N : seq[j] \in Lines
    BY <1>1, <1>3
  <2>2. seq = [j \in 1 .. N |-> seq[j]]
    BY <1>1
  <2>3. QED
    BY <2>1, <2>2
<1>5. base \in J[0]
  <2>1. 0 \in 0 .. N /\ 1 .. 0 = {}
    BY <1>4
  <2>2. Sent(m, seq, 0, m)
    BY <2>1 DEF Sent, Carried
  <2>3. QED
    BY <2>1, <2>2
<1>6. ASSUME NEW k \in 1 .. N, NEW x \in J[k - 1] PROVE Step(x, seq[k]) \in J[k] /\ F[k][x] = Step(x, seq[k])
  <2>1. k - 1 \in 0 .. N /\ k \in 0 .. N
    BY <1>4
  <2>2. Sent(m, seq, k - 1, x)
    BY <2>1
  <2>3. Sent(m, seq, k, Step(x, seq[k]))
    BY <1>1, <1>4, <2>2, SentStep
  <2> HIDE DEF Step
  <2>4. Step(x, seq[k]) \in Mgrs
    BY <2>3 DEF Sent, Carried
  <2>5. QED
    BY <2>1, <2>3, <2>4
<1>7. /\ DOMAIN J = 0 .. N /\ DOMAIN F = 1 .. N
      /\ \A k \in 1 .. N : \A x \in J[k - 1] : F[k][x] \in J[k]
  BY <1>6
<1> HIDE DEF J, F, N, Step, base
<1>8. PICK f : /\ f = [k \in 0 .. N |-> f[k]]
               /\ f[0] = base /\ \A k \in 1 .. N : f[k] = F[k][f[k - 1]]
               /\ \A k \in 0 .. N : f[k] \in J[k]
  BY <1>4, <1>5, <1>7, Walk
<1>9. Loops(f)
  <2> DEFINE G(k) == IF k = 0 THEN base ELSE Step(f[k - 1], seq[k])
  <2>1. ASSUME NEW k \in 0 .. N PROVE f[k] = G(k)
    <3>1. CASE k = 0
      BY <1>8, <3>1
    <3>2. CASE k # 0
      <4>1. k \in 1 .. N /\ k - 1 \in 0 .. N
        BY <1>4, <3>2
      <4>2. f[k - 1] \in J[k - 1] /\ f[k] = F[k][f[k - 1]]
        BY <1>8, <4>1
      <4>3. QED
        BY <1>6, <3>2, <4>1, <4>2
    <3>3. QED
      BY <3>1, <3>2
  <2> HIDE DEF G
  <2>2. f = [k \in 0 .. N |-> G(k)]
    BY <1>8, <2>1
  <2>3. QED
    BY <2>2 DEF G
<1> DEFINE g == CHOOSE h : Loops(h)
<1>10. Loops(g)
  BY <1>9
<1>11. \A k \in 0 .. N : g[k] \in J[k]
  <2> HIDE DEF g
  <2>1. g[0] = base
    BY <1>4, <1>10
  <2>2. ASSUME NEW k \in 1 .. N, g[k - 1] \in J[k - 1] PROVE g[k] \in J[k]
    <3>1. g[k] = Step(g[k - 1], seq[k])
      <4>1. k \in 0 .. N /\ k # 0
        BY <1>4
      <4>2. QED
        BY <1>10, <4>1
    <3>2. QED
      BY <1>6, <2>2, <3>1
  <2>3. g[0] \in J[0]
    BY <1>5, <2>1
  <2>4. QED
    BY <1>4, <2>2, <2>3, AlongWalk
<1>12. n \in J[N]
  BY <1>2, <1>4, <1>11
<1>13. Sent(m, seq, N, n)
  BY <1>4, <1>12 DEF J
<1>14. ASSUME NEW o \in Lines, HasReader(m, o) /\ Fed(o) PROVE Summed(n, o)
  <2>1. PICK j \in 1 .. N : o = seq[j]
    BY <1>3
  <2>2. QED
    BY <1>13, <1>14, <2>1 DEF Sent
<1>15. QED
  BY <1>13, <1>14 DEF Sent

LEMMA FromBuffersType ==
    ASSUME NEW code \in Seq(Ops)
    PROVE  FromBuffers(code) \in Seq(Ops)
<1> DEFINE held == Buffered(code)
           args(n) == [k \in 1 .. 3 |-> IF code[n].args[k] \in held THEN Buffer(code[n].args[k][2]) ELSE code[n].args[k]]
<1> HIDE DEF held
<1>1. ASSUME NEW n \in DOMAIN code PROVE [code[n] EXCEPT !.args = args(n)] \in Ops
  <2>1. code[n] \in Ops
    OBVIOUS
  <2>2. code[n].dst \in Operands /\ code[n].args \in [1 .. 3 -> Operands] /\ code[n] = [dst |-> code[n].dst, args |-> code[n].args]
    BY <2>1 DEF Ops
  <2>3. args(n) \in [1 .. 3 -> Operands]
    <3>1. \A k \in 1 .. 3 : code[n].args[k] \in Operands
      BY <2>2
    <3>2. \A k \in 1 .. 3 : Buffer(code[n].args[k][2]) \in Operands
      BY <3>1, OperandTypes
    <3>3. QED
      BY <3>1, <3>2
  <2> HIDE DEF args
  <2>4. [code[n] EXCEPT !.args = args(n)] = [dst |-> code[n].dst, args |-> args(n)]
    BY <2>2
  <2>5. QED
    BY <2>2, <2>3, <2>4 DEF Ops
<1>2. FromBuffers(code) = [n \in DOMAIN code |-> [code[n] EXCEPT !.args = args(n)]]
  BY DEF FromBuffers, held
<1> HIDE DEF args
<1>3. Len(code) \in Nat /\ DOMAIN code = 1 .. Len(code)
  OBVIOUS
<1> DEFINE G(n) == [code[n] EXCEPT !.args = args(n)]
           N == Len(code)
<1>4. FromBuffers(code) = [n \in 1 .. N |-> G(n)] /\ N \in Nat /\ \A n \in 1 .. N : G(n) \in Ops
  BY <1>1, <1>2, <1>3
<1> HIDE DEF G, N
<1>5. [n \in 1 .. N |-> G(n)] \in [1 .. N -> Ops]
  BY <1>4
<1>6. QED
  BY <1>4, <1>5

\* construct_routing(): every output line that is fed and has a patch that reads a gpr has
\* a gpr for the sum.
LEMMA ConstructRoutingIs ==
    ASSUME plain \in [Lines -> SUBSET Lines], vol \in [Lines -> SUBSET Lines],
           NEW m \in Mgrs, Counted(m), Table(m.bank),
           \A l \in Lines : \A g \in GprsOf(m.routing.in[l]) :
               \E p \in Patches : g \in m.prog[p].used /\ m.bank.line[g] = l
    PROVE  /\ Carried(m, ConstructRouting(m))
           /\ \A o \in Lines : HasReader(m, o) /\ Fed(o) => Summed(ConstructRouting(m), o)
<1> DEFINE r == Release(m)
           t == TakeInputs(r)
           x == After(RouteOutput, t, Ascending(Lines))
           n == ConstructRouting(m)
<1>1. n = [x EXCEPT !.routing.code = FromBuffers(@)]
  BY DEF ConstructRouting
<1>2. Carried(m, r) /\ r.routing.used = {}
  BY ReleaseIs DEF Carried
<1> HIDE DEF r
<1>3. r \in Mgrs /\ Counted(r) /\ Table(r.bank) /\ r.prog = m.prog /\ r.routing.in = m.routing.in
  BY <1>2 DEF Carried
<1>4. ASSUME NEW l \in Lines, NEW g \in GprsOf(r.routing.in[l])
      PROVE  g \in Gprs /\ r.bank.usage[g] > 0 /\ r.bank.line[g] = l
  <2>1. PICK p \in Patches : g \in m.prog[p].used /\ m.bank.line[g] = l
    BY <1>3, <1>4
  <2>2. g \in Gprs /\ r.bank.usage[g] > 0
    BY <1>3, <2>1, InUse
  <2>3. r.bank.line[g] = l
    BY <1>2, <2>1 DEF Carried
  <2>4. QED
    BY <2>2, <2>3
<1>5. Carried(r, t) /\ \A o \in Lines : Fresh(t, o)
  BY <1>2, <1>3, <1>4, TakeInputsIs DEF Carried
<1> HIDE DEF t
<1>6. t \in Mgrs /\ Counted(t) /\ Table(t.bank) /\ t.prog = m.prog
  BY <1>3, <1>5 DEF Carried
<1>7. Carried(t, x) /\ \A o \in Lines : HasReader(t, o) /\ Fed(o) => Summed(x, o)
  BY <1>5, <1>6, SendAll
<1> HIDE DEF x
<1>8. Carried(m, x)
  BY <1>2, <1>5, <1>7 DEF Carried
<1>9. x \in Mgrs /\ Counted(x) /\ Table(x.bank)
  BY <1>8 DEF Carried
<1>10. x = [bank |-> x.bank, prog |-> x.prog, routing |-> x.routing] /\ x.routing \in Routings
  BY <1>9, MgrFacts
<1>11. /\ x.routing = [used |-> x.routing.used, in |-> x.routing.in, out |-> x.routing.out, code |-> x.routing.code]
       /\ x.routing.code \in Seq(Ops) /\ x.routing.out \in [Lines -> Operands]
  BY <1>10, RoutingFacts
<1> HIDE DEF n
<1>12. /\ n = [bank |-> x.bank, prog |-> x.prog, routing |-> n.routing]
       /\ n.routing = [used |-> x.routing.used, in |-> x.routing.in, out |-> x.routing.out, code |-> FromBuffers(x.routing.code)]
  BY <1>1, <1>10, <1>11
<1>13. /\ n.bank = x.bank /\ n.routing.used = x.routing.used /\ n.routing.out = x.routing.out
       /\ n.routing.in = x.routing.in /\ n.routing.code = FromBuffers(x.routing.code)
  BY <1>12
<1>14. n.routing.code \in Seq(Ops) /\ n.routing.out \in [Lines -> Operands]
  BY <1>11, <1>13, FromBuffersType
<1>15. Along(x, 0, n)
  <2>1. n.routing = [used |-> x.routing.used, in |-> x.routing.in, out |-> n.routing.out, code |-> n.routing.code]
    BY <1>12, <1>13
  <2>2. QED
    BY <1>9, <1>12, <1>13, <1>14, <2>1, CodeIs
<1>16. Carried(m, n)
  BY <1>8, <1>15 DEF Carried, Along
<1>17. ASSUME NEW o \in Lines, HasReader(m, o) /\ Fed(o) PROVE Summed(n, o)
  <2>1. HasReader(t, o)
    BY <1>6, <1>17 DEF HasReader
  <2>2. Summed(x, o)
    BY <1>7, <1>17, <2>1
  <2>3. QED
    BY <1>13, <2>2 DEF Summed
<1>18. QED
  BY <1>16, <1>17 DEF n

-----------------------------------------------------------------------------
(* The output lines.                                                       *)

LEMMA SoundCarried ==
    ASSUME NEW il, NEW ol, Apart(il, ol), NEW m, Sound(m, il, ol), NEW n, Carried(m, n)
    PROVE  Sound(n, il, ol)
<1>1. n \in Mgrs /\ Counted(n) /\ n.prog = m.prog
  BY DEF Carried
<1>2. ASSUME NEW p \in ToSet(il) \cup ToSet(ol) PROVE Whole(n.bank, p, n.prog[p])
  <2>1. p \in Patches
    BY ApartFacts
  <2>2. Whole(m.bank, p, m.prog[p]) /\ m.prog[p] \in Progs
    BY <2>1, MgrFacts DEF Sound
  <2>3. \A g \in m.prog[p].used : n.bank.line[g] = m.bank.line[g]
    BY <2>1 DEF Carried
  <2>4. QED
    BY <1>1, <2>1, <2>2, <2>3, WholeElsewhere
<1>3. OutLast(n, ol)
  BY <1>1 DEF Sound, OutLast
<1>4. QED
  BY <1>1, <1>2, <1>3 DEF Sound

LEMMA ThreadNone ==
    ASSUME NEW m, NEW list, NEW l, NEW r, OnLine(list, l) = <<>>
    PROVE  Thread(m, list, l, r).m = m
<1> DEFINE base == [m |-> m, in |-> r]
           slots == m.bank.io[l]
           Matching(x, p) == MatchIo([b |-> x.m.bank, t |-> x.m.prog[p], in |-> x.in], l, slots)
           Step(x, p) == [m |-> [x.m EXCEPT !.bank = Matching(x, p).b, !.prog[p] = Matching(x, p).t],
                          in |-> Matching(x, p).in]
           here == OnLine(list, l)
           Loops(f) == f = [k \in 0 .. Len(here) |-> IF k = 0 THEN base ELSE Step(f[k - 1], here[k])]
<1>1. Thread(m, list, l, r) = (CHOOSE f : Loops(f))[Len(here)]
  BY DEF Thread, After
<1>2. Len(here) = 0
  OBVIOUS
<1> HIDE DEF Step, base, here
<1> DEFINE f0 == [k \in 0 .. 0 |-> base]
<1>3. Loops(f0)
  <2>1. \A k \in 0 .. 0 : k = 0
    OBVIOUS
  <2>2. [k \in 0 .. 0 |-> base] = [k \in 0 .. Len(here) |-> IF k = 0 THEN base ELSE Step(f0[k - 1], here[k])]
    BY <1>2, <2>1
  <2>3. QED
    BY <2>2
<1> DEFINE g == CHOOSE f : Loops(f)
<1>4. Loops(g)
  BY <1>3
<1> HIDE DEF g
<1>5. g[0] = base
  BY <1>2, <1>4
<1>6. QED
  BY <1>1, <1>2, <1>5 DEF base, g

\* n is m but for p, which writes line l itself.
Closed(m, p, l, n) ==
    /\ n \in Mgrs /\ Counted(n) /\ Table(n.bank) /\ n.routing = m.routing
    /\ \A q \in Patches : q # p => n.prog[q] = m.prog[q] /\ \A g \in m.prog[q].used : n.bank.line[g] = m.bank.line[g]
    /\ \A g \in m.routing.used : n.bank.line[g] = m.bank.line[g]
    /\ Whole(n.bank, p, n.prog[p]) /\ n.prog[p].rd[l] = m.prog[p].rd[l] /\ n.prog[p].wr[l] = Out(l)
    /\ \A i \in LinesOf[p] : i # l =>
          /\ n.prog[p].rd[i] = m.prog[p].rd[i] /\ n.prog[p].wr[i] = m.prog[p].wr[i]
          /\ n.prog[p].in[i] = m.prog[p].in[i] /\ n.prog[p].out[i] = m.prog[p].out[i]

LEMMA EndLineIs ==
    ASSUME NEW m \in Mgrs, Counted(m), Table(m.bank), NEW p \in Patches, NEW l \in LinesOf[p],
           Whole(m.bank, p, m.prog[p]), m.prog[p].out[l] = m.prog[p].wr[l]
    PROVE  Closed(m, p, l, EndLine(m, p, l))
<1> DEFINE t == m.prog[p]
           b == m.bank
           o == t.wr[l]
           f == FreeGprs(b, t.used, GprsOf(o))
           x == Replace(t, [a \in {o} |-> Out(l)])
           v == [x EXCEPT !.used = f.u]
           n == EndLine(m, p, l)
<1>1. n = [m EXCEPT !.bank = f.b, !.prog[p] = v]
  BY DEF EndLine, FreeOf
<1>2. t \in Progs /\ b \in Banks /\ t.used \in SUBSET Gprs /\ l \in Lines
  BY MgrFacts, ProgFacts, Sizes
<1>3. \A g \in t.used : b.usage[g] > 0
  BY InUse
<1>4. Whole(b, p, t) /\ t.out[l] = o
  OBVIOUS
<1> HIDE DEF n, t, b
<1>5. /\ o \in Operands /\ GprsOf(o) \in SUBSET Gprs /\ (o \in GprOps <=> IsGpr(o))
      /\ \A g \in Gprs : g \in GprsOf(o) <=> Gpr(g) = o
      /\ \A g \in GprsOf(o) : g \in t.used /\ b.line[g] = l
  BY <1>2, <1>4, LineFacts
<1>6. AtLine(b, t, l)
  BY <1>4 DEF Whole
<1>7. t.rd[l] \in {In(l)} \cup GprOps /\ o \in {Out(l)} \cup GprOps /\ t.rd[l] # o
  BY <1>6 DEF AtLine
<1>8. Moves(b, t.used, f.b, f.u) /\ f.u = t.used \ GprsOf(o)
  <2> DEFINE S == GprsOf(o)
             u == t.used
  <2>1. f = FreeGprs(b, u, S) /\ u \in SUBSET Gprs /\ (\A g \in u : b.usage[g] > 0) /\ b \in Banks /\ Table(b)
    BY <1>2, <1>3 DEF b
  <2> HIDE DEF S, u, f
  <2>2. Moves(b, u, f.b, f.u) /\ f.u = u \ S
    BY <2>1, FreeMoves
  <2>3. QED
    BY <2>2 DEF u, S
<1>9. /\ x \in Progs /\ x.used = t.used /\ x.input = t.input /\ x.in = t.in /\ x.out = t.out
      /\ \A k \in Lines : x.rd[k] = IF t.rd[k] = o THEN Out(l) ELSE t.rd[k]
      /\ \A k \in Lines : x.wr[k] = IF t.wr[k] = o THEN Out(l) ELSE t.wr[k]
  <2> DEFINE S == {o}
             change == [a \in S |-> Out(l)]
             y == Replace(t, change)
  <2>1. change \in [S -> Operands] /\ \A a \in S : change[a] = Out(l)
    BY <1>2, OperandTypes
  <2>2. x = Replace(t, change)
    OBVIOUS
  <2>3. \A a : a \in S <=> a = o
    OBVIOUS
  <2> HIDE DEF S, change, x
  <2>4. /\ x \in Progs /\ x.used = t.used /\ x.input = t.input /\ x.in = t.in /\ x.out = t.out
        /\ \A k \in Lines : x.rd[k] = IF t.rd[k] \in S THEN change[t.rd[k]] ELSE t.rd[k]
        /\ \A k \in Lines : x.wr[k] = IF t.wr[k] \in S THEN change[t.wr[k]] ELSE t.wr[k]
    BY <1>2, <2>1, <2>2, ReplaceIs
  <2>5. QED
    BY <2>1, <2>3, <2>4
<1> HIDE DEF x, f
<1>10. f.u \in SUBSET Gprs
  BY <1>8 DEF Moves
<1>11. /\ v \in Progs /\ v.used = f.u /\ v.input = t.input /\ v.in = t.in /\ v.out = t.out
       /\ v.rd = x.rd /\ v.wr = x.wr
  <2> DEFINE u == f.u
  <2>1. v = [x EXCEPT !.used = u]
    OBVIOUS
  <2> HIDE DEF v, u
  <2>2. v = [used |-> u, input |-> x.input, in |-> x.in, out |-> x.out, rd |-> x.rd, wr |-> x.wr] /\ v \in Progs
    BY <1>9, <1>10, <2>1, UsedIs DEF u
  <2>3. QED
    BY <1>9, <2>2 DEF u
<1> HIDE DEF v
<1>12. v.rd[l] = t.rd[l] /\ v.wr[l] = Out(l)
  BY <1>2, <1>7, <1>9, <1>11
<1>13. ASSUME NEW k \in LinesOf[p], k # l
       PROVE  v.rd[k] = t.rd[k] /\ v.wr[k] = t.wr[k] /\ v.in[k] = t.in[k] /\ v.out[k] = t.out[k]
  <2>1. t.rd[k] # o /\ t.wr[k] # o /\ k \in Lines
    BY <1>4, <1>13, OtherLines, Sizes
  <2>2. QED
    BY <1>9, <1>11, <2>1
<1>14. \A g \in Gprs : Gpr(g) # Out(l)
  BY OperandFacts
<1>15. \A g \in Gprs : g \in v.used <=> (g \in t.used /\ b.line[g] # l) \/ Gpr(g) \in {t.rd[l], Out(l)}
  <2>1. \A g \in Gprs : g \in t.used /\ b.line[g] = l <=> Gpr(g) \in {t.rd[l], o}
    BY <1>6 DEF AtLine
  <2>2. QED
    BY <1>5, <1>7, <1>8, <1>11, <1>14, <2>1
<1>16. \A g \in Gprs : g \in v.input <=> (g \in t.input /\ b.line[g] # l) \/ Gpr(g) = t.rd[l]
  <2>1. \A g \in Gprs : g \in t.input /\ b.line[g] = l <=> Gpr(g) = t.rd[l]
    BY <1>6 DEF AtLine
  <2>2. QED
    BY <1>11, <2>1
<1>17. \A g \in v.used : g \in Gprs /\ g \in t.used /\ f.b.usage[g] > 0
  <2>1. \A g \in v.used : g \in Gprs /\ g \in t.used /\ g \in f.u
    BY <1>2, <1>8, <1>11
  <2>2. QED
    BY <1>3, <1>8, <2>1 DEF Moves
<1>18. \A g \in v.used : f.b.line[g] = b.line[g]
  BY <1>3, <1>8, <1>17 DEF Moves
<1>19. Whole(f.b, p, v)
  <2>1. \A g \in Gprs : Gpr(g) \in {t.rd[l], Out(l)} => f.b.line[g] = l
    <3>1. \A g \in Gprs : Gpr(g) = t.rd[l] => g \in t.used /\ b.line[g] = l
      BY <1>6 DEF AtLine
    <3>2. QED
      BY <1>14, <1>15, <1>18, <3>1
  <2>2. \A g \in t.used : b.line[g] # l => f.b.line[g] = b.line[g]
    BY <1>2, <1>15, <1>18
  <2> DEFINE c == f.b
             r == t.rd[l]
             w == Out(l)
  <2>3. r \in {In(l)} \cup GprOps /\ w \in {Out(l)} \cup GprOps /\ r # w
    <3>1. In(l) # Out(l)
      BY OperandFacts
    <3>2. QED
      BY <1>7, <1>14, <3>1 DEF GprOps
  <2>4. v.rd[l] = r /\ v.wr[l] = w /\ v \in Progs
    BY <1>11, <1>12
  <2>5. /\ \A k \in LinesOf[p] : k # l => v.rd[k] = t.rd[k] /\ v.wr[k] = t.wr[k]
        /\ \A g \in Gprs : g \in v.used <=> (g \in t.used /\ b.line[g] # l) \/ Gpr(g) \in {r, w}
        /\ \A g \in Gprs : g \in v.input <=> (g \in t.input /\ b.line[g] # l) \/ Gpr(g) = r
        /\ \A g \in Gprs : Gpr(g) \in {r, w} => c.line[g] = l
        /\ \A g \in t.used : b.line[g] # l => c.line[g] = b.line[g]
    BY <1>13, <1>15, <1>16, <2>1, <2>2
  <2> HIDE DEF c, r, w
  <2>6. Whole(c, p, v)
    BY <1>4, <2>3, <2>4, <2>5, WholeAgain
  <2>7. QED
    BY <2>6 DEF c
<1>20. m = [bank |-> m.bank, prog |-> m.prog, routing |-> m.routing] /\ m.prog \in [Patches -> Progs]
  BY MgrFacts
<1>21. /\ n = [bank |-> n.bank, prog |-> n.prog, routing |-> n.routing]
       /\ n.bank = f.b /\ n.routing = m.routing /\ n.prog \in [Patches -> Progs]
       /\ n.prog[p] = v /\ \A q \in Patches : q # p => n.prog[q] = m.prog[q]
  BY <1>1, <1>11, <1>20
<1>22. Moves(m.bank, m.prog[p].used, n.bank, n.prog[p].used)
  BY <1>8, <1>11, <1>21 DEF b, t
<1>23. /\ n \in Mgrs /\ Counted(n) /\ Table(n.bank)
       /\ \A q \in Patches : q # p => \A g \in m.prog[q].used : n.bank.line[g] = m.bank.line[g]
       /\ \A g \in m.routing.used : n.bank.line[g] = m.bank.line[g]
  BY <1>21, <1>22, Reprogrammed
<1>24. /\ Whole(n.bank, p, n.prog[p]) /\ n.prog[p].rd[l] = m.prog[p].rd[l] /\ n.prog[p].wr[l] = Out(l)
  BY <1>12, <1>19, <1>21 DEF t
<1>25. \A i \in LinesOf[p] : i # l =>
          /\ n.prog[p].rd[i] = m.prog[p].rd[i] /\ n.prog[p].wr[i] = m.prog[p].wr[i]
          /\ n.prog[p].in[i] = m.prog[p].in[i] /\ n.prog[p].out[i] = m.prog[p].out[i]
  BY <1>13, <1>21 DEF t
<1>26. Closed(m, p, l, n)
  BY <1>21, <1>23, <1>24, <1>25 DEF Closed
<1>27. QED
  BY <1>26 DEF n

\* The first patch of output line l reads the sum, each of the others what the one before it
\* writes, and the last one writes the line itself.
OutChain(m, ol, l) ==
    \A k \in DOMAIN OnLine(ol, l) :
        /\ m.prog[OnLine(ol, l)[k]].rd[l] = IF k = 1 THEN m.routing.out[l]
                                           ELSE m.prog[OnLine(ol, l)[k - 1]].wr[l]
        /\ k = Len(OnLine(ol, l)) => m.prog[OnLine(ol, l)[k]].wr[l] = Out(l)

\* What threading output line l makes of m.
Dispatched(m, il, ol, l, n) ==
    /\ Sound(n, il, ol) /\ Table(n.bank) /\ Elsewhere(m, n, ol, l) /\ OutChain(n, ol, l)
    /\ n.routing = m.routing /\ \A g \in m.routing.used : n.bank.line[g] = m.bank.line[g]

LEMMA ThreadOutputStep ==
    ASSUME NEW il, NEW ol, Apart(il, ol), NEW m, Sound(m, il, ol), Table(m.bank), NEW l \in Lines,
           NEW p, OnLine(ol, l) # <<>>, p = OnLine(ol, l)[Len(OnLine(ol, l))], Summed(m, l),
           \A q \in ToSet(ol) : l \in LinesOf[q] => Known(m, q, l),
           NEW x, x = Thread(m, ol, l, m.routing.out[l]), NEW n, n = EndLine(x.m, p, l)
    PROVE  Dispatched(m, il, ol, l, n)
<1> DEFINE All == ToSet(il) \cup ToSet(ol)
           here == OnLine(ol, l)
           N == Len(here)
           r == m.routing.out[l]
<1>1. /\ il \in Seq(Patches) /\ ol \in Seq(Patches) /\ Distinct(il) /\ Distinct(ol)
      /\ ToSet(il) \in SUBSET Patches /\ ToSet(ol) \in SUBSET Patches
      /\ \A q \in ToSet(il) : q \notin ToSet(ol)
  BY ApartFacts
<1>2. /\ here \in Seq(Patches) /\ ToSet(here) = {q \in ToSet(ol) : l \in LinesOf[q]} /\ Distinct(here)
      /\ N \in Nat /\ DOMAIN here = 1 .. N
  BY <1>1, OnLineFacts
<1>3. \A k \in DOMAIN here : here[k] \in ToSet(ol) /\ here[k] \in Patches /\ l \in LinesOf[here[k]]
  BY <1>1, HereFacts
<1>4. m \in Mgrs /\ Counted(m) /\ (\A q \in All : Whole(m.bank, q, m.prog[q])) /\ OutLast(m, ol)
  BY DEF Sound
<1>5. N # 0 /\ N \in DOMAIN here /\ p = here[N]
  BY <1>2
<1>6. r \in GprOps /\ Standing(m.bank, l, r)
  <2>1. PICK g \in m.routing.used : r = Gpr(g) /\ m.bank.line[g] = l
    BY DEF Summed
  <2>2. g \in Gprs /\ m.bank.usage[g] > 0
    BY <1>4, InUse
  <2> HIDE DEF r
  <2>3. QED
    BY <2>1, <2>2 DEF Standing, GprOps
<1>7. Threadable(All, m, here, l, r)
  <2>1. \A k \in DOMAIN here : m.prog[here[k]].rd[l] \in GprOps
    BY <1>3 DEF Sound
  <2>2. \A k \in DOMAIN here : k < N => m.prog[here[k]].wr[l] \in GprOps
    BY <1>4 DEF OutLast
  <2>3. ToSet(here) \subseteq All /\ All \subseteq Patches
    BY <1>1, <1>2
  <2>4. \A q \in ToSet(here) : l \in LinesOf[q] /\ m.prog[q].in[l] = m.prog[q].rd[l]
                                               /\ m.prog[q].out[l] = m.prog[q].wr[l]
    BY <1>2 DEF Known
  <2> HIDE DEF here, All, r
  <2>5. QED
    BY <1>2, <1>4, <1>6, <2>1, <2>2, <2>3, <2>4 DEF Threadable
<1> HIDE DEF All
<1>8. Ends(All, m, ol, l, r, x)
  <2>1. Threadable(All, m, OnLine(ol, l), l, r) /\ x = Thread(m, ol, l, r)
    BY <1>7
  <2> HIDE DEF here, N, r
  <2>2. QED
    BY <1>1, <2>1, ThreadEnds
<1>9. /\ x.m \in Mgrs /\ Counted(x.m) /\ Table(x.m.bank)
      /\ \A q \in All : Whole(x.m.bank, q, x.m.prog[q])
      /\ x.m.routing = m.routing /\ \A g \in m.routing.used : x.m.bank.line[g] = m.bank.line[g]
      /\ \A q \in Patches : ~(q \in ToSet(ol) /\ l \in LinesOf[q]) => x.m.prog[q] = m.prog[q]
      /\ \A q \in Patches : \A i \in LinesOf[q] : i # l =>
            /\ x.m.prog[q].rd[i] = m.prog[q].rd[i] /\ x.m.prog[q].wr[i] = m.prog[q].wr[i]
            /\ x.m.prog[q].in[i] = m.prog[q].in[i] /\ x.m.prog[q].out[i] = m.prog[q].out[i]
      /\ \A j \in DOMAIN here :
            /\ x.m.prog[here[j]].rd[l] = IF j = 1 THEN r ELSE x.m.prog[here[j - 1]].wr[l]
            /\ m.prog[here[j]].rd[l] \in GprOps => x.m.prog[here[j]].out[l] = x.m.prog[here[j]].wr[l]
            /\ x.m.prog[here[j]].wr[l] = m.prog[here[j]].wr[l] \/ x.m.prog[here[j]].wr[l] \in GprOps
  BY Zenon, <1>8 DEF Ends, here
<1>10. \A j \in DOMAIN here : m.prog[here[j]].rd[l] \in GprOps
  BY Zenon, <1>3 DEF Sound
<1>11. p \in Patches /\ p \in ToSet(ol) /\ p \in All /\ l \in LinesOf[p] /\ x.m.prog[p].out[l] = x.m.prog[p].wr[l]
  BY Zenon, <1>1, <1>3, <1>5, <1>9, <1>10 DEF All
<1>12. Closed(x.m, p, l, n)
  <2> DEFINE y == x.m
  <2>1. y \in Mgrs /\ Counted(y) /\ Table(y.bank) /\ Whole(y.bank, p, y.prog[p]) /\ y.prog[p].out[l] = y.prog[p].wr[l]
        /\ n = EndLine(y, p, l)
    BY Zenon, <1>9, <1>11
  <2> HIDE DEF y
  <2>2. Closed(y, p, l, n)
    BY <1>11, <2>1, EndLineIs
  <2>3. QED
    BY <2>2 DEF y
<1>13. /\ n \in Mgrs /\ Counted(n) /\ Table(n.bank) /\ n.routing = m.routing
       /\ \A q \in Patches : q # p => n.prog[q] = x.m.prog[q]
       /\ \A g \in m.routing.used : n.bank.line[g] = m.bank.line[g]
       /\ n.prog[p].rd[l] = x.m.prog[p].rd[l] /\ n.prog[p].wr[l] = Out(l)
       /\ \A i \in LinesOf[p] : i # l =>
             /\ n.prog[p].rd[i] = x.m.prog[p].rd[i] /\ n.prog[p].wr[i] = x.m.prog[p].wr[i]
             /\ n.prog[p].in[i] = x.m.prog[p].in[i] /\ n.prog[p].out[i] = x.m.prog[p].out[i]
  <2> DEFINE y == x.m
  <2>1. y.routing = m.routing /\ (\A g \in m.routing.used : y.bank.line[g] = m.bank.line[g]) /\ Closed(y, p, l, n)
    BY Zenon, <1>9, <1>12
  <2> HIDE DEF y
  <2>2. n \in Mgrs /\ Counted(n) /\ Table(n.bank) /\ n.routing = m.routing
    BY Zenon, <2>1 DEF Closed
  <2>3. \A q \in Patches : q # p => n.prog[q] = y.prog[q]
    BY Zenon, <2>1 DEF Closed
  <2>4. \A g \in m.routing.used : n.bank.line[g] = m.bank.line[g]
    BY Zenon, <2>1 DEF Closed
  <2>5. n.prog[p].rd[l] = y.prog[p].rd[l] /\ n.prog[p].wr[l] = Out(l)
    BY Zenon, <2>1 DEF Closed
  <2>6. \A i \in LinesOf[p] : i # l =>
             /\ n.prog[p].rd[i] = y.prog[p].rd[i] /\ n.prog[p].wr[i] = y.prog[p].wr[i]
             /\ n.prog[p].in[i] = y.prog[p].in[i] /\ n.prog[p].out[i] = y.prog[p].out[i]
    BY Zenon, <2>1 DEF Closed
  <2>7. QED
    BY Zenon, <2>2, <2>3, <2>4, <2>5, <2>6 DEF y
<1>14. \A q \in Patches : q \notin ToSet(ol) => x.m.prog[q] = m.prog[q]
  BY Zenon, <1>9
<1>15. \A j \in DOMAIN here : x.m.prog[here[j]].wr[l] = m.prog[here[j]].wr[l] \/ x.m.prog[here[j]].wr[l] \in GprOps
  BY Zenon, <1>9
<1>16. \A q \in Patches : q # p => n.prog[q] = x.m.prog[q]
  BY Zenon, <1>13
<1>17. ASSUME NEW q \in All PROVE Whole(n.bank, q, n.prog[q])
  <2>1. CASE q = p
    BY Zenon, <1>12, <2>1 DEF Closed
  <2>2. CASE q # p
    <3>1. q \in Patches
      BY <1>1 DEF All
    <3>2. Whole(x.m.bank, q, x.m.prog[q]) /\ x.m.prog[q] \in Progs
      BY Zenon, <1>9, <3>1, MgrFacts
    <3>3. n.prog[q] = x.m.prog[q] /\ \A g \in x.m.prog[q].used : n.bank.line[g] = x.m.bank.line[g]
      BY Zenon, <1>12, <2>2, <3>1 DEF Closed
    <3>4. QED
      BY Zenon, <3>1, <3>2, <3>3, WholeElsewhere
  <2>3. QED
    BY <2>1, <2>2
<1>18. \A q \in Patches : q \notin ToSet(ol) => n.prog[q] = m.prog[q]
  BY Zenon, <1>11, <1>14, <1>16
<1>19. \A q \in Patches : \A i \in LinesOf[q] : i # l =>
          /\ n.prog[q].rd[i] = m.prog[q].rd[i] /\ n.prog[q].wr[i] = m.prog[q].wr[i]
          /\ n.prog[q].in[i] = m.prog[q].in[i] /\ n.prog[q].out[i] = m.prog[q].out[i]
  <2>1. ASSUME NEW q \in Patches, NEW i \in LinesOf[q], i # l
        PROVE  /\ n.prog[q].rd[i] = m.prog[q].rd[i] /\ n.prog[q].wr[i] = m.prog[q].wr[i]
               /\ n.prog[q].in[i] = m.prog[q].in[i] /\ n.prog[q].out[i] = m.prog[q].out[i]
    <3>1. /\ x.m.prog[q].rd[i] = m.prog[q].rd[i] /\ x.m.prog[q].wr[i] = m.prog[q].wr[i]
          /\ x.m.prog[q].in[i] = m.prog[q].in[i] /\ x.m.prog[q].out[i] = m.prog[q].out[i]
      BY Zenon, <1>9, <2>1
    <3>2. CASE q = p
      BY Zenon, <1>13, <2>1, <3>1, <3>2
    <3>3. CASE q # p
      BY Zenon, <1>13, <3>1, <3>3
    <3>4. QED
      BY Zenon, <3>2, <3>3
  <2>2. QED
    BY Zenon, <2>1
<1>20. Elsewhere(m, n, ol, l)
  BY Zenon, <1>18, <1>19 DEF Elsewhere
<1>21. \A k \in DOMAIN here : k < N => n.prog[here[k]] = x.m.prog[here[k]] /\ n.prog[here[k]].wr[l] \in GprOps
  <2>1. ASSUME NEW k \in DOMAIN here, k < N
        PROVE  n.prog[here[k]] = x.m.prog[here[k]] /\ n.prog[here[k]].wr[l] \in GprOps
    <3>1. here[k] # p /\ here[k] \in Patches
      BY <1>2, <1>3, <1>5, <2>1 DEF Distinct
    <3>2. m.prog[here[k]].wr[l] \in GprOps
      BY <1>4, <2>1 DEF OutLast
    <3> HIDE DEF here
    <3>3. QED
      BY <1>15, <1>16, <3>1, <3>2, <2>1
  <2>2. QED
    BY <2>1
<1> HIDE DEF r
<1>22. ASSUME NEW k \in DOMAIN here PROVE n.prog[here[k]].rd[l] = IF k = 1 THEN r ELSE n.prog[here[k - 1]].wr[l]
  <2>1. x.m.prog[here[k]].rd[l] = IF k = 1 THEN r ELSE x.m.prog[here[k - 1]].wr[l]
    BY Zenon, <1>9
  <2>2. k # 1 => k - 1 \in DOMAIN here /\ k - 1 < N
    BY <1>2
  <2> HIDE DEF here
  <2>3. n.prog[here[k]].rd[l] = x.m.prog[here[k]].rd[l]
    <3>1. CASE k = N
      BY Zenon, <1>5, <1>13, <3>1
    <3>2. CASE k # N
      BY <1>2, <1>21, <3>2
    <3>3. QED
      BY <3>1, <3>2
  <2>4. k # 1 => n.prog[here[k - 1]] = x.m.prog[here[k - 1]]
    BY <1>21, <2>2
  <2>5. QED
    BY <2>1, <2>3, <2>4
<1>23. OutChain(n, ol, l)
  <2>1. n.routing.out[l] = r
    BY Zenon, <1>13 DEF r
  <2>2. \A k \in DOMAIN here : k = N => n.prog[here[k]].wr[l] = Out(l)
    BY Zenon, <1>5, <1>13
  <2>3. QED
    BY Zenon, <1>22, <2>1, <2>2 DEF OutChain
<1>24. \A k \in DOMAIN here : n.prog[here[k]].rd[l] \in GprOps
  <2>1. ASSUME NEW k \in DOMAIN here PROVE n.prog[here[k]].rd[l] \in GprOps
    <3>1. k # 1 => k - 1 \in DOMAIN here /\ k - 1 < N
      BY <1>2
    <3> HIDE DEF here
    <3>2. QED
      BY <1>6, <1>21, <1>22, <3>1
  <2>2. QED
    BY <2>1
<1>25. ASSUME NEW q \in ToSet(ol), NEW i \in LinesOf[q] PROVE n.prog[q].rd[i] \in GprOps
  <2>1. q \in Patches
    BY <1>1
  <2>2. CASE i # l
    BY <1>19, <2>1, <2>2 DEF Sound
  <2>3. CASE i = l
    <3>1. q \in ToSet(here)
      BY <1>2, <2>3
    <3>2. PICK k \in DOMAIN here : q = here[k]
      BY <3>1 DEF ToSet
    <3>3. QED
      BY <1>24, <2>3, <3>2
  <2>4. QED
    BY <2>2, <2>3
<1>26. OutLast(n, ol)
  <2>1. ASSUME NEW i \in Lines, NEW k \in DOMAIN OnLine(ol, i), k < Len(OnLine(ol, i))
        PROVE  n.prog[OnLine(ol, i)[k]].wr[i] \in GprOps
    <3> DEFINE q == OnLine(ol, i)[k]
    <3>1. q \in Patches /\ i \in LinesOf[q]
      BY <1>1, HereFacts
    <3>2. m.prog[q].wr[i] \in GprOps
      BY <1>4, <2>1 DEF OutLast
    <3>3. CASE i # l
      BY <1>19, <3>1, <3>2, <3>3
    <3>4. CASE i = l
      BY <1>21, <2>1, <3>4
    <3>5. QED
      BY <3>3, <3>4
  <2>2. QED
    BY <2>1 DEF OutLast
<1>27. \A q \in ToSet(il) : n.prog[q] = m.prog[q]
  BY <1>1, <1>18
<1>28. \A q \in Patches : q \notin ToSet(il) \cup ToSet(ol) => n.prog[q].used = {}
  BY <1>18 DEF Sound
<1>29. \A q \in ToSet(il) : \A i \in LinesOf[q] : n.prog[q].wr[i] \in GprOps
  BY <1>27 DEF Sound
<1>30. \A q \in ToSet(il) \cup ToSet(ol) : Whole(n.bank, q, n.prog[q])
  BY <1>17 DEF All
<1>31. Sound(n, il, ol)
  BY Zenon, <1>13, <1>25, <1>26, <1>28, <1>29, <1>30 DEF Sound
<1>32. QED
  BY Zenon, <1>13, <1>20, <1>23, <1>31 DEF Dispatched

\* The manager x after the first k lines, seq, have been threaded to the patches on output lines.
Left(m, il, ol, seq, k, x) ==
    /\ Sound(x, il, ol) /\ Table(x.bank)
    /\ \A j \in 1 .. k : OutChain(x, ol, seq[j])
    /\ \A p \in ToSet(ol) : \A l \in LinesOf[p] : l \notin {seq[j] : j \in 1 .. k} => Known(x, p, l)
    /\ \A p \in Patches : p \notin ToSet(ol) => x.prog[p] = m.prog[p]
    /\ x.routing = m.routing /\ \A g \in m.routing.used : x.bank.line[g] = m.bank.line[g]

LEMMA LeftStep ==
    ASSUME NEW il, NEW ol, Apart(il, ol), NEW m, NEW seq \in Seq(Lines), Distinct(seq), NEW k \in 1 .. Len(seq), NEW x,
           Left(m, il, ol, seq, k - 1, x), NEW n, Dispatched(x, il, ol, seq[k], n)
    PROVE  Left(m, il, ol, seq, k, n)
<1> DEFINE l == seq[k]
<1>1. Len(seq) \in Nat /\ DOMAIN seq = 1 .. Len(seq) /\ l \in Lines
  OBVIOUS
<1>2. /\ Sound(n, il, ol) /\ Table(n.bank) /\ Elsewhere(x, n, ol, l) /\ OutChain(n, ol, l)
      /\ n.routing = x.routing /\ \A g \in x.routing.used : n.bank.line[g] = x.bank.line[g]
  BY DEF Dispatched
<1>3. ol \in Seq(Patches) /\ ToSet(ol) \in SUBSET Patches
  BY ApartFacts
<1>4. ASSUME NEW j \in 1 .. k PROVE OutChain(n, ol, seq[j])
  <2>1. CASE j = k
    BY <1>2, <2>1
  <2>2. CASE j # k
    <3> DEFINE i == seq[j]
               here == OnLine(ol, i)
    <3>1. j \in 1 .. k - 1 /\ j \in DOMAIN seq /\ k \in DOMAIN seq /\ i \in Lines
      BY <1>1, <2>2
    <3>2. i # l
      BY <2>2, <3>1 DEF Distinct
    <3>3. OutChain(x, ol, i)
      BY <3>1 DEF Left
    <3>4. \A h \in DOMAIN here : n.prog[here[h]].rd[i] = x.prog[here[h]].rd[i] /\ n.prog[here[h]].wr[i] = x.prog[here[h]].wr[i]
      <4>1. \A h \in DOMAIN here : here[h] \in Patches /\ i \in LinesOf[here[h]]
        BY <1>3, HereFacts
      <4>2. QED
        BY <1>2, <3>2, <4>1 DEF Elsewhere
    <3>5. Len(here) \in Nat /\ DOMAIN here = 1 .. Len(here)
      BY <1>3, OnLineFacts
    <3> HIDE DEF here, i, l
    <3>6. \A h \in DOMAIN here :
             /\ x.prog[here[h]].rd[i] = IF h = 1 THEN x.routing.out[i] ELSE x.prog[here[h - 1]].wr[i]
             /\ h = Len(here) => x.prog[here[h]].wr[i] = Out(i)
      BY <3>3 DEF OutChain, here
    <3>7. ASSUME NEW h \in DOMAIN here
          PROVE  /\ n.prog[here[h]].rd[i] = IF h = 1 THEN n.routing.out[i] ELSE n.prog[here[h - 1]].wr[i]
                 /\ h = Len(here) => n.prog[here[h]].wr[i] = Out(i)
      <4>1. h # 1 => h - 1 \in DOMAIN here
        BY <3>5
      <4>2. QED
        BY <1>2, <3>4, <3>6, <4>1
    <3>8. OutChain(n, ol, i)
      BY <3>7 DEF OutChain, here
    <3>9. QED
      BY <3>8 DEF i
  <2>3. QED
    BY <2>1, <2>2
<1>5. ASSUME NEW p \in ToSet(ol), NEW i \in LinesOf[p], i \notin {seq[j] : j \in 1 .. k} PROVE Known(n, p, i)
  <2>1. i # l /\ i \notin {seq[j] : j \in 1 .. k - 1} /\ p \in Patches
    BY <1>1, <1>3, <1>5
  <2>2. Known(x, p, i)
    BY <2>1 DEF Left
  <2>3. QED
    BY <1>2, <2>1, <2>2 DEF Elsewhere, Known
<1>6. \A p \in Patches : p \notin ToSet(ol) => n.prog[p] = m.prog[p]
  BY <1>2 DEF Elsewhere, Left
<1>7. n.routing = m.routing /\ \A g \in m.routing.used : n.bank.line[g] = m.bank.line[g]
  BY <1>2 DEF Left
<1>8. QED
  BY <1>2, <1>4, <1>5, <1>6, <1>7 DEF Left

LEMMA ThreadOutputs ==
    ASSUME Apart(ilist, olist), NEW m, Sound(m, ilist, olist), Table(m.bank),
           \A p \in ToSet(olist) : \A l \in LinesOf[p] : Known(m, p, l) /\ Summed(m, l),
           NEW n, n = After(ThreadOutput, m, Ascending(Lines))
    PROVE  /\ Sound(n, ilist, olist) /\ Table(n.bank)
           /\ \A l \in Lines : OutChain(n, olist, l)
           /\ \A p \in Patches : p \notin ToSet(olist) => n.prog[p] = m.prog[p]
           /\ n.routing = m.routing
<1> DEFINE seq == Ascending(Lines)
           N == Len(seq)
           base == m
           Step(x, l) == ThreadOutput(x, l)
           W == Mgrs
           J == [k \in 0 .. N |-> {x \in W : Left(m, ilist, olist, seq, k, x)}]
           F == [k \in 1 .. N |-> [x \in J[k - 1] |-> Step(x, seq[k])]]
           Loops(f) == f = [k \in 0 .. N |-> IF k = 0 THEN base ELSE Step(f[k - 1], seq[k])]
<1>1. seq \in Seq(Gprs) /\ ToSet(seq) = Lines /\ Distinct(seq)
  BY Sizes, AscendingFacts
<1>2. n = (CHOOSE f : Loops(f))[N]
  BY DEF After
<1>3. {seq[j] : j \in 1 .. N} = Lines
  BY <1>1 DEF ToSet
<1> HIDE DEF seq
<1>4. N \in Nat /\ seq \in Seq(Lines)
  <2>1. N \in Nat /\ DOMAIN seq = 1 .. N /\ \A j \in 1 .. N : seq[j] \in Lines
    BY <1>1, <1>3
  <2>2. seq = [j \in 1 .. N |-> seq[j]]
    BY <1>1
  <2>3. QED
    BY <2>1, <2>2
<1>5. base \in J[0]
  <2>1. 0 \in 0 .. N /\ {seq[j] : j \in 1 .. 0} = {} /\ 1 .. 0 = {}
    BY <1>4
  <2>2. Left(m, ilist, olist, seq, 0, m) /\ m \in Mgrs
    BY <2>1 DEF Left, Sound
  <2>3. QED
    BY <2>1, <2>2
<1>6. ASSUME NEW k \in 1 .. N, NEW x \in J[k - 1] PROVE Step(x, seq[k]) \in J[k] /\ F[k][x] = Step(x, seq[k])
  <2>1. k - 1 \in 0 .. N /\ k \in 0 .. N /\ k \in DOMAIN seq /\ seq[k] \in Lines
    BY <1>4
  <2>2. x \in Mgrs /\ Left(m, ilist, olist, seq, k - 1, x)
    BY <2>1
  <2> DEFINE l == seq[k]
             y == Step(x, seq[k])
  <2>3. l \notin {seq[j] : j \in 1 .. k - 1}
    <3>1. \A j \in 1 .. k - 1 : j \in DOMAIN seq /\ j # k
      BY <1>4
    <3>2. QED
      BY <1>1, <2>1, <3>1 DEF Distinct
  <2>4. Sound(x, ilist, olist) /\ Table(x.bank) /\ \A p \in ToSet(olist) : l \in LinesOf[p] => Known(x, p, l)
    BY <2>2, <2>3 DEF Left
  <2>5. Dispatched(x, ilist, olist, l, y)
    <3> DEFINE here == OnLine(olist, l)
               th == Thread(x, olist, l, x.routing.out[l])
               p == here[Len(here)]
    <3>1. y = IF here = <<>> THEN th.m ELSE EndLine(th.m, p, l)
      BY Zenon DEF ThreadOutput
    <3>2. l \in Lines
      BY <2>1
    <3> HIDE DEF Step, y, l
    <3>3. olist \in Seq(Patches)
      BY ApartFacts
    <3>4. CASE here = <<>>
      <4>1. y = x
        BY <3>1, <3>4, ThreadNone
      <4>2. DOMAIN here = {}
        BY <3>4
      <4>3. OutChain(y, olist, l) /\ Elsewhere(x, y, olist, l)
        BY <4>1, <4>2 DEF OutChain, Elsewhere
      <4>4. QED
        BY <2>4, <4>1, <4>3 DEF Dispatched
    <3>5. CASE here # <<>>
      <4>1. Summed(x, l)
        <5>1. /\ ToSet(here) = {q \in ToSet(olist) : l \in LinesOf[q]} /\ Len(here) \in Nat
              /\ DOMAIN here = 1 .. Len(here) /\ here \in Seq(Patches)
          BY <3>3, OnLineFacts
        <5> HIDE DEF here
        <5>2. Len(here) # 0
          BY <3>5, <5>1
        <5>3. here[1] \in ToSet(here)
          BY <5>1, <5>2 DEF ToSet
        <5>4. Summed(m, l)
          BY <5>1, <5>3
        <5>5. x.routing = m.routing /\ \A g \in m.routing.used : x.bank.line[g] = m.bank.line[g]
          BY <2>2 DEF Left
        <5>6. QED
          BY <5>4, <5>5 DEF Summed
      <4>2. /\ y = EndLine(th.m, p, l) /\ OnLine(olist, l) # <<>>
            /\ p = OnLine(olist, l)[Len(OnLine(olist, l))]
            /\ th = Thread(x, olist, l, x.routing.out[l])
        BY <3>1, <3>5
      <4> HIDE DEF th, p, here
      <4>3. QED
        BY <2>4, <3>2, <4>1, <4>2, ThreadOutputStep
    <3>6. QED
      BY <3>4, <3>5
  <2> HIDE DEF Step, y
  <2>6. Left(m, ilist, olist, seq, k, y)
    BY <1>1, <1>4, <2>2, <2>5, LeftStep
  <2>7. y \in Mgrs
    BY <2>6 DEF Left, Sound
  <2>8. QED
    BY <2>1, <2>2, <2>6, <2>7 DEF y
<1>7. /\ DOMAIN J = 0 .. N /\ DOMAIN F = 1 .. N
      /\ \A k \in 1 .. N : \A x \in J[k - 1] : F[k][x] \in J[k]
  BY <1>6
<1> HIDE DEF J, F, N, Step, base
<1>8. PICK f : /\ f = [k \in 0 .. N |-> f[k]]
               /\ f[0] = base /\ \A k \in 1 .. N : f[k] = F[k][f[k - 1]]
               /\ \A k \in 0 .. N : f[k] \in J[k]
  BY <1>4, <1>5, <1>7, Walk
<1>9. Loops(f)
  <2> DEFINE G(k) == IF k = 0 THEN base ELSE Step(f[k - 1], seq[k])
  <2>1. ASSUME NEW k \in 0 .. N PROVE f[k] = G(k)
    <3>1. CASE k = 0
      BY <1>8, <3>1
    <3>2. CASE k # 0
      <4>1. k \in 1 .. N /\ k - 1 \in 0 .. N
        BY <1>4, <3>2
      <4>2. f[k - 1] \in J[k - 1] /\ f[k] = F[k][f[k - 1]]
        BY <1>8, <4>1
      <4>3. QED
        BY <1>6, <3>2, <4>1, <4>2
    <3>3. QED
      BY <3>1, <3>2
  <2> HIDE DEF G
  <2>2. f = [k \in 0 .. N |-> G(k)]
    BY <1>8, <2>1
  <2>3. QED
    BY <2>2 DEF G
<1> DEFINE g == CHOOSE h : Loops(h)
<1>10. Loops(g)
  BY <1>9
<1>11. \A k \in 0 .. N : g[k] \in J[k]
  <2> HIDE DEF g
  <2>1. g[0] = base
    BY <1>4, <1>10
  <2>2. ASSUME NEW k \in 1 .. N, g[k - 1] \in J[k - 1] PROVE g[k] \in J[k]
    <3>1. g[k] = Step(g[k - 1], seq[k])
      <4>1. k \in 0 .. N /\ k # 0
        BY <1>4
      <4>2. QED
        BY <1>10, <4>1
    <3>2. QED
      BY <1>6, <2>2, <3>1
  <2>3. g[0] \in J[0]
    BY <1>5, <2>1
  <2>4. QED
    BY <1>4, <2>2, <2>3, AlongWalk
<1>12. n \in J[N]
  BY <1>2, <1>4, <1>11
<1>13. Left(m, ilist, olist, seq, N, n)
  BY <1>4, <1>12 DEF J
<1>14. ASSUME NEW l \in Lines PROVE OutChain(n, olist, l)
  <2>1. PICK j \in 1 .. N : l = seq[j]
    BY <1>3
  <2>2. QED
    BY <1>13, <2>1 DEF Left
<1>15. QED
  BY <1>13, <1>14 DEF Left

-----------------------------------------------------------------------------
(* A load.                                                                 *)

\* What the library knows of all patches.
AllKnown(m, il, ol) == \A p \in ToSet(il) \cup ToSet(ol) : \A l \in LinesOf[p] : Known(m, p, l)

\* The lines with patches of ol are routed to.
FedAll(ol, pl, vo) == \A p \in ToSet(ol) : \A l \in LinesOf[p] : pl[l] \cup vo[l] # {}

Routes == [Lines -> SUBSET Lines]

LEMMA SetIs ==
    ASSUME Apart(ilist, olist), plain \in Routes, vol \in Routes, FedAll(olist, plain, vol),
           NEW m, Sound(m, ilist, olist), Table(m.bank), AllKnown(m, ilist, olist),
           \A l \in Lines : Spared(m, OnLine(ilist, l), l)
    PROVE  LET n == SetIoGprs(m)
           IN /\ Sound(n, ilist, olist) /\ Table(n.bank)
              /\ \A l \in Lines : InChain(n, ilist, l) /\ OutChain(n, olist, l)
<1> DEFINE a == After(ThreadInput, m, Ascending(Lines))
           b == ConstructRouting(a)
           n == After(ThreadOutput, b, Ascending(Lines))
<1>1. SetIoGprs(m) = n
  BY DEF SetIoGprs
<1>2. /\ ilist \in Seq(Patches) /\ olist \in Seq(Patches) /\ ToSet(ilist) \in SUBSET Patches
      /\ ToSet(olist) \in SUBSET Patches
      /\ \A q \in ToSet(ilist) : q \notin ToSet(olist)
  BY ApartFacts
<1>3. /\ Sound(a, ilist, olist) /\ Table(a.bank)
      /\ \A l \in Lines : InChain(a, ilist, l)
      /\ \A p \in Patches : p \notin ToSet(ilist) => a.prog[p] = m.prog[p]
  BY ThreadInputs DEF AllKnown
<1> HIDE DEF a
<1>4. a \in Mgrs /\ Counted(a)
  BY <1>3 DEF Sound
<1>5. ASSUME NEW l \in Lines, NEW g \in GprsOf(a.routing.in[l])
      PROVE  \E p \in Patches : g \in a.prog[p].used /\ a.bank.line[g] = l
  <2> DEFINE here == OnLine(ilist, l)
             p == here[Len(here)]
  <2>1. a.routing.in[l] = IF Len(here) = 0 THEN In(l) ELSE a.prog[p].wr[l]
    BY <1>3 DEF InChain
  <2>2. Len(here) \in Nat /\ DOMAIN here = 1 .. Len(here)
    BY <1>2, OnLineFacts
  <2>3. Len(here) # 0
    BY <1>5, <2>1, OperandFacts
  <2>4. p \in ToSet(ilist) /\ p \in Patches /\ l \in LinesOf[p]
    BY <1>2, <2>2, <2>3, HereFacts
  <2> HIDE DEF here, p
  <2>5. Whole(a.bank, p, a.prog[p]) /\ a.prog[p] \in Progs
    BY <1>3, <1>4, <2>4, MgrFacts DEF Sound
  <2>6. g \in GprsOf(a.prog[p].wr[l])
    BY <1>5, <2>1, <2>3
  <2>7. g \in a.prog[p].used /\ a.bank.line[g] = l
    BY <2>4, <2>5, <2>6, LineFacts
  <2>8. QED
    BY <2>4, <2>7
<1>6. Carried(a, b) /\ \A o \in Lines : HasReader(a, o) /\ Fed(o) => Summed(b, o)
  BY <1>3, <1>4, <1>5, ConstructRoutingIs DEF Routes
<1> HIDE DEF b
<1>7. b.prog = a.prog /\ Table(b.bank) /\ b.routing.in = a.routing.in
  BY <1>6 DEF Carried
<1>8. Sound(b, ilist, olist)
  BY <1>3, <1>6, SoundCarried
<1>9. ASSUME NEW p \in ToSet(olist), NEW l \in LinesOf[p] PROVE Known(b, p, l) /\ Summed(b, l)
  <2>1. p \in Patches /\ l \in Lines /\ b.prog[p] = m.prog[p] /\ a.prog[p] = m.prog[p]
    BY <1>2, <1>3, <1>7, Sizes
  <2>2. Known(m, p, l) /\ m.prog[p].rd[l] \in GprOps
    BY DEF AllKnown, Sound
  <2>3. a.prog[p].in[l] \notin {None, In(0)}
    BY <2>1, <2>2, OperandFacts DEF Known, GprOps
  <2>4. HasReader(a, l)
    BY <2>3 DEF HasReader
  <2>5. Fed(l)
    BY DEF FedAll, Fed
  <2>6. QED
    BY <1>6, <2>1, <2>2, <2>4, <2>5 DEF Known
<1>10. /\ Sound(n, ilist, olist) /\ Table(n.bank)
       /\ \A l \in Lines : OutChain(n, olist, l)
       /\ \A p \in Patches : p \notin ToSet(olist) => n.prog[p] = b.prog[p]
       /\ n.routing = b.routing
  BY <1>7, <1>8, <1>9, ThreadOutputs
<1> HIDE DEF n
<1>11. ASSUME NEW l \in Lines PROVE InChain(n, ilist, l)
  <2> DEFINE here == OnLine(ilist, l)
  <2>1. InChain(a, ilist, l)
    BY <1>3
  <2>2. \A k \in DOMAIN here : n.prog[here[k]] = a.prog[here[k]]
    BY <1>2, <1>7, <1>10, HereFacts
  <2>3. Len(here) \in Nat /\ DOMAIN here = 1 .. Len(here)
    BY <1>2, OnLineFacts
  <2>4. n.routing.in[l] = a.routing.in[l]
    BY <1>7, <1>10
  <2>5. /\ \A k \in DOMAIN here : a.prog[here[k]].rd[l] = IF k = 1 THEN In(l) ELSE a.prog[here[k - 1]].wr[l]
        /\ a.routing.in[l] = IF Len(here) = 0 THEN In(l) ELSE a.prog[here[Len(here)]].wr[l]
    BY <2>1 DEF InChain
  <2> HIDE DEF here
  <2>6. ASSUME NEW k \in DOMAIN here PROVE n.prog[here[k]].rd[l] = IF k = 1 THEN In(l) ELSE n.prog[here[k - 1]].wr[l]
    <3>1. k # 1 => k - 1 \in DOMAIN here
      BY <2>3
    <3>2. QED
      BY <2>2, <2>5, <3>1
  <2>7. n.routing.in[l] = IF Len(here) = 0 THEN In(l) ELSE n.prog[here[Len(here)]].wr[l]
    <3>1. Len(here) # 0 => Len(here) \in DOMAIN here
      BY <2>3
    <3>2. QED
      BY <2>2, <2>4, <2>5, <3>1
  <2>8. QED
    BY <2>6, <2>7 DEF InChain, here
<1>12. QED
  BY <1>1, <1>10, <1>11

\* A bank with no third IO gpr of any line.
Pairs(b) == \A l \in Lines : Cardinality({g \in Gprs : b.usage[g] > 0 /\ b.line[g] = l}) <= 2

LEMMA PairsIs ==
    ASSUME NEW b \in Banks, Table(b)
    PROVE  Pairs(b)
<1>1. ASSUME NEW l \in Lines PROVE Cardinality({g \in Gprs : b.usage[g] > 0 /\ b.line[g] = l}) <= 2
  <2> DEFINE S == {g \in Gprs : b.usage[g] > 0 /\ b.line[g] = l}
             f == b.io[l]
             T == {f[1], f[2]}
  <2>1. S \subseteq T
    BY DEF Table
  <2>2. IsFiniteSet({f[1]}) /\ Cardinality({f[1]}) = 1
    BY FS_Singleton
  <2>3. IsFiniteSet(T) /\ Cardinality(T) <= 2
    <3>1. T = {f[1]} \cup {f[2]}
      OBVIOUS
    <3> HIDE DEF f
    <3>2. QED
      BY <2>2, <3>1, FS_AddElement
  <2> HIDE DEF S, T
  <2>4. Cardinality(S) <= 2
    <3>1. IsFiniteSet(S) /\ Cardinality(S) <= Cardinality(T) /\ Cardinality(S) \in Nat /\ Cardinality(T) \in Nat
      BY <2>1, <2>3, FS_Subset, FS_CardinalityType
    <3>2. QED
      BY <2>3, <3>1
  <2>5. QED
    BY <2>4 DEF S
<1>2. QED
  BY <1>1 DEF Pairs

\* The patches of the lines are threaded together, from the input line and to the output line.
Chained(m, il, ol) ==
    \A l \in Lines :
       /\ \A k \in DOMAIN OnLine(il, l) :
             m.prog[OnLine(il, l)[k]].rd[l] = IF k = 1 THEN In(l) ELSE m.prog[OnLine(il, l)[k - 1]].wr[l]
       /\ \A k \in DOMAIN OnLine(ol, l) :
             /\ k # 1 => m.prog[OnLine(ol, l)[k]].rd[l] = m.prog[OnLine(ol, l)[k - 1]].wr[l]
             /\ k = Len(OnLine(ol, l)) => m.prog[OnLine(ol, l)[k]].wr[l] = Out(l)

\* The records of the driver have all that Sound() is about.
LEMMA SavedIs ==
    ASSUME NEW il, NEW ol, Apart(il, ol), NEW m, Sound(m, il, ol), Table(m.bank),
           \A l \in Lines : InChain(m, il, l) /\ OutChain(m, ol, l)
    PROVE  Sound(Saved(m), il, ol) /\ Pairs(Saved(m).bank) /\ Chained(Saved(m), il, ol)
<1> DEFINE n == Saved(m)
           none == [l \in Lines |-> None]
<1>1. m \in Mgrs /\ Counted(m)
  BY DEF Sound
<1>2. /\ m.bank \in Banks /\ m.routing \in Routings /\ m.prog \in [Patches -> Progs]
      /\ \A p \in Patches : m.prog[p] \in Progs
  BY <1>1, MgrFacts
<1>3. /\ n = [bank |-> n.bank, prog |-> n.prog, routing |-> n.routing]
      /\ n.bank = [m.bank EXCEPT !.io = NoBank.io]
      /\ n.prog = [p \in Patches |-> [m.prog[p] EXCEPT !.in = none, !.out = none]]
      /\ n.routing = [m.routing EXCEPT !.in = none, !.out = none]
  BY DEF Saved, NoProg, NoRouting
<1>4. none \in [Lines -> Operands]
  BY OperandTypes
<1> HIDE DEF n, none
<1>5. /\ n.bank \in Banks /\ n.bank.usage = m.bank.usage /\ n.bank.line = m.bank.line
  <2>1. NoBank.io \in [Lines -> [1 .. 2 -> Gprs \cup {-1}]]
    BY DEF NoBank
  <2> DEFINE io == NoBank.io
  <2>2. m.bank = [usage |-> m.bank.usage, line |-> m.bank.line, io |-> m.bank.io]
        /\ m.bank.usage \in [Gprs -> Nat] /\ m.bank.line \in [Gprs -> Lines]
    BY <1>2, BankFacts
  <2>3. n.bank = [m.bank EXCEPT !.io = io]
    BY Zenon, <1>3
  <2> HIDE DEF io
  <2>4. n.bank = [usage |-> m.bank.usage, line |-> m.bank.line, io |-> io]
    BY <2>2, <2>3
  <2>5. QED
    BY <2>1, <2>2, <2>4 DEF Banks, io
<1>6. ASSUME NEW p \in Patches
      PROVE  /\ n.prog[p] \in Progs /\ n.prog[p].used = m.prog[p].used /\ n.prog[p].input = m.prog[p].input
             /\ n.prog[p].rd = m.prog[p].rd /\ n.prog[p].wr = m.prog[p].wr
  <2> DEFINE t == m.prog[p]
             v == n.prog[p]
  <2>1. v = [t EXCEPT !.in = none, !.out = none]
    BY Zenon, <1>3
  <2>2. t \in Progs
    BY <1>2
  <2> HIDE DEF t, v
  <2>3. v = [used |-> t.used, input |-> t.input, in |-> none, out |-> none, rd |-> t.rd, wr |-> t.wr]
    <3>1. t = [used |-> t.used, input |-> t.input, in |-> t.in, out |-> t.out, rd |-> t.rd, wr |-> t.wr]
      BY <2>2, ProgFacts
    <3>2. QED
      BY <2>1, <3>1
  <2>4. v \in Progs
    BY <1>4, <2>2, <2>3, ProgFacts DEF Progs
  <2>5. QED
    BY <2>3, <2>4 DEF t, v
<1>7. n.routing \in Routings /\ n.routing.used = m.routing.used
  <2>1. n.routing = [used |-> m.routing.used, in |-> none, out |-> none, code |-> m.routing.code]
    <3>1. m.routing = [used |-> m.routing.used, in |-> m.routing.in, out |-> m.routing.out, code |-> m.routing.code]
      BY <1>2, RoutingFacts
    <3>2. QED
      BY Zenon, <1>3, <3>1
  <2>2. QED
    BY <1>2, <1>4, <2>1, RoutingFacts DEF Routings
<1>8. n \in Mgrs
  <2>1. n.prog \in [Patches -> Progs]
    <3>1. DOMAIN n.prog = Patches /\ n.prog = [p \in Patches |-> n.prog[p]]
      BY Zenon, <1>3
    <3>2. QED
      BY <1>6, <3>1
  <2>2. QED
    BY Zenon, <1>3, <1>5, <1>7, <2>1 DEF Mgrs
<1>9. Counted(n)
  <2>1. ASSUME NEW g \in Gprs PROVE {p \in Patches : g \in n.prog[p].used} = {p \in Patches : g \in m.prog[p].used}
    BY <1>6
  <2>2. QED
    BY <1>1, <1>5, <1>7, <2>1 DEF Counted
<1>10. /\ ToSet(il) \in SUBSET Patches /\ ToSet(ol) \in SUBSET Patches /\ il \in Seq(Patches) /\ ol \in Seq(Patches)
  BY ApartFacts
<1>11. ASSUME NEW p \in ToSet(il) \cup ToSet(ol) PROVE Whole(n.bank, p, n.prog[p])
  <2>1. p \in Patches /\ Whole(m.bank, p, m.prog[p])
    BY <1>10 DEF Sound
  <2>2. QED
    BY <1>5, <1>6, <2>1 DEF Whole, AtLine
<1>12. OutLast(n, ol)
  <2>1. ASSUME NEW l \in Lines, NEW k \in DOMAIN OnLine(ol, l), k < Len(OnLine(ol, l))
        PROVE  n.prog[OnLine(ol, l)[k]].wr[l] \in GprOps
    <3>1. OnLine(ol, l)[k] \in Patches
      BY <1>10, HereFacts
    <3>2. QED
      BY <1>6, <2>1, <3>1 DEF Sound, OutLast
  <2>2. QED
    BY <2>1 DEF OutLast
<1>13. /\ \A p \in Patches : p \notin ToSet(il) \cup ToSet(ol) => n.prog[p].used = {}
       /\ \A p \in ToSet(il) : \A l \in LinesOf[p] : n.prog[p].wr[l] \in GprOps
       /\ \A p \in ToSet(ol) : \A l \in LinesOf[p] : n.prog[p].rd[l] \in GprOps
  BY <1>6, <1>10 DEF Sound
<1>14. Sound(n, il, ol)
  BY <1>8, <1>9, <1>11, <1>12, <1>13 DEF Sound
<1>15. Pairs(n.bank)
  BY <1>2, <1>5, PairsIs DEF Pairs
<1>16. ASSUME NEW l \in Lines, NEW k \in DOMAIN OnLine(il, l)
       PROVE  n.prog[OnLine(il, l)[k]].rd[l] = IF k = 1 THEN In(l) ELSE n.prog[OnLine(il, l)[k - 1]].wr[l]
  <2> DEFINE here == OnLine(il, l)
  <2>1. here[k] \in Patches /\ (k # 1 => here[k - 1] \in Patches)
    <3>1. k # 1 => k - 1 \in DOMAIN here
      BY <1>10, OnLineFacts
    <3>2. QED
      BY <1>10, <3>1, HereFacts
  <2>2. m.prog[here[k]].rd[l] = IF k = 1 THEN In(l) ELSE m.prog[here[k - 1]].wr[l]
    BY DEF InChain
  <2> HIDE DEF here
  <2>3. n.prog[here[k]].rd[l] = IF k = 1 THEN In(l) ELSE n.prog[here[k - 1]].wr[l]
    BY <1>6, <2>1, <2>2
  <2>4. QED
    BY <2>3 DEF here
<1>17. ASSUME NEW l \in Lines, NEW k \in DOMAIN OnLine(ol, l)
       PROVE  /\ k # 1 => n.prog[OnLine(ol, l)[k]].rd[l] = n.prog[OnLine(ol, l)[k - 1]].wr[l]
              /\ k = Len(OnLine(ol, l)) => n.prog[OnLine(ol, l)[k]].wr[l] = Out(l)
  <2> DEFINE here == OnLine(ol, l)
  <2>1. here[k] \in Patches /\ (k # 1 => here[k - 1] \in Patches)
    <3>1. k # 1 => k - 1 \in DOMAIN here
      BY <1>10, OnLineFacts
    <3>2. QED
      BY <1>10, <3>1, HereFacts
  <2>2. /\ m.prog[here[k]].rd[l] = IF k = 1 THEN m.routing.out[l] ELSE m.prog[here[k - 1]].wr[l]
        /\ k = Len(here) => m.prog[here[k]].wr[l] = Out(l)
    BY DEF OutChain
  <2> HIDE DEF here
  <2>3. /\ k # 1 => n.prog[here[k]].rd[l] = n.prog[here[k - 1]].wr[l]
        /\ k = Len(here) => n.prog[here[k]].wr[l] = Out(l)
    BY <1>6, <2>1, <2>2
  <2>4. QED
    BY <2>3 DEF here
<1>18. Chained(n, il, ol)
  BY <1>16, <1>17 DEF Chained
<1>19. QED
  BY <1>14, <1>15, <1>18 DEF n

-----------------------------------------------------------------------------
(* What dsp_init() reads back.                                             *)

\* determine_io() finds what a program reads and writes, and changes nothing else.
Determined(p, t, v) ==
    /\ v \in Progs /\ v.used = t.used /\ v.input = t.input /\ v.rd = t.rd /\ v.wr = t.wr
    /\ \A l \in LinesOf[p] : v.in[l] = t.rd[l] /\ v.out[l] = t.wr[l]

LEMMA ReadsIs ==
    ASSUME NEW p \in Patches, NEW b \in Banks, Table(b), NEW t \in Progs, Whole(b, p, t), \A g \in t.used : b.usage[g] > 0,
           NEW l \in LinesOf[p]
    PROVE  Reads(b, t, l) = t.rd[l] /\ Writes(b, t, l) = t.wr[l]
<1> DEFINE h == b.io[l][1]
           k == b.io[l][2]
<1>1. AtLine(b, t, l) /\ t.input \subseteq t.used /\ t.used \in SUBSET Gprs /\ l \in Lines
  BY ProgFacts, Sizes DEF Whole
<1>2. h \in Gprs \cup {-1} /\ k \in Gprs \cup {-1} /\ -1 \notin Gprs
  BY <1>1, BankFacts, Sizes
<1>3. /\ h \in Gprs => b.usage[h] > 0 /\ b.line[h] = l /\ h # k
      /\ k \in Gprs => b.usage[k] > 0 /\ b.line[k] = l
  BY <1>1, <1>2 DEF Table
<1>4. \A g \in t.used : b.line[g] = l => g \in {h, k}
  <2>1. ASSUME NEW g \in t.used, b.line[g] = l PROVE g \in {h, k}
    <3>1. PICK j \in 1 .. 2 : b.io[b.line[g]][j] = g
      BY <1>1 DEF Table
    <3>2. QED
      BY <2>1, <3>1
  <2>2. QED
    BY <2>1
<1>5. \A g \in Gprs : /\ g \in t.used /\ b.line[g] = l <=> Gpr(g) \in {t.rd[l], t.wr[l]}
                      /\ g \in t.input /\ b.line[g] = l <=> Gpr(g) = t.rd[l]
  BY <1>1 DEF AtLine
<1>6. t.rd[l] \in {In(l)} \cup GprOps /\ t.wr[l] \in {Out(l)} \cup GprOps /\ t.rd[l] # t.wr[l]
  BY <1>1 DEF AtLine
<1> HIDE DEF h, k
<1>7. /\ h \in t.input <=> h \in Gprs /\ Gpr(h) = t.rd[l]
      /\ k \in t.input <=> k \in Gprs /\ Gpr(k) = t.rd[l]
      /\ h \in t.used \ t.input <=> h \in Gprs /\ Gpr(h) = t.wr[l]
      /\ k \in t.used \ t.input <=> k \in Gprs /\ Gpr(k) = t.wr[l]
  BY <1>1, <1>3, <1>5, <1>6
<1>8. ASSUME NEW g \in Gprs, Gpr(g) \in {t.rd[l], t.wr[l]} PROVE g = h \/ g = k
  BY <1>4, <1>5, <1>8
<1>9. Reads(b, t, l) = t.rd[l]
  <2>1. Reads(b, t, l) = IF h \in t.input THEN Gpr(h) ELSE IF k \in t.input THEN Gpr(k)
                         ELSE IF In(l) \in {t.rd[l], t.wr[l]} THEN In(l) ELSE None
    <3>1. ToSet(<<t.rd[l], t.wr[l]>>) = {t.rd[l], t.wr[l]}
      BY DEF ToSet
    <3>2. QED
      BY <3>1 DEF Reads, h, k
  <2>2. CASE t.rd[l] \in GprOps
    <3>1. PICK g \in Gprs : t.rd[l] = Gpr(g)
      BY <2>2 DEF GprOps
    <3>2. g = h \/ g = k
      BY <1>8, <3>1
    <3>3. QED
      BY <1>7, <2>1, <3>1, <3>2
  <2>3. CASE t.rd[l] = In(l)
    <3>1. h \notin t.input /\ k \notin t.input
      BY <1>7, <2>3, OperandFacts
    <3>2. QED
      BY <2>1, <2>3, <3>1
  <2>4. QED
    BY <1>6, <2>2, <2>3
<1>10. Writes(b, t, l) = t.wr[l]
  <2>1. Writes(b, t, l) = IF h \in t.used \ t.input THEN Gpr(h) ELSE IF k \in t.used \ t.input THEN Gpr(k)
                          ELSE IF Out(l) \in {t.rd[l], t.wr[l]} THEN Out(l) ELSE None
    <3>1. ToSet(<<t.rd[l], t.wr[l]>>) = {t.rd[l], t.wr[l]}
      BY DEF ToSet
    <3>2. QED
      BY <3>1 DEF Writes, h, k
  <2>2. CASE t.wr[l] \in GprOps
    <3>1. PICK g \in Gprs : t.wr[l] = Gpr(g)
      BY <2>2 DEF GprOps
    <3>2. g = h \/ g = k
      BY <1>8, <3>1
    <3>3. QED
      BY <1>7, <2>1, <3>1, <3>2
  <2>3. CASE t.wr[l] = Out(l)
    <3>1. h \notin t.used \ t.input /\ k \notin t.used \ t.input
      BY <1>7, <2>3, OperandFacts
    <3>2. QED
      BY <2>1, <2>3, <3>1
  <2>4. QED
    BY <1>6, <2>2, <2>3
<1>11. QED
  BY <1>9, <1>10

LEMMA DetermineIs ==
    ASSUME NEW p \in Patches, NEW b \in Banks, Table(b), NEW t \in Progs, Whole(b, p, t), \A g \in t.used : b.usage[g] > 0
    PROVE  Determined(p, t, DetermineIo(b, p, t))
<1> DEFINE in == [l \in Lines |-> IF l \in LinesOf[p] THEN Reads(b, t, l) ELSE None]
           out == [l \in Lines |-> IF l \in LinesOf[p] THEN Writes(b, t, l) ELSE None]
           v == DetermineIo(b, p, t)
<1>1. v = [t EXCEPT !.in = in, !.out = out]
  BY DEF DetermineIo
<1>2. \A l \in LinesOf[p] : l \in Lines /\ Reads(b, t, l) = t.rd[l] /\ Writes(b, t, l) = t.wr[l]
  BY ReadsIs, Sizes
<1>3. /\ t = [used |-> t.used, input |-> t.input, in |-> t.in, out |-> t.out, rd |-> t.rd, wr |-> t.wr]
      /\ t.rd \in [Lines -> Operands] /\ t.wr \in [Lines -> Operands]
  BY ProgFacts
<1>4. in \in [Lines -> Operands] /\ out \in [Lines -> Operands]
  BY <1>2, <1>3, OperandTypes
<1>5. \A l \in LinesOf[p] : in[l] = t.rd[l] /\ out[l] = t.wr[l]
  BY <1>2
<1> HIDE DEF in, out, v
<1>6. v = [used |-> t.used, input |-> t.input, in |-> in, out |-> out, rd |-> t.rd, wr |-> t.wr]
  BY <1>1, <1>3
<1>7. v \in Progs
  BY <1>3, <1>4, <1>6, ProgFacts DEF Progs
<1>8. Determined(p, t, v)
  BY <1>5, <1>6, <1>7 DEF Determined
<1>9. QED
  BY <1>8 DEF v

\* The table that is read back.
LEMMA IoTableIs ==
    ASSUME NEW b \in Banks, Pairs(b), NEW c, c = [b EXCEPT !.io = IoTable(b)]
    PROVE  c \in Banks /\ Table(c) /\ c.usage = b.usage /\ c.line = b.line
<1> DEFINE S(l) == {g \in Gprs : b.usage[g] > 0 /\ b.line[g] = l}
           gs(l) == Ascending(S(l))
<1>1. \A l \in Lines : \A s \in 1 .. 2 : IoTable(b)[l][s] = IF s <= Len(gs(l)) THEN gs(l)[s] ELSE -1
  BY DEF IoTable
<1>2. ASSUME NEW l \in Lines
      PROVE  /\ ToSet(gs(l)) = S(l) /\ Distinct(gs(l)) /\ Len(gs(l)) \in 0 .. 2 /\ DOMAIN gs(l) = 1 .. Len(gs(l))
  <2> DEFINE s == gs(l)
  <2>1. /\ s \in Seq(Gprs) /\ ToSet(s) = S(l) /\ Distinct(s) /\ Len(s) \in Nat /\ DOMAIN s = 1 .. Len(s)
    <3>1. S(l) \in SUBSET Gprs
      OBVIOUS
    <3> HIDE DEF S
    <3>2. QED
      BY <3>1, AscendingFacts
  <2>2. Cardinality(S(l)) <= 2
    BY DEF Pairs
  <2> HIDE DEF S, s
  <2>3. Cardinality(ToSet(s)) = Len(s)
    BY <2>1, DistinctLength
  <2>4. Len(s) \in 0 .. 2
    BY <2>1, <2>2, <2>3
  <2>5. QED
    BY <2>1, <2>4 DEF s
<1>3. \A l \in Lines : DOMAIN IoTable(b)[l] = 1 .. 2
  BY DEF IoTable
<1>4. \A g, l : g \in S(l) <=> g \in Gprs /\ b.usage[g] > 0 /\ b.line[g] = l
  OBVIOUS
<1>5. DOMAIN IoTable(b) = Lines /\ IoTable(b) = [l \in Lines |-> IoTable(b)[l]]
       /\ \A l \in Lines : IoTable(b)[l] = [s \in 1 .. 2 |-> IoTable(b)[l][s]]
  BY DEF IoTable
<1> HIDE DEF gs, S
<1> DEFINE io == IoTable(b)
<1>6. ASSUME NEW l \in Lines, NEW s \in 1 .. 2
      PROVE  /\ s <= Len(gs(l)) => io[l][s] \in S(l) /\ io[l][s] \in Gprs
             /\ ~(s <= Len(gs(l))) => io[l][s] = -1
  <2>1. s <= Len(gs(l)) => gs(l)[s] \in ToSet(gs(l))
    BY <1>2 DEF ToSet
  <2>2. QED
    BY <1>1, <1>2, <1>4, <2>1
<1> HIDE DEF io
<1>7. io \in [Lines -> [1 .. 2 -> Gprs \cup {-1}]]
  <2>1. ASSUME NEW l \in Lines PROVE io[l] \in [1 .. 2 -> Gprs \cup {-1}]
    <3>1. \A s \in 1 .. 2 : io[l][s] \in Gprs \cup {-1}
      BY <1>6
    <3>2. io[l] = [s \in 1 .. 2 |-> io[l][s]]
      BY <1>5 DEF io
    <3>3. QED
      BY <3>1, <3>2
  <2>2. io = [l \in Lines |-> io[l]]
    BY <1>5 DEF io
  <2>3. QED
    BY <2>1, <2>2
<1>8. /\ b = [usage |-> b.usage, line |-> b.line, io |-> b.io]
      /\ b.usage \in [Gprs -> Nat] /\ b.line \in [Gprs -> Lines]
      /\ \A g \in Gprs : b.usage[g] \in Nat /\ b.line[g] \in Lines
  BY BankFacts
<1>9. c = [usage |-> b.usage, line |-> b.line, io |-> io]
  BY <1>8 DEF io
<1>10. c.usage = b.usage /\ c.line = b.line /\ c.io = io /\ c \in Banks
  BY <1>7, <1>8, <1>9 DEF Banks
<1>11. ASSUME NEW g \in Gprs, b.usage[g] > 0 PROVE \E k \in 1 .. 2 : io[b.line[g]][k] = g
  <2> DEFINE l == b.line[g]
             s == gs(l)
  <2>1. l \in Lines /\ g \in S(l)
    BY <1>8, <1>11, <1>4
  <2> HIDE DEF l
  <2>2. PICK k \in 1 .. Len(s) : s[k] = g
    BY <1>2, <2>1 DEF ToSet
  <2>3. k \in 1 .. 2 /\ k <= Len(s)
    BY <1>2, <2>1, <2>2
  <2>4. io[l][k] = g
    BY <1>1, <2>1, <2>2, <2>3 DEF io
  <2>5. QED
    BY <2>3, <2>4 DEF l
<1>12. ASSUME NEW l \in Lines, NEW k \in 1 .. 2, io[l][k] # -1 PROVE b.usage[io[l][k]] > 0 /\ b.line[io[l][k]] = l
  BY <1>6, <1>12, <1>4
<1>13. ASSUME NEW l \in Lines, io[l][1] # -1 PROVE io[l][1] # io[l][2]
  <2>1. io[l][1] \in Gprs
    BY <1>6, <1>13
  <2>2. CASE 2 <= Len(gs(l))
    <3>1. 1 \in DOMAIN gs(l) /\ 2 \in DOMAIN gs(l) /\ 1 <= Len(gs(l))
      BY <1>2, <2>2
    <3>2. gs(l)[1] # gs(l)[2]
      BY <1>2, <3>1 DEF Distinct
    <3>3. QED
      BY <1>1, <2>2, <3>1, <3>2 DEF io
  <2>3. CASE ~(2 <= Len(gs(l)))
    BY <1>6, <2>1, <2>3, Sizes
  <2>4. QED
    BY <2>2, <2>3
<1>14. Table(c)
  BY <1>10, <1>11, <1>12, <1>13 DEF Table
<1>15. QED
  BY <1>10, <1>14

LEMMA NoProgIs == NoProg \in Progs /\ NoProg.used = {}
<1> DEFINE none == [l \in Lines |-> None]
<1>1. NoProg = [used |-> {}, input |-> {}, in |-> none, out |-> none, rd |-> none, wr |-> none]
  BY DEF NoProg
<1>2. none \in [Lines -> Operands]
  BY OperandTypes
<1> HIDE DEF none
<1>3. QED
  BY <1>1, <1>2 DEF Progs

\* The programs of the lists are the same, but for what the library knows of them.
SameCode(m, n, il, ol) ==
    \A p \in ToSet(il) \cup ToSet(ol) :
        /\ n.prog[p].used = m.prog[p].used /\ n.prog[p].input = m.prog[p].input
        /\ n.prog[p].rd = m.prog[p].rd /\ n.prog[p].wr = m.prog[p].wr

\* The next process finds everything again.
LEMMA ReadBackIs ==
    ASSUME NEW il, NEW ol, Apart(il, ol), NEW m, Sound(m, il, ol), Pairs(m.bank)
    PROVE  LET n == ReadBack(m, il \o ol)
           IN Sound(n, il, ol) /\ Table(n.bank) /\ AllKnown(n, il, ol) /\ SameCode(m, n, il, ol)
<1> DEFINE n == ReadBack(m, il \o ol)
           b == [m.bank EXCEPT !.io = IoTable(m.bank)]
           All == ToSet(il) \cup ToSet(ol)
<1>1. /\ il \in Seq(Patches) /\ ol \in Seq(Patches) /\ All \in SUBSET Patches
      /\ ToSet(il) \in SUBSET Patches /\ ToSet(ol) \in SUBSET Patches
  BY ApartFacts
<1>2. ToSet(il \o ol) = All
  BY <1>1, Joined
<1>3. m \in Mgrs /\ Counted(m)
  BY DEF Sound
<1>4. /\ m.bank \in Banks /\ m.routing \in Routings /\ m.prog \in [Patches -> Progs]
      /\ m = [bank |-> m.bank, prog |-> m.prog, routing |-> m.routing]
      /\ \A p \in Patches : m.prog[p] \in Progs
  BY <1>3, MgrFacts
<1>5. b \in Banks /\ Table(b) /\ b.usage = m.bank.usage /\ b.line = m.bank.line
  BY <1>4, IoTableIs
<1>6. n = [m EXCEPT !.bank = b, !.prog = [p \in Patches |-> IF p \in All THEN DetermineIo(b, p, m.prog[p]) ELSE NoProg]]
  BY <1>2 DEF ReadBack
<1> HIDE DEF b, n
<1> DEFINE prog == [p \in Patches |-> IF p \in All THEN DetermineIo(b, p, m.prog[p]) ELSE NoProg]
<1>7. n = [bank |-> b, prog |-> prog, routing |-> m.routing]
  BY <1>4, <1>6
<1>8. \A p \in Patches : prog[p] = IF p \in All THEN DetermineIo(b, p, m.prog[p]) ELSE NoProg
  OBVIOUS
<1>9. DOMAIN prog = Patches /\ prog = [p \in Patches |-> prog[p]]
  OBVIOUS
<1> HIDE DEF prog
<1>10. n.bank = b /\ n.prog = prog /\ n.routing = m.routing
  BY <1>7
<1>11. \A p \in Patches : \A g \in m.prog[p].used : g \in Gprs /\ m.bank.usage[g] > 0
  BY <1>3, InUse
<1>12. ASSUME NEW p \in All PROVE Determined(p, m.prog[p], prog[p]) /\ Whole(b, p, m.prog[p])
  <2> DEFINE t == m.prog[p]
  <2>1. p \in Patches /\ t \in Progs /\ Whole(m.bank, p, t)
    BY <1>1, <1>4 DEF Sound
  <2>2. \A g \in t.used : b.usage[g] > 0 /\ b.line[g] = m.bank.line[g]
    BY <1>5, <1>11, <2>1
  <2>3. prog[p] = DetermineIo(b, p, t)
    BY <1>8, <2>1
  <2> HIDE DEF t
  <2>4. Whole(b, p, t)
    BY <2>1, <2>2, WholeElsewhere
  <2>5. Determined(p, t, prog[p])
    BY <1>5, <2>1, <2>2, <2>3, <2>4, DetermineIs
  <2>6. QED
    BY <2>4, <2>5 DEF t
<1>13. ASSUME NEW p \in All
       PROVE  /\ prog[p] \in Progs /\ prog[p].used = m.prog[p].used /\ prog[p].input = m.prog[p].input
              /\ prog[p].rd = m.prog[p].rd /\ prog[p].wr = m.prog[p].wr
              /\ \A l \in LinesOf[p] : prog[p].in[l] = m.prog[p].rd[l] /\ prog[p].out[l] = m.prog[p].wr[l]
  BY <1>12 DEF Determined
<1>14. ASSUME NEW p \in Patches, p \notin All PROVE prog[p] \in Progs /\ prog[p].used = {} /\ m.prog[p].used = {}
  BY <1>8, <1>14, NoProgIs DEF Sound
<1>15. prog \in [Patches -> Progs]
  <2>1. \A p \in Patches : prog[p] \in Progs
    BY <1>13, <1>14
  <2>2. QED
    BY <1>9, <2>1
<1>16. n \in Mgrs
  BY <1>4, <1>5, <1>7, <1>15 DEF Mgrs
<1>17. Counted(n)
  <2>1. \A p \in Patches : prog[p].used = m.prog[p].used
    BY <1>13, <1>14
  <2>2. ASSUME NEW g PROVE {p \in Patches : g \in prog[p].used} = {p \in Patches : g \in m.prog[p].used}
    BY <2>1
  <2>3. QED
    BY <1>3, <1>5, <1>10, <2>2 DEF Counted
<1>18. ASSUME NEW p \in All PROVE Whole(b, p, prog[p])
  BY <1>12, <1>13 DEF Whole, AtLine
<1>20. OutLast(n, ol)
  <2>1. ASSUME NEW l \in Lines, NEW k \in DOMAIN OnLine(ol, l), k < Len(OnLine(ol, l))
        PROVE  prog[OnLine(ol, l)[k]].wr[l] \in GprOps
    <3>1. OnLine(ol, l)[k] \in All
      BY <1>1, HereFacts
    <3>2. m.prog[OnLine(ol, l)[k]].wr[l] \in GprOps
      BY <2>1 DEF Sound, OutLast
    <3>3. QED
      BY <1>13, <3>1, <3>2
  <2>2. QED
    BY <1>10, <2>1 DEF OutLast
<1>21. /\ \A p \in ToSet(il) : \A l \in LinesOf[p] : prog[p].wr[l] \in GprOps
       /\ \A p \in ToSet(ol) : \A l \in LinesOf[p] : prog[p].rd[l] \in GprOps
  BY <1>13 DEF Sound
<1>22. Sound(n, il, ol)
  BY <1>10, <1>14, <1>16, <1>17, <1>18, <1>20, <1>21 DEF Sound
<1>23. AllKnown(n, il, ol) /\ SameCode(m, n, il, ol)
  BY <1>10, <1>13 DEF AllKnown, Known, SameCode
<1>24. QED
  BY <1>5, <1>10, <1>22, <1>23 DEF n

-----------------------------------------------------------------------------
(* A list that changes.                                                    *)

\* Two elements of a list without repetition come in one order only.
LEMMA HereOrder ==
    ASSUME NEW list \in Seq(Patches), Distinct(list), NEW l, NEW a \in DOMAIN list, NEW b \in DOMAIN list, a < b,
           l \in LinesOf[list[a]], l \in LinesOf[list[b]]
    PROVE  \E i, j \in DOMAIN OnLine(list, l) : i < j /\ OnLine(list, l)[i] = list[a] /\ OnLine(list, l)[j] = list[b]
<1> DEFINE here == OnLine(list, l)
<1>1. /\ here \in Seq(Patches) /\ ToSet(here) = {p \in ToSet(list) : l \in LinesOf[p]}
      /\ Len(here) \in Nat /\ DOMAIN here = 1 .. Len(here)
      /\ \A i, j \in DOMAIN here : i < j =>
            \E c, d \in DOMAIN list : c < d /\ list[c] = here[i] /\ list[d] = here[j]
  BY OnLineFacts
<1> HIDE DEF here
<1>2. list[a] \in ToSet(here) /\ list[b] \in ToSet(here)
  BY <1>1 DEF ToSet
<1>3. PICK i \in DOMAIN here : here[i] = list[a]
  BY <1>2 DEF ToSet
<1>4. PICK j \in DOMAIN here : here[j] = list[b]
  BY <1>2 DEF ToSet
<1>5. a \in Int /\ b \in Int
  OBVIOUS
<1>6. i # j
  BY <1>3, <1>4, <1>5 DEF Distinct
<1>7. ~(j < i)
  <2>1. SUFFICES ASSUME j < i PROVE FALSE
    OBVIOUS
  <2>2. PICK c \in DOMAIN list, d \in DOMAIN list : c < d /\ list[c] = here[j] /\ list[d] = here[i]
    BY <1>1, <2>1
  <2>3. c = b /\ d = a
    BY <1>3, <1>4, <2>2 DEF Distinct
  <2>4. QED
    BY <1>5, <2>2, <2>3
<1>8. i < j
  BY <1>1, <1>6, <1>7
<1>9. QED
  BY <1>3, <1>4, <1>8 DEF here

\* All patches of a line but the last are in G, and so they are in another list where
\* every two patches come in the same order, or the first is in G.
LEMMA LastKept ==
    ASSUME NEW list \in Seq(Patches), Distinct(list), NEW other \in Seq(Patches), NEW l, NEW G,
           \A k \in DOMAIN OnLine(list, l) : k < Len(OnLine(list, l)) => OnLine(list, l)[k] \in G,
           \A a, b \in DOMAIN other : a < b /\ l \in LinesOf[other[a]] =>
               \/ other[a] \in G
               \/ \E c, d \in DOMAIN list : c < d /\ list[c] = other[a] /\ list[d] = other[b]
    PROVE  \A k \in DOMAIN OnLine(other, l) : k < Len(OnLine(other, l)) => OnLine(other, l)[k] \in G
<1> DEFINE here == OnLine(other, l)
           n == Len(here)
<1>1. SUFFICES ASSUME NEW k \in DOMAIN here, k < Len(here) PROVE here[k] \in G
  OBVIOUS
<1>2. /\ Len(here) \in Nat /\ DOMAIN here = 1 .. Len(here)
      /\ \A i, j \in DOMAIN here : i < j =>
            \E c, d \in DOMAIN other : c < d /\ other[c] = here[i] /\ other[d] = here[j]
      /\ \A j \in DOMAIN here : l \in LinesOf[here[j]]
  BY OnLineFacts, HereFacts
<1> HIDE DEF here
<1>3. n \in DOMAIN here /\ k < n
  BY <1>1, <1>2
<1>4. PICK a \in DOMAIN other, b \in DOMAIN other : a < b /\ other[a] = here[k] /\ other[b] = here[n]
  BY <1>1, <1>2, <1>3
<1>5. l \in LinesOf[here[n]] /\ l \in LinesOf[here[k]]
  BY <1>1, <1>2, <1>3
<1>6. CASE other[a] \in G
  BY <1>4, <1>6
<1>7. CASE \E c, d \in DOMAIN list : c < d /\ list[c] = other[a] /\ list[d] = other[b]
  <2>1. PICK c \in DOMAIN list, d \in DOMAIN list : c < d /\ list[c] = other[a] /\ list[d] = other[b]
    BY <1>7
  <2>2. l \in LinesOf[list[c]] /\ l \in LinesOf[list[d]]
    BY <1>4, <1>5, <2>1
  <2>3. PICK i \in DOMAIN OnLine(list, l), j \in DOMAIN OnLine(list, l) :
            i < j /\ OnLine(list, l)[i] = list[c] /\ OnLine(list, l)[j] = list[d]
    BY <2>1, <2>2, HereOrder
  <2>4. DOMAIN OnLine(list, l) = 1 .. Len(OnLine(list, l)) /\ Len(OnLine(list, l)) \in Nat
    BY OnLineFacts
  <2>5. i < Len(OnLine(list, l))
    BY <2>3, <2>4
  <2>6. QED
    BY <1>4, <2>1, <2>3, <2>5
<1>8. QED
  BY <1>4, <1>5, <1>6, <1>7

\* The patches that write a gpr on line l.
Writers(m, l) == {p \in Patches : m.prog[p].wr[l] \in GprOps}

LEMMA LastIs ==
    ASSUME NEW m, NEW ol \in Seq(Patches)
    PROVE  OutLast(m, ol) <=>
               \A l \in Lines : \A k \in DOMAIN OnLine(ol, l) :
                   k < Len(OnLine(ol, l)) => OnLine(ol, l)[k] \in Writers(m, l)
  BY HereFacts DEF OutLast, Writers

\* A list that p has been put to the end of, or in front of.
LEMMA PutOrder ==
    ASSUME NEW s \in Seq(Patches), NEW p \in Patches
    PROVE  /\ \A a, b \in DOMAIN (s \o <<p>>) : a < b =>
                 \/ (s \o <<p>>)[b] = p
                 \/ \E c, d \in DOMAIN s : c < d /\ s[c] = (s \o <<p>>)[a] /\ s[d] = (s \o <<p>>)[b]
           /\ \A a, b \in DOMAIN (<<p>> \o s) : a < b =>
                 \/ (<<p>> \o s)[a] = p
                 \/ \E c, d \in DOMAIN s : c < d /\ s[c] = (<<p>> \o s)[a] /\ s[d] = (<<p>> \o s)[b]
<1> DEFINE e == s \o <<p>>
           f == <<p>> \o s
           N == Len(s)
<1>1. /\ <<p>> \in Seq(Patches) /\ Len(<<p>>) = 1 /\ <<p>>[1] = p /\ 1 .. 1 = {1}
      /\ N \in Nat /\ DOMAIN s = 1 .. N
  OBVIOUS
<1>2. /\ e \in Seq(Patches) /\ Len(e) = N + 1 /\ DOMAIN e = 1 .. N + 1
      /\ \A k \in 1 .. N : e[k] = s[k]
      /\ e[N + 1] = p
  BY <1>1
<1>3. /\ f \in Seq(Patches) /\ Len(f) = N + 1 /\ DOMAIN f = 1 .. N + 1
      /\ f[1] = p
      /\ \A k \in 1 .. N : f[1 + k] = s[k]
  <2>1. /\ f \in Seq(Patches) /\ Len(f) = Len(<<p>>) + N
        /\ \A k \in 1 .. Len(<<p>>) : f[k] = <<p>>[k]
        /\ \A k \in 1 .. N : f[Len(<<p>>) + k] = s[k]
    BY <1>1, Joined
  <2>2. Len(f) = N + 1
    BY <1>1, <2>1
  <2>3. DOMAIN f = 1 .. N + 1
    BY <2>1, <2>2
  <2>4. QED
    BY <1>1, <2>1, <2>2, <2>3
<1> HIDE DEF e, f, N
<1>4. ASSUME NEW a \in DOMAIN e, NEW b \in DOMAIN e, a < b
      PROVE  \/ e[b] = p
             \/ \E c, d \in DOMAIN s : c < d /\ s[c] = e[a] /\ s[d] = e[b]
  <2>1. CASE b = N + 1
    BY <1>2, <2>1
  <2>2. CASE b # N + 1
    <3>1. a \in 1 .. N /\ b \in 1 .. N
      BY <1>1, <1>2, <1>4, <2>2
    <3>2. QED
      BY <1>1, <1>2, <1>4, <3>1
  <2>3. QED
    BY <2>1, <2>2
<1>5. ASSUME NEW a \in DOMAIN f, NEW b \in DOMAIN f, a < b
      PROVE  \/ f[a] = p
             \/ \E c, d \in DOMAIN s : c < d /\ s[c] = f[a] /\ s[d] = f[b]
  <2>1. CASE a = 1
    BY <1>3, <2>1
  <2>2. CASE a # 1
    <3> DEFINE c == a - 1
               d == b - 1
    <3>1. c \in 1 .. N /\ d \in 1 .. N /\ c < d /\ a = 1 + c /\ b = 1 + d
      BY <1>1, <1>3, <1>5, <2>2
    <3> HIDE DEF c, d
    <3>2. s[c] = f[a] /\ s[d] = f[b]
      BY <1>3, <3>1
    <3>3. QED
      BY <1>1, <3>1, <3>2
  <2>3. QED
    BY <2>1, <2>2
<1>6. QED
  BY <1>4, <1>5 DEF e, f

-----------------------------------------------------------------------------
(* A patch that is read from its file: r has the bank b and the program t. *)

\* get_io_gpr() for the gpr to read on line l, and for the one to write.
WithRead(r, l, n) ==
    [b |-> n.b, t |-> [r.t EXCEPT !.used = n.u, !.input = @ \cup {n.g}, !.rd[l] = Gpr(n.g)]]
WithWrite(r, l, n) == [b |-> n.b, t |-> [r.t EXCEPT !.used = n.u, !.wr[l] = Gpr(n.g)]]
ReadStep(r, l) == WithRead(r, l, GetIoGpr(r.b, l, r.t.used))
WriteStep(r, l) == WithWrite(r, l, GetIoGpr(r.b, l, r.t.used))

\* A gpr to read on the lines R, and one to write on the lines W of them; c is the bank
\* before.
Header(c, R, W, r) ==
    /\ r.b \in Banks /\ r.t \in Progs /\ Moves(c, {}, r.b, r.t.used)
    /\ r.t.input \subseteq r.t.used /\ \A g \in r.t.used : r.b.line[g] \in R
    /\ \A l \in R : /\ r.t.rd[l] \in GprOps
                    /\ \A g \in Gprs : g \in r.t.input /\ r.b.line[g] = l <=> Gpr(g) = r.t.rd[l]
    /\ \A l \in R \ W : \A g \in Gprs : g \in r.t.used /\ r.b.line[g] = l <=> Gpr(g) = r.t.rd[l]
    /\ \A l \in W : /\ r.t.wr[l] \in GprOps /\ r.t.rd[l] # r.t.wr[l]
                    /\ \A g \in Gprs : g \in r.t.used /\ r.b.line[g] = l <=> Gpr(g) \in {r.t.rd[l], r.t.wr[l]}

LEMMA NoHeader ==
    ASSUME NEW c \in Banks, Table(c)
    PROVE  Header(c, {}, {}, [b |-> c, t |-> NoProg])
<1> DEFINE t == NoProg
           r == [b |-> c, t |-> t]
<1>1. t \in Progs /\ t.used = {} /\ t.input = {}
  BY NoProgIs DEF NoProg
<1>2. Moves(c, {}, c, {})
  BY DEF Moves
<1> HIDE DEF t
<1>3. r.b = c /\ r.t = t
  OBVIOUS
<1> HIDE DEF r
<1>4. Header(c, {}, {}, r)
  BY <1>1, <1>2, <1>3 DEF Header
<1>5. QED
  BY <1>4 DEF r, t

\* The gpr that the header gets on line l.
LEMMA HeaderGpr ==
    ASSUME NEW c \in Banks, Table(c), NEW R, NEW W, NEW r, Header(c, R, W, r), NEW l \in Lines, l \notin R \/ l \in R \ W
    PROVE  LET n == GetIoGpr(r.b, l, r.t.used)
           IN /\ Moves(c, {}, n.b, n.u) /\ n.b \in Banks /\ n.u = r.t.used \cup {n.g} /\ n.g \in Gprs \ r.t.used
              /\ n.b.line[n.g] = l /\ \A g \in r.t.used : n.b.line[g] = r.b.line[g]
<1> DEFINE b == r.b
           u == r.t.used
           n == GetIoGpr(b, l, u)
<1>1. b \in Banks /\ Moves(c, {}, b, u) /\ Table(b) /\ u \in SUBSET Gprs
  BY DEF Header, Moves
<1>2. b.io[l][1] \notin u \/ b.io[l][2] \notin u
  <2> DEFINE h == b.io[l][1]
             k == b.io[l][2]
  <2>1. SUFFICES ASSUME h \in u, k \in u PROVE FALSE
    OBVIOUS
  <2>2. h \in Gprs /\ k \in Gprs /\ h # -1 /\ k # -1
    BY <1>1, <2>1, Sizes
  <2>3. b.line[h] = l /\ b.line[k] = l /\ h # k
    <3>1. 1 \in 1 .. 2 /\ 2 \in 1 .. 2
      OBVIOUS
    <3>2. QED
      BY <1>1, <2>2, <3>1 DEF Table
  <2> HIDE DEF h, k
  <2>4. l \in R \ W
    BY <2>1, <2>3 DEF Header
  <2>5. Gpr(h) = r.t.rd[l] /\ Gpr(k) = r.t.rd[l]
    BY <2>1, <2>2, <2>3, <2>4 DEF Header
  <2>6. QED
    BY <2>3, <2>5, OperandFacts
<1>3. ASSUME NEW g \in Gprs
      PROVE  b.usage[g] >= c.usage[g] /\ b.usage[g] \in Nat /\ c.usage[g] \in Nat /\ (g \in u => b.usage[g] > 0)
  <2>1. b.usage[g] \in Nat /\ c.usage[g] \in Nat
    BY <1>1, BankFacts
  <2>2. (g \in u => b.usage[g] = c.usage[g] + 1) /\ (g \notin u => b.usage[g] = c.usage[g])
    BY <1>1 DEF Moves
  <2>3. QED
    BY <2>1, <2>2
<1>4. \A g \in u : b.usage[g] > 0
  BY <1>1, <1>3
<1> HIDE DEF b, u, n
<1>5. /\ Moves(b, u, n.b, n.u) /\ n.u = u \cup {n.g} /\ n.g \in Gprs \ u
      /\ n.b.line[n.g] = l /\ \A g \in u : n.b.line[g] = b.line[g]
  BY <1>1, <1>2, <1>4, IoMoves DEF n
<1>6. \A g \in Gprs : c.usage[g] > 0 /\ n.b.usage[g] > 0 => b.usage[g] > 0
  BY <1>3
<1>7. Moves(c, {}, n.b, n.u)
  BY <1>1, <1>5, <1>6, MovesOn
<1>8. n.b \in Banks
  BY <1>5 DEF Moves
<1>9. QED
  BY <1>5, <1>7, <1>8 DEF b, u, n

LEMMA HeaderRead ==
    ASSUME NEW c \in Banks, Table(c), NEW R, NEW r, Header(c, R, {}, r), NEW l \in Lines, l \notin R
    PROVE  Header(c, R \cup {l}, {}, ReadStep(r, l))
<1> DEFINE n == GetIoGpr(r.b, l, r.t.used)
           t == r.t
           x == ReadStep(r, l)
           v == x.t
<1>1. /\ Moves(c, {}, n.b, n.u) /\ n.b \in Banks /\ n.u = t.used \cup {n.g} /\ n.g \in Gprs \ t.used
      /\ n.b.line[n.g] = l /\ \A g \in t.used : n.b.line[g] = r.b.line[g]
  BY HeaderGpr
<1>2. x = [b |-> n.b, t |-> [t EXCEPT !.used = n.u, !.input = @ \cup {n.g}, !.rd[l] = Gpr(n.g)]]
  BY DEF ReadStep, WithRead
<1> HIDE DEF n, x
<1>3. x.b = n.b /\ v = [t EXCEPT !.used = n.u, !.input = @ \cup {n.g}, !.rd[l] = Gpr(n.g)]
  BY <1>2
<1>4. t \in Progs
  BY DEF Header
<1>5. /\ t = [used |-> t.used, input |-> t.input, in |-> t.in, out |-> t.out, rd |-> t.rd, wr |-> t.wr]
      /\ t.used \in SUBSET Gprs /\ t.input \in SUBSET Gprs
      /\ t.in \in [Lines -> Operands] /\ t.out \in [Lines -> Operands]
      /\ t.rd \in [Lines -> Operands] /\ t.wr \in [Lines -> Operands]
  BY <1>4, ProgFacts
<1>6. v = [used |-> n.u, input |-> t.input \cup {n.g}, in |-> t.in, out |-> t.out,
           rd |-> [t.rd EXCEPT ![l] = Gpr(n.g)], wr |-> t.wr]
  <2> HIDE DEF t, v
  <2>1. QED
    BY <1>3, <1>5
<1>7. /\ t.input \subseteq t.used /\ \A g \in t.used : r.b.line[g] \in R
      /\ \A i \in R : /\ t.rd[i] \in GprOps
                      /\ \A g \in Gprs : g \in t.input /\ r.b.line[g] = i <=> Gpr(g) = t.rd[i]
      /\ \A i \in R : \A g \in Gprs : g \in t.used /\ r.b.line[g] = i <=> Gpr(g) = t.rd[i]
  BY DEF Header
<1> HIDE DEF t, v
<1>8. /\ v.used = n.u /\ v.input = t.input \cup {n.g} /\ v.rd[l] = Gpr(n.g)
      /\ \A i : i # l => v.rd[i] = t.rd[i]
  BY <1>5, <1>6
<1>9. v \in Progs
  <2>1. n.u \in SUBSET Gprs /\ t.input \cup {n.g} \in SUBSET Gprs
    BY <1>1, <1>5
  <2>2. [t.rd EXCEPT ![l] = Gpr(n.g)] \in [Lines -> Operands]
    BY <1>1, <1>5, OperandTypes
  <2>3. QED
    BY <1>5, <1>6, <2>1, <2>2 DEF Progs
<1>10. v.input \subseteq v.used
  BY <1>1, <1>7, <1>8
<1>11. \A g \in v.used : n.b.line[g] \in R \cup {l}
  BY <1>1, <1>7, <1>8
<1>12. ASSUME NEW i \in R \cup {l}
       PROVE  /\ v.rd[i] \in GprOps
              /\ \A g \in Gprs : g \in v.input /\ n.b.line[g] = i <=> Gpr(g) = v.rd[i]
              /\ \A g \in Gprs : g \in v.used /\ n.b.line[g] = i <=> Gpr(g) = v.rd[i]
  <2>1. CASE i = l
    <3>1. \A g \in t.used : n.b.line[g] # l
      BY <1>1, <1>7
    <3>2. \A g \in Gprs : Gpr(g) = Gpr(n.g) <=> g = n.g
      BY OperandFacts
    <3>3. QED
      BY <1>1, <1>7, <1>8, <2>1, <3>1, <3>2 DEF GprOps
  <2>2. CASE i # l
    <3>1. i \in R /\ v.rd[i] = t.rd[i] /\ t.rd[i] \in GprOps
      BY <1>7, <1>8, <2>2
    <3>2. ASSUME NEW g \in Gprs
          PROVE  /\ g \in v.input /\ n.b.line[g] = i <=> Gpr(g) = v.rd[i]
                 /\ g \in v.used /\ n.b.line[g] = i <=> Gpr(g) = v.rd[i]
      <4>1. CASE g = n.g
        <5>1. ~(Gpr(g) = t.rd[i])
          BY <1>1, <1>7, <3>1, <4>1
        <5>2. QED
          BY <1>1, <2>2, <3>1, <4>1, <5>1
      <4>2. CASE g # n.g
        <5>1. (g \in v.input <=> g \in t.input) /\ (g \in v.used <=> g \in t.used)
          BY <1>1, <1>8, <4>2
        <5>2. g \in t.used => n.b.line[g] = r.b.line[g]
          BY <1>1
        <5>3. QED
          BY <1>7, <3>1, <5>1, <5>2
      <4>3. QED
        BY <4>1, <4>2
    <3>3. QED
      BY <3>1, <3>2
  <2>3. QED
    BY <2>1, <2>2
<1>13. Header(c, R \cup {l}, {}, x)
  BY <1>1, <1>3, <1>8, <1>9, <1>10, <1>11, <1>12 DEF Header, v
<1>14. QED
  BY <1>13 DEF x

LEMMA HeaderWrite ==
    ASSUME NEW c \in Banks, Table(c), NEW R \in SUBSET Lines, NEW W, NEW r, Header(c, R, W, r), NEW l \in R \ W
    PROVE  Header(c, R, W \cup {l}, WriteStep(r, l))
<1> DEFINE n == GetIoGpr(r.b, l, r.t.used)
           t == r.t
           x == WriteStep(r, l)
           v == x.t
<1>1. /\ Moves(c, {}, n.b, n.u) /\ n.b \in Banks /\ n.u = t.used \cup {n.g} /\ n.g \in Gprs \ t.used
      /\ n.b.line[n.g] = l /\ \A g \in t.used : n.b.line[g] = r.b.line[g]
  <2>1. l \in Lines
    OBVIOUS
  <2>2. QED
    BY <2>1, HeaderGpr
<1>2. x = [b |-> n.b, t |-> [t EXCEPT !.used = n.u, !.wr[l] = Gpr(n.g)]]
  BY DEF WriteStep, WithWrite
<1> HIDE DEF n, x
<1>3. x.b = n.b /\ v = [t EXCEPT !.used = n.u, !.wr[l] = Gpr(n.g)]
  BY <1>2
<1>4. t \in Progs
  BY DEF Header
<1>5. /\ t = [used |-> t.used, input |-> t.input, in |-> t.in, out |-> t.out, rd |-> t.rd, wr |-> t.wr]
      /\ t.used \in SUBSET Gprs /\ t.input \in SUBSET Gprs
      /\ t.in \in [Lines -> Operands] /\ t.out \in [Lines -> Operands]
      /\ t.rd \in [Lines -> Operands] /\ t.wr \in [Lines -> Operands]
  BY <1>4, ProgFacts
<1>6. v = [used |-> n.u, input |-> t.input, in |-> t.in, out |-> t.out,
           rd |-> t.rd, wr |-> [t.wr EXCEPT ![l] = Gpr(n.g)]]
  <2> HIDE DEF t, v
  <2>1. QED
    BY <1>3, <1>5
<1>7. /\ t.input \subseteq t.used /\ \A g \in t.used : r.b.line[g] \in R
      /\ \A i \in R : /\ t.rd[i] \in GprOps
                      /\ \A g \in Gprs : g \in t.input /\ r.b.line[g] = i <=> Gpr(g) = t.rd[i]
      /\ \A i \in R \ W : \A g \in Gprs : g \in t.used /\ r.b.line[g] = i <=> Gpr(g) = t.rd[i]
      /\ \A i \in W : /\ t.wr[i] \in GprOps /\ t.rd[i] # t.wr[i]
                      /\ \A g \in Gprs : g \in t.used /\ r.b.line[g] = i <=> Gpr(g) \in {t.rd[i], t.wr[i]}
  BY DEF Header
<1> HIDE DEF t, v
<1>8. /\ v.used = n.u /\ v.input = t.input /\ v.rd = t.rd /\ v.wr[l] = Gpr(n.g)
      /\ \A i : i # l => v.wr[i] = t.wr[i]
  BY <1>5, <1>6
<1>9. v \in Progs
  <2>1. n.u \in SUBSET Gprs
    BY <1>1, <1>5
  <2>2. [t.wr EXCEPT ![l] = Gpr(n.g)] \in [Lines -> Operands]
    BY <1>1, <1>5, OperandTypes
  <2>3. QED
    BY <1>5, <1>6, <2>1, <2>2 DEF Progs
<1>10. v.input \subseteq v.used
  BY <1>1, <1>7, <1>8
<1>11. \A g \in v.used : n.b.line[g] \in R
  BY <1>1, <1>7, <1>8
<1>12. ASSUME NEW i \in R, NEW g \in Gprs PROVE g \in v.input /\ n.b.line[g] = i <=> Gpr(g) = v.rd[i]
  <2>1. g \in t.input => n.b.line[g] = r.b.line[g]
    BY <1>1, <1>7
  <2>2. QED
    BY <1>7, <1>8, <2>1
<1>13. ASSUME NEW i \in R, i # l, NEW g \in Gprs
       PROVE  g \in v.used /\ n.b.line[g] = i <=> g \in t.used /\ r.b.line[g] = i
  <2>1. CASE g = n.g
    BY <1>1, <1>13, <2>1
  <2>2. CASE g # n.g
    BY <1>1, <1>8, <2>2
  <2>3. QED
    BY <2>1, <2>2
<1>14. ASSUME NEW i \in R \ (W \cup {l}), NEW g \in Gprs PROVE g \in v.used /\ n.b.line[g] = i <=> Gpr(g) = v.rd[i]
  BY <1>7, <1>8, <1>13
<1>15. ASSUME NEW i \in W \cup {l}, i \in R
       PROVE  /\ v.wr[i] \in GprOps /\ v.rd[i] # v.wr[i]
              /\ \A g \in Gprs : g \in v.used /\ n.b.line[g] = i <=> Gpr(g) \in {v.rd[i], v.wr[i]}
  <2>1. CASE i = l
    <3>1. \A g \in Gprs : Gpr(g) = Gpr(n.g) <=> g = n.g
      BY OperandFacts
    <3>2. \A g \in Gprs : g \in t.used /\ r.b.line[g] = l <=> Gpr(g) = t.rd[l]
      BY <1>7
    <3>3. t.rd[l] # Gpr(n.g)
      BY <1>1, <3>2
    <3>4. ASSUME NEW g \in Gprs PROVE g \in v.used /\ n.b.line[g] = l <=> Gpr(g) \in {t.rd[l], Gpr(n.g)}
      <4>1. CASE g = n.g
        BY <1>1, <1>8, <4>1
      <4>2. CASE g # n.g
        BY <1>1, <1>8, <3>1, <3>2, <4>2
      <4>3. QED
        BY <4>1, <4>2
    <3>5. QED
      BY <1>1, <1>8, <2>1, <3>3, <3>4 DEF GprOps
  <2>2. CASE i # l
    <3>1. i \in W
      BY <1>15, <2>2
    <3>2. QED
      BY <1>7, <1>8, <1>13, <1>15, <2>2, <3>1
  <2>3. QED
    BY <2>1, <2>2
<1>16. ASSUME NEW i \in W, i \notin R PROVE v.wr[i] \in GprOps /\ v.rd[i] # v.wr[i]
              /\ \A g \in Gprs : g \in v.used /\ n.b.line[g] = i <=> Gpr(g) \in {v.rd[i], v.wr[i]}
  <2>1. i # l /\ v.wr[i] = t.wr[i] /\ v.rd[i] = t.rd[i]
    BY <1>8, <1>16
  <2>2. \A g \in Gprs : ~(g \in v.used /\ n.b.line[g] = i) /\ ~(g \in t.used /\ r.b.line[g] = i)
    BY <1>7, <1>11, <1>16
  <2>3. QED
    BY <1>7, <2>1, <2>2
<1>17. \A i \in W \cup {l} : i \in W \/ i \in R
  OBVIOUS
<1>18. Header(c, R, W \cup {l}, x)
  <2>1. \A i \in W \cup {l} :
            /\ v.wr[i] \in GprOps /\ v.rd[i] # v.wr[i]
            /\ \A g \in Gprs : g \in v.used /\ n.b.line[g] = i <=> Gpr(g) \in {v.rd[i], v.wr[i]}
    BY <1>15, <1>16, <1>17
  <2>2. \A i \in R : v.rd[i] \in GprOps
    BY <1>7, <1>8
  <2>3. QED
    BY <1>1, <1>3, <1>8, <1>9, <1>10, <1>11, <1>12, <1>14, <2>1, <2>2 DEF Header, v
<1>19. QED
  BY <1>18 DEF x

\* The loop over the gprs to read, and the one over those to write.
LEMMA ReadsTaken ==
    ASSUME NEW c \in Banks, Table(c), NEW S \in SUBSET Lines, NEW r, Header(c, {}, {}, r), r = [b |-> r.b, t |-> r.t]
    PROVE  LET n == After(ReadStep, r, Ascending(S))
           IN n = [b |-> n.b, t |-> n.t] /\ Header(c, S, {}, n)
<1> DEFINE seq == Ascending(S)
           N == Len(seq)
           base == r
           n == After(ReadStep, r, Ascending(S))
           Step(x, l) == ReadStep(x, l)
           T == [b : Banks, t : Progs]
           J == [k \in 0 .. N |-> {x \in T : Header(c, {seq[j] : j \in 1 .. k}, {}, x)}]
           F == [k \in 1 .. N |-> [x \in J[k - 1] |-> Step(x, seq[k])]]
           Loops(f) == f = [k \in 0 .. N |-> IF k = 0 THEN base ELSE Step(f[k - 1], seq[k])]
<1>1. seq \in Seq(Gprs) /\ ToSet(seq) = S /\ Distinct(seq)
  BY Sizes, AscendingFacts
<1>2. n = (CHOOSE f : Loops(f))[N]
  BY DEF After
<1>3. {seq[j] : j \in 1 .. N} = S
  BY <1>1 DEF ToSet
<1> HIDE DEF seq
<1>4. N \in Nat /\ DOMAIN seq = 1 .. N /\ \A j \in 1 .. N : seq[j] \in S
  BY <1>1, <1>3
<1>5. base \in J[0]
  <2>1. 0 \in 0 .. N /\ {seq[j] : j \in 1 .. 0} = {}
    BY <1>4
  <2>2. r \in T
    BY DEF Header
  <2>3. QED
    BY <2>1, <2>2
<1>6. ASSUME NEW k \in 1 .. N, NEW x \in J[k - 1] PROVE Step(x, seq[k]) \in J[k] /\ F[k][x] = Step(x, seq[k])
  <2> DEFINE old == {seq[j] : j \in 1 .. k - 1}
             new == {seq[j] : j \in 1 .. k}
             l == seq[k]
             y == Step(x, l)
  <2>1. k - 1 \in 0 .. N /\ k \in 0 .. N /\ k \in DOMAIN seq /\ l \in S /\ l \in Lines
    BY <1>4
  <2>2. x \in T /\ Header(c, old, {}, x)
    BY <2>1
  <2>3. l \notin old
    <3>1. \A j \in 1 .. k - 1 : j \in DOMAIN seq /\ j # k
      BY <1>4
    <3>2. QED
      BY <1>1, <2>1, <3>1 DEF Distinct
  <2>4. new = old \cup {l}
    <3>1. \A j \in 1 .. k : j \in 1 .. k - 1 \/ j = k
      BY <1>4
    <3>2. (\A j \in 1 .. k - 1 : j \in 1 .. k) /\ k \in 1 .. k
      BY <1>4
    <3>3. QED
      BY <3>1, <3>2
  <2> HIDE DEF old, new, l
  <2>5. Header(c, new, {}, y)
    BY <2>1, <2>2, <2>3, <2>4, HeaderRead
  <2> HIDE DEF Step
  <2>6. y \in T
    <3>1. y = [b |-> y.b, t |-> y.t]
      BY DEF Step, ReadStep, WriteStep, WithRead, WithWrite
    <3> HIDE DEF y
    <3>2. y.b \in Banks /\ y.t \in Progs
      BY <2>5 DEF Header
    <3>3. QED
      BY <3>1, <3>2
  <2>7. QED
    BY <2>1, <2>2, <2>5, <2>6 DEF y, l, new
<1>7. /\ DOMAIN J = 0 .. N /\ DOMAIN F = 1 .. N
      /\ \A k \in 1 .. N : \A x \in J[k - 1] : F[k][x] \in J[k]
  BY <1>6
<1> HIDE DEF J, F, N, Step, base
<1>8. PICK f : /\ f = [k \in 0 .. N |-> f[k]]
               /\ f[0] = base /\ \A k \in 1 .. N : f[k] = F[k][f[k - 1]]
               /\ \A k \in 0 .. N : f[k] \in J[k]
  BY <1>4, <1>5, <1>7, Walk
<1>9. Loops(f)
  <2> DEFINE G(k) == IF k = 0 THEN base ELSE Step(f[k - 1], seq[k])
  <2>1. ASSUME NEW k \in 0 .. N PROVE f[k] = G(k)
    <3>1. CASE k = 0
      BY <1>8, <3>1
    <3>2. CASE k # 0
      <4>1. k \in 1 .. N /\ k - 1 \in 0 .. N
        BY <1>4, <3>2
      <4>2. f[k - 1] \in J[k - 1] /\ f[k] = F[k][f[k - 1]]
        BY <1>8, <4>1
      <4>3. QED
        BY <1>6, <3>2, <4>1, <4>2
    <3>3. QED
      BY <3>1, <3>2
  <2> HIDE DEF G
  <2>2. f = [k \in 0 .. N |-> G(k)]
    BY <1>8, <2>1
  <2>3. QED
    BY <2>2 DEF G
<1> DEFINE g == CHOOSE h : Loops(h)
<1>10. Loops(g)
  BY <1>9
<1>11. \A k \in 0 .. N : g[k] \in J[k]
  <2> HIDE DEF g
  <2>1. g[0] = base
    BY <1>4, <1>10
  <2>2. ASSUME NEW k \in 1 .. N, g[k - 1] \in J[k - 1] PROVE g[k] \in J[k]
    <3>1. g[k] = Step(g[k - 1], seq[k])
      <4>1. k \in 0 .. N /\ k # 0
        BY <1>4
      <4>2. QED
        BY <1>10, <4>1
    <3>2. QED
      BY <1>6, <2>2, <3>1
  <2>3. g[0] \in J[0]
    BY <1>5, <2>1
  <2>4. QED
    BY <1>4, <2>2, <2>3, AlongWalk
<1>12. n \in J[N]
  BY <1>2, <1>4, <1>11
<1>13. n = [b |-> n.b, t |-> n.t] /\ Header(c, S, {}, n)
  BY <1>4, <1>12, <1>3 DEF J
<1>14. QED
  BY <1>13

LEMMA WritesTaken ==
    ASSUME NEW c \in Banks, Table(c), NEW S \in SUBSET Lines, NEW r, Header(c, S, {}, r), r = [b |-> r.b, t |-> r.t]
    PROVE  LET n == After(WriteStep, r, Ascending(S))
           IN n = [b |-> n.b, t |-> n.t] /\ Header(c, S, S, n)
<1> DEFINE seq == Ascending(S)
           N == Len(seq)
           base == r
           n == After(WriteStep, r, Ascending(S))
           Step(x, l) == WriteStep(x, l)
           T == [b : Banks, t : Progs]
           J == [k \in 0 .. N |-> {x \in T : Header(c, S, {seq[j] : j \in 1 .. k}, x)}]
           F == [k \in 1 .. N |-> [x \in J[k - 1] |-> Step(x, seq[k])]]
           Loops(f) == f = [k \in 0 .. N |-> IF k = 0 THEN base ELSE Step(f[k - 1], seq[k])]
<1>1. seq \in Seq(Gprs) /\ ToSet(seq) = S /\ Distinct(seq)
  BY Sizes, AscendingFacts
<1>2. n = (CHOOSE f : Loops(f))[N]
  BY DEF After
<1>3. {seq[j] : j \in 1 .. N} = S
  BY <1>1 DEF ToSet
<1> HIDE DEF seq
<1>4. N \in Nat /\ DOMAIN seq = 1 .. N /\ \A j \in 1 .. N : seq[j] \in S
  BY <1>1, <1>3
<1>5. base \in J[0]
  <2>1. 0 \in 0 .. N /\ {seq[j] : j \in 1 .. 0} = {}
    BY <1>4
  <2>2. r \in T
    BY DEF Header
  <2>3. QED
    BY <2>1, <2>2
<1>6. ASSUME NEW k \in 1 .. N, NEW x \in J[k - 1] PROVE Step(x, seq[k]) \in J[k] /\ F[k][x] = Step(x, seq[k])
  <2> DEFINE old == {seq[j] : j \in 1 .. k - 1}
             new == {seq[j] : j \in 1 .. k}
             l == seq[k]
             y == Step(x, l)
  <2>1. k - 1 \in 0 .. N /\ k \in 0 .. N /\ k \in DOMAIN seq /\ l \in S /\ l \in Lines
    BY <1>4
  <2>2. x \in T /\ Header(c, S, old, x)
    BY <2>1
  <2>3. l \notin old
    <3>1. \A j \in 1 .. k - 1 : j \in DOMAIN seq /\ j # k
      BY <1>4
    <3>2. QED
      BY <1>1, <2>1, <3>1 DEF Distinct
  <2>4. new = old \cup {l}
    <3>1. \A j \in 1 .. k : j \in 1 .. k - 1 \/ j = k
      BY <1>4
    <3>2. (\A j \in 1 .. k - 1 : j \in 1 .. k) /\ k \in 1 .. k
      BY <1>4
    <3>3. QED
      BY <3>1, <3>2
  <2> HIDE DEF old, new, l
  <2>5. Header(c, S, new, y)
    BY <2>1, <2>2, <2>3, <2>4, HeaderWrite
  <2> HIDE DEF Step
  <2>6. y \in T
    <3>1. y = [b |-> y.b, t |-> y.t]
      BY DEF Step, ReadStep, WriteStep, WithRead, WithWrite
    <3> HIDE DEF y
    <3>2. y.b \in Banks /\ y.t \in Progs
      BY <2>5 DEF Header
    <3>3. QED
      BY <3>1, <3>2
  <2>7. QED
    BY <2>1, <2>2, <2>5, <2>6 DEF y, l, new
<1>7. /\ DOMAIN J = 0 .. N /\ DOMAIN F = 1 .. N
      /\ \A k \in 1 .. N : \A x \in J[k - 1] : F[k][x] \in J[k]
  BY <1>6
<1> HIDE DEF J, F, N, Step, base
<1>8. PICK f : /\ f = [k \in 0 .. N |-> f[k]]
               /\ f[0] = base /\ \A k \in 1 .. N : f[k] = F[k][f[k - 1]]
               /\ \A k \in 0 .. N : f[k] \in J[k]
  BY <1>4, <1>5, <1>7, Walk
<1>9. Loops(f)
  <2> DEFINE G(k) == IF k = 0 THEN base ELSE Step(f[k - 1], seq[k])
  <2>1. ASSUME NEW k \in 0 .. N PROVE f[k] = G(k)
    <3>1. CASE k = 0
      BY <1>8, <3>1
    <3>2. CASE k # 0
      <4>1. k \in 1 .. N /\ k - 1 \in 0 .. N
        BY <1>4, <3>2
      <4>2. f[k - 1] \in J[k - 1] /\ f[k] = F[k][f[k - 1]]
        BY <1>8, <4>1
      <4>3. QED
        BY <1>6, <3>2, <4>1, <4>2
    <3>3. QED
      BY <3>1, <3>2
  <2> HIDE DEF G
  <2>2. f = [k \in 0 .. N |-> G(k)]
    BY <1>8, <2>1
  <2>3. QED
    BY <2>2 DEF G
<1> DEFINE g == CHOOSE h : Loops(h)
<1>10. Loops(g)
  BY <1>9
<1>11. \A k \in 0 .. N : g[k] \in J[k]
  <2> HIDE DEF g
  <2>1. g[0] = base
    BY <1>4, <1>10
  <2>2. ASSUME NEW k \in 1 .. N, g[k - 1] \in J[k - 1] PROVE g[k] \in J[k]
    <3>1. g[k] = Step(g[k - 1], seq[k])
      <4>1. k \in 0 .. N /\ k # 0
        BY <1>4
      <4>2. QED
        BY <1>10, <4>1
    <3>2. QED
      BY <1>6, <2>2, <3>1
  <2>3. g[0] \in J[0]
    BY <1>5, <2>1
  <2>4. QED
    BY <1>4, <2>2, <2>3, AlongWalk
<1>12. n \in J[N]
  BY <1>2, <1>4, <1>11
<1>13. n = [b |-> n.b, t |-> n.t] /\ Header(c, S, S, n)
  BY <1>4, <1>12, <1>3 DEF J
<1>14. QED
  BY <1>13

\* A patch that has been read: a gpr to read and another one to write on all its lines.
LEMMA ReadHeaderIs ==
    ASSUME NEW p \in Patches, mgr.bank \in Banks, Table(mgr.bank)
    PROVE  LET r == ReadHeader(p)
           IN /\ r.b \in Banks /\ r.t \in Progs /\ Moves(mgr.bank, {}, r.b, r.t.used) /\ Whole(r.b, p, r.t)
              /\ \A l \in LinesOf[p] : r.t.rd[l] \in GprOps /\ r.t.wr[l] \in GprOps
<1> DEFINE S == LinesOf[p]
           base == [b |-> mgr.bank, t |-> NoProg]
           x == After(ReadStep, base, Ascending(S))
           y == After(WriteStep, x, Ascending(S))
<1>1. ReadHeader(p) = y
  BY DEF ReadHeader, ReadStep, WriteStep, WithRead, WithWrite, After
<1>2. S \in SUBSET Lines
  BY Sizes
<1>3. Header(mgr.bank, {}, {}, base)
  BY NoHeader
<1>4. base = [b |-> base.b, t |-> base.t]
  OBVIOUS
<1> HIDE DEF S, base
<1>5. x = [b |-> x.b, t |-> x.t] /\ Header(mgr.bank, S, {}, x)
  BY <1>2, <1>3, <1>4, ReadsTaken
<1> HIDE DEF x
<1>6. Header(mgr.bank, S, S, y)
  BY <1>2, <1>5, WritesTaken
<1> HIDE DEF y
<1>7. Whole(y.b, p, y.t)
  <2>1. \A l \in S : AtLine(y.b, y.t, l)
    BY <1>6 DEF Header, AtLine
  <2>2. QED
    BY <1>6, <2>1 DEF Header, Whole, S
<1>8. QED
  BY <1>1, <1>6, <1>7 DEF Header, S

-----------------------------------------------------------------------------
(* Commands.                                                               *)

\* Programs that are the same keep their order, too.
LEMMA OrderSame ==
    ASSUME NEW il, NEW ol, Apart(il, ol), NEW m, OutLast(m, ol), NEW n,
           \A p \in ToSet(il) \cup ToSet(ol) : n.prog[p] = m.prog[p]
    PROVE  OutLast(n, ol)
<1>1. il \in Seq(Patches) /\ ol \in Seq(Patches)
  BY ApartFacts
<1>2. ASSUME NEW l, NEW k \in DOMAIN OnLine(ol, l) PROVE n.prog[OnLine(ol, l)[k]] = m.prog[OnLine(ol, l)[k]]
  BY <1>1, HereFacts
<1>3. QED
  BY <1>2 DEF OutLast

\* p is put first or last.
AtEnds(il, p) == {<<p>> \o il, il \o <<p>>}

\* n has one patch more than m, at either end of its input lines or first on its output lines.
LEMMA PatchAdded ==
    ASSUME NEW il, NEW ol, Apart(il, ol), NEW m, Sound(m, il, ol), AllKnown(m, il, ol),
           NEW p \in Patches, p \notin ToSet(il) \cup ToSet(ol),
           NEW n \in Mgrs, Counted(n), \A q \in Patches : q # p => n.prog[q] = m.prog[q],
           \A q \in Patches : q # p => \A g \in m.prog[q].used : n.bank.line[g] = m.bank.line[g],
           Whole(n.bank, p, n.prog[p]),
           \A l \in LinesOf[p] : n.prog[p].rd[l] \in GprOps /\ n.prog[p].wr[l] \in GprOps /\ Known(n, p, l),
           NEW jl, NEW kl, \/ jl \in AtEnds(il, p) /\ kl = ol
                           \/ jl = il /\ kl = <<p>> \o ol
    PROVE  /\ Apart(jl, kl) /\ Sound(n, jl, kl) /\ AllKnown(n, jl, kl)
           /\ \A q \in ToSet(kl) : q \in ToSet(ol) \/ (q = p /\ kl # ol)
<1>1. /\ il \in Seq(Patches) /\ ol \in Seq(Patches) /\ Distinct(il) /\ Distinct(ol)
      /\ ToSet(il) \in SUBSET Patches /\ ToSet(ol) \in SUBSET Patches
      /\ ToSet(il) \cap ToSet(ol) = {}
  BY ApartFacts
<1>2. \A q \in ToSet(il) \cup ToSet(ol) : q # p /\ q \in Patches /\ n.prog[q] = m.prog[q]
  BY <1>1
<1>3. OutLast(n, ol)
  BY <1>2, OrderSame DEF Sound
<1> DEFINE f == <<p>> \o ol
<1>4. /\ \A e \in AtEnds(il, p) : e \in Seq(Patches) /\ Distinct(e) /\ ToSet(e) = ToSet(il) \cup {p}
      /\ f \in Seq(Patches) /\ Distinct(f) /\ ToSet(f) = ToSet(ol) \cup {p}
  BY <1>1, PutIn DEF AtEnds
<1>5. OutLast(n, f)
  <2>1. ASSUME NEW l \in Lines
        PROVE  \A k \in DOMAIN OnLine(f, l) : k < Len(OnLine(f, l)) => OnLine(f, l)[k] \in Writers(n, l)
    <3> DEFINE G == Writers(n, l)
    <3>1. \A k \in DOMAIN OnLine(ol, l) : k < Len(OnLine(ol, l)) => OnLine(ol, l)[k] \in G
      BY <1>1, <1>3, LastIs
    <3>2. l \in LinesOf[p] => p \in G
      BY DEF Writers
    <3>3. \A a, b \in DOMAIN f : a < b =>
              \/ f[a] = p
              \/ \E c, d \in DOMAIN ol : c < d /\ ol[c] = f[a] /\ ol[d] = f[b]
      BY <1>1, PutOrder
    <3> HIDE DEF G, f
    <3>4. \A a, b \in DOMAIN f : a < b /\ l \in LinesOf[f[a]] =>
              \/ f[a] \in G
              \/ \E c, d \in DOMAIN ol : c < d /\ ol[c] = f[a] /\ ol[d] = f[b]
      BY <3>2, <3>3
    <3>5. \A k \in DOMAIN OnLine(f, l) : k < Len(OnLine(f, l)) => OnLine(f, l)[k] \in G
      BY <1>1, <1>4, <3>1, <3>4, LastKept
    <3>6. QED
      BY <3>5 DEF G
  <2> HIDE DEF f
  <2>2. QED
    BY <1>4, <2>1, LastIs
<1> HIDE DEF f
<1>6. \/ jl \in Seq(Patches) /\ Distinct(jl) /\ ToSet(jl) = ToSet(il) \cup {p} /\ kl = ol
      \/ jl = il /\ kl = f
  BY <1>4 DEF f
<1>7. /\ Apart(jl, kl) /\ OutLast(n, kl)
      /\ ToSet(jl) \cup ToSet(kl) = ToSet(il) \cup ToSet(ol) \cup {p}
  BY <1>1, <1>3, <1>4, <1>5, <1>6 DEF Apart
<1>8. /\ \A q \in ToSet(jl) : q \in ToSet(il) \/ q = p
      /\ \A q \in ToSet(kl) : q \in ToSet(ol) \/ q = p
  BY <1>4, <1>6
<1>9. \A q \in ToSet(kl) : q \in ToSet(ol) \/ (q = p /\ kl # ol)
  BY <1>8
<1>10. ASSUME NEW q \in ToSet(il) \cup ToSet(ol) PROVE Whole(n.bank, q, n.prog[q])
  <2>1. q \in Patches /\ q # p /\ n.prog[q] = m.prog[q] /\ Whole(m.bank, q, m.prog[q]) /\ m.prog[q] \in Progs
    BY <1>2, MgrFacts DEF Sound
  <2>2. \A g \in m.prog[q].used : n.bank.line[g] = m.bank.line[g]
    BY <2>1
  <2>3. Whole(n.bank, q, m.prog[q])
    BY <2>1, <2>2, WholeElsewhere
  <2>4. QED
    BY <2>1, <2>3
<1>11. /\ \A q \in ToSet(il) : \A l \in LinesOf[q] : n.prog[q].wr[l] \in GprOps
       /\ \A q \in ToSet(ol) : \A l \in LinesOf[q] : n.prog[q].rd[l] \in GprOps
  BY <1>2 DEF Sound
<1>12. \A q \in Patches : q \notin ToSet(jl) \cup ToSet(kl) => n.prog[q].used = {}
  BY <1>7 DEF Sound
<1>13. /\ \A q \in ToSet(jl) : \A l \in LinesOf[q] : n.prog[q].wr[l] \in GprOps
       /\ \A q \in ToSet(kl) : \A l \in LinesOf[q] : n.prog[q].rd[l] \in GprOps
  BY <1>8, <1>11
<1>14. \A q \in ToSet(jl) \cup ToSet(kl) : Whole(n.bank, q, n.prog[q])
  BY <1>7, <1>10
<1>15. Sound(n, jl, kl)
  BY <1>7, <1>12, <1>13, <1>14 DEF Sound
<1>16. AllKnown(n, jl, kl)
  <2>1. ASSUME NEW q \in ToSet(il) \cup ToSet(ol), NEW l \in LinesOf[q] PROVE Known(n, q, l)
    BY <1>2 DEF AllKnown, Known
  <2>2. QED
    BY <1>7, <2>1 DEF AllKnown
<1>17. QED
  BY <1>7, <1>9, <1>15, <1>16

\* dsp_read_patch()
LEMMA WithPatchIs ==
    ASSUME NEW il, NEW ol, Apart(il, ol), Sound(mgr, il, ol), Table(mgr.bank), AllKnown(mgr, il, ol),
           NEW p \in Patches, p \notin ToSet(il) \cup ToSet(ol)
    PROVE  LET n == WithPatch(p, ReadHeader(p))
           IN /\ n \in Mgrs /\ Counted(n) /\ Table(n.bank) /\ \A q \in Patches : q # p => n.prog[q] = mgr.prog[q]
              /\ \A q \in Patches : q # p => \A g \in mgr.prog[q].used : n.bank.line[g] = mgr.bank.line[g]
              /\ Whole(n.bank, p, n.prog[p])
              /\ \A l \in LinesOf[p] : n.prog[p].rd[l] \in GprOps /\ n.prog[p].wr[l] \in GprOps /\ Known(n, p, l)
<1> DEFINE r == ReadHeader(p)
           n == WithPatch(p, r)
           v == DetermineIo(r.b, p, r.t)
<1>1. mgr \in Mgrs /\ Counted(mgr) /\ mgr.prog[p].used = {}
  BY DEF Sound
<1>2. /\ mgr.bank \in Banks /\ mgr.routing \in Routings /\ mgr.prog \in [Patches -> Progs]
      /\ mgr = [bank |-> mgr.bank, prog |-> mgr.prog, routing |-> mgr.routing]
  BY <1>1, MgrFacts
<1>3. /\ r.b \in Banks /\ r.t \in Progs /\ Moves(mgr.bank, {}, r.b, r.t.used) /\ Whole(r.b, p, r.t)
      /\ \A l \in LinesOf[p] : r.t.rd[l] \in GprOps /\ r.t.wr[l] \in GprOps
  BY <1>2, ReadHeaderIs
<1>4. n = [mgr EXCEPT !.bank = r.b, !.prog[p] = v]
  BY DEF WithPatch
<1> HIDE DEF r, n
<1>5. Table(r.b) /\ \A g \in r.t.used : r.b.usage[g] > 0
  <2>1. ASSUME NEW g \in r.t.used PROVE r.b.usage[g] > 0
    <3>1. g \in Gprs /\ mgr.bank.usage[g] \in Nat
      BY <1>2, <1>3, ProgFacts, BankFacts
    <3>2. r.b.usage[g] = mgr.bank.usage[g] + 1
      BY <1>3, <2>1, <3>1 DEF Moves
    <3>3. QED
      BY <3>1, <3>2
  <2>2. QED
    BY <1>3, <2>1 DEF Moves
<1>6. Determined(p, r.t, v)
  BY <1>3, <1>5, DetermineIs
<1>7. v \in Progs /\ v.used = r.t.used /\ v.input = r.t.input /\ v.rd = r.t.rd /\ v.wr = r.t.wr
      /\ \A l \in LinesOf[p] : v.in[l] = v.rd[l] /\ v.out[l] = v.wr[l]
  BY <1>6 DEF Determined
<1> HIDE DEF v
<1>8. n = [bank |-> r.b, prog |-> [mgr.prog EXCEPT ![p] = v], routing |-> mgr.routing]
  BY <1>2, <1>4
<1>9. /\ n.bank = r.b /\ n.prog[p] = v /\ n.routing = mgr.routing
      /\ n.prog \in [Patches -> Progs] /\ \A q \in Patches : q # p => n.prog[q] = mgr.prog[q]
      /\ n = [bank |-> n.bank, prog |-> n.prog, routing |-> n.routing]
  BY <1>2, <1>7, <1>8
<1>10. Moves(mgr.bank, mgr.prog[p].used, n.bank, n.prog[p].used)
  BY <1>1, <1>3, <1>7, <1>9
<1>11. /\ n \in Mgrs /\ Counted(n) /\ Table(n.bank)
       /\ \A q \in Patches : q # p => \A g \in mgr.prog[q].used : n.bank.line[g] = mgr.bank.line[g]
  <2>1. mgr \in Mgrs /\ Counted(mgr)
    BY <1>1
  <2>2. /\ n = [bank |-> n.bank, prog |-> n.prog, routing |-> n.routing] /\ n.routing = mgr.routing
        /\ n.prog \in [Patches -> Progs] /\ \A q \in Patches : q # p => n.prog[q] = mgr.prog[q]
    BY <1>9
  <2>3. QED
    BY <1>10, <2>1, <2>2, Reprogrammed
<1>12. Whole(n.bank, p, n.prog[p])
  BY <1>3, <1>7, <1>9 DEF Whole, AtLine
<1>13. \A l \in LinesOf[p] : n.prog[p].rd[l] \in GprOps /\ n.prog[p].wr[l] \in GprOps /\ Known(n, p, l)
  BY <1>3, <1>7, <1>9 DEF Known
<1>14. QED
  BY <1>9, <1>11, <1>12, <1>13 DEF n, r

\* dsp_unload_patch()
LEMMA PatchRemoved ==
    ASSUME NEW il, NEW ol, Apart(il, ol), NEW m, Sound(m, il, ol), Table(m.bank), AllKnown(m, il, ol),
           NEW p \in Patches
    PROVE  LET n == [m EXCEPT !.bank = FreeGprs(@, m.prog[p].used, Gprs).b, !.prog[p] = NoProg]
               jl == Among(il, Patches \ {p})
               kl == Among(ol, Patches \ {p})
           IN /\ Apart(jl, kl) /\ Sound(n, jl, kl) /\ Table(n.bank) /\ AllKnown(n, jl, kl)
              /\ ToSet(kl) \subseteq ToSet(ol)
<1> DEFINE S == Patches \ {p}
           n == [m EXCEPT !.bank = FreeGprs(@, m.prog[p].used, Gprs).b, !.prog[p] = NoProg]
           jl == Among(il, S)
           kl == Among(ol, S)
<1>1. /\ il \in Seq(Patches) /\ ol \in Seq(Patches) /\ Distinct(il) /\ Distinct(ol)
      /\ ToSet(il) \in SUBSET Patches /\ ToSet(ol) \in SUBSET Patches
      /\ ToSet(il) \cap ToSet(ol) = {}
  BY ApartFacts
<1>2. /\ jl \in Seq(Patches) /\ Distinct(jl) /\ ToSet(jl) = ToSet(il) \cap S
      /\ kl \in Seq(Patches) /\ Distinct(kl) /\ ToSet(kl) = ToSet(ol) \cap S
  BY <1>1, AmongFacts
<1>3. /\ \A i, j \in DOMAIN jl : i < j => \E c, d \in DOMAIN il : c < d /\ il[c] = jl[i] /\ il[d] = jl[j]
      /\ \A i, j \in DOMAIN kl : i < j => \E c, d \in DOMAIN ol : c < d /\ ol[c] = kl[i] /\ ol[d] = kl[j]
  <2>1. ASSUME NEW list \in Seq(Patches), NEW i \in DOMAIN Among(list, S), NEW j \in DOMAIN Among(list, S), i < j
        PROVE  \E c, d \in DOMAIN list : c < d /\ list[c] = Among(list, S)[i] /\ list[d] = Among(list, S)[j]
    <3> HIDE DEF S
    <3>1. QED
      BY <2>1, AmongOrder
  <2>2. QED
    BY <1>1, <2>1
<1> HIDE DEF jl, kl
<1>4. m \in Mgrs /\ Counted(m)
  BY DEF Sound
<1>5. /\ m.bank \in Banks /\ m.routing \in Routings /\ m.prog \in [Patches -> Progs] /\ m.prog[p] \in Progs
      /\ m = [bank |-> m.bank, prog |-> m.prog, routing |-> m.routing]
  BY <1>4, MgrFacts
<1> DEFINE b == m.bank
           u == m.prog[p].used
           c == FreeGprs(b, u, Gprs).b
           t == NoProg
<1>6. t \in Progs /\ t.used = {}
  BY NoProgIs
<1>7. n = [m EXCEPT !.bank = c, !.prog[p] = t]
  OBVIOUS
<1>8. u \in SUBSET Gprs /\ \A g \in u : b.usage[g] > 0
  BY <1>4, <1>5, InUse, ProgFacts
<1> HIDE DEF b, u, t, n
<1>9. Moves(b, u, c, t.used)
  <2>1. b \in Banks /\ Table(b)
    BY <1>5 DEF b
  <2>2. Moves(b, u, c, FreeGprs(b, u, Gprs).u) /\ FreeGprs(b, u, Gprs).u = u \ Gprs
    BY <1>8, <2>1, FreeMoves
  <2>3. u \ Gprs = {}
    BY <1>8
  <2>4. QED
    BY <1>6, <2>2, <2>3
<1> HIDE DEF c
<1>10. n = [bank |-> c, prog |-> [m.prog EXCEPT ![p] = t], routing |-> m.routing]
  BY <1>5, <1>7
<1>11. /\ n.bank = c /\ n.prog[p] = t /\ n.routing = m.routing
       /\ n.prog \in [Patches -> Progs] /\ \A q \in Patches : q # p => n.prog[q] = m.prog[q]
       /\ n = [bank |-> n.bank, prog |-> n.prog, routing |-> n.routing]
  BY <1>5, <1>6, <1>10
<1>12. Moves(m.bank, m.prog[p].used, n.bank, n.prog[p].used)
  BY <1>9, <1>11 DEF b, u
<1>13. /\ n \in Mgrs /\ Counted(n) /\ Table(n.bank)
       /\ \A q \in Patches : q # p => \A g \in m.prog[q].used : n.bank.line[g] = m.bank.line[g]
  BY <1>4, <1>11, <1>12, Reprogrammed
<1>14. Apart(jl, kl)
  BY <1>1, <1>2 DEF Apart
<1>15. \A q \in ToSet(jl) \cup ToSet(kl) : q \in Patches /\ q # p /\ n.prog[q] = m.prog[q]
  BY <1>2, <1>11
<1>17. OutLast(n, kl)
  <2>1. ASSUME NEW l \in Lines
        PROVE  \A k \in DOMAIN OnLine(kl, l) : k < Len(OnLine(kl, l)) => OnLine(kl, l)[k] \in Writers(m, l)
    <3> DEFINE G == Writers(m, l)
    <3>1. \A k \in DOMAIN OnLine(ol, l) : k < Len(OnLine(ol, l)) => OnLine(ol, l)[k] \in G
      BY <1>1, LastIs DEF Sound
    <3> HIDE DEF G
    <3>2. \A k \in DOMAIN OnLine(kl, l) : k < Len(OnLine(kl, l)) => OnLine(kl, l)[k] \in G
      BY <1>1, <1>2, <1>3, <3>1, LastKept
    <3>3. QED
      BY <3>2 DEF G
  <2>2. ASSUME NEW l \in Lines, NEW k \in DOMAIN OnLine(kl, l), k < Len(OnLine(kl, l))
        PROVE  n.prog[OnLine(kl, l)[k]].wr[l] \in GprOps
    <3>1. OnLine(kl, l)[k] \in ToSet(kl)
      BY <1>2, HereFacts
    <3>2. QED
      BY <1>15, <2>1, <2>2, <3>1 DEF Writers
  <2>3. QED
    BY <2>2 DEF OutLast
<1>18. ASSUME NEW q \in ToSet(jl) \cup ToSet(kl) PROVE Whole(n.bank, q, n.prog[q])
  <2>1. q \in Patches /\ q # p /\ n.prog[q] = m.prog[q] /\ Whole(m.bank, q, m.prog[q]) /\ m.prog[q] \in Progs
    BY <1>2, <1>4, <1>15, MgrFacts DEF Sound
  <2>2. \A g \in m.prog[q].used : n.bank.line[g] = m.bank.line[g]
    BY <1>13, <2>1
  <2>3. Whole(n.bank, q, m.prog[q])
    BY <2>1, <2>2, WholeElsewhere
  <2>4. QED
    BY <2>1, <2>3
<1>19. ASSUME NEW q \in Patches, q \notin ToSet(jl) \cup ToSet(kl) PROVE n.prog[q].used = {}
  <2>1. CASE q = p
    BY <1>6, <1>11, <2>1
  <2>2. CASE q # p
    <3>1. q \notin ToSet(il) \cup ToSet(ol)
      BY <1>2, <1>19, <2>2
    <3>2. QED
      BY <1>11, <2>2, <3>1 DEF Sound
  <2>3. QED
    BY <2>1, <2>2
<1>20. /\ \A q \in ToSet(jl) : \A l \in LinesOf[q] : n.prog[q].wr[l] \in GprOps
       /\ \A q \in ToSet(kl) : \A l \in LinesOf[q] : n.prog[q].rd[l] \in GprOps
  BY <1>2, <1>15 DEF Sound
<1>21. Sound(n, jl, kl)
  BY <1>13, <1>17, <1>18, <1>19, <1>20 DEF Sound
<1>22. AllKnown(n, jl, kl)
  BY <1>2, <1>15 DEF AllKnown, Known
<1>23. QED
  BY <1>2, <1>13, <1>14, <1>21, <1>22 DEF n, jl, kl

-----------------------------------------------------------------------------
(* The invariant: of the manager before its load, and of the driver always,*)
(* as long as no gpr has been refused.  The properties are about the       *)
(* driver; a load makes it from the manager, whose gprs must be counted    *)
(* right, whose programs must be where their lines are, and whose lists    *)
(* must have been changed at the ends of lines.                            *)

\* A manager that knows the patches il and ol, of lines that are routed to.
MgrOK(m, il, ol, pl, vo) ==
    /\ Sound(m, il, ol) /\ Table(m.bank) /\ AllKnown(m, il, ol)
    /\ FedAll(ol, pl, vo)

\* The lists and routes that the driver holds.
ListsOK(d) == Apart(d.ilist, d.olist) /\ d.plain \in Routes /\ d.vol \in Routes

\* What else it holds: the code was threaded, and can be read back.
DriverOK(d) ==
    /\ FedAll(d.olist, d.plain, d.vol)
    /\ Sound(d.mgr, d.ilist, d.olist) /\ Pairs(d.mgr.bank) /\ Chained(d.mgr, d.ilist, d.olist)

\* A process that has loaded knows no more than that it has: only before that are the IO
\* gprs of the manager those of the code.
IInv ==
    /\ edits \in 0 .. MaxEdits /\ loads \in -1 .. MaxLoads /\ granted \in BOOLEAN
    /\ Apart(ilist, olist) /\ plain \in Routes /\ vol \in Routes
    /\ ListsOK(driver)
    /\ granted /\ loads = 0 => MgrOK(mgr, ilist, olist, plain, vol)
    /\ granted => DriverOK(driver)

LEMMA Bounds == MaxLoads \in Nat \ {0} /\ MaxEdits \in Nat /\ Connections \subseteq Lines \X Lines \X {"plain", "volume"}
  BY LineAssumption

\* Two empty lists.
LEMMA NoLists ==
    /\ Apart(<<>>, <<>>) /\ ToSet(<<>>) = {} /\ NoRoutes \in Routes
    /\ \A l : OnLine(<<>>, l) = <<>>
<1>1. <<>> \in Seq(Patches) /\ ToSet(<<>>) = {} /\ Distinct(<<>>)
  BY DEF ToSet, Distinct
<1>2. Apart(<<>>, <<>>)
  BY <1>1 DEF Apart
<1>3. ASSUME NEW l PROVE OnLine(<<>>, l) = <<>>
  <2> DEFINE s == OnLine(<<>>, l)
  <2>1. s \in Seq(Patches) /\ ToSet(s) = {}
    BY <1>1, OnLineFacts
  <2> HIDE DEF s
  <2>2. Len(s) \in Nat /\ DOMAIN s = 1 .. Len(s)
    BY <2>1
  <2>3. Len(s) = 0
    <3>1. SUFFICES ASSUME Len(s) # 0 PROVE FALSE
      OBVIOUS
    <3>2. 1 \in DOMAIN s
      BY <2>2, <3>1
    <3>3. s[1] \in ToSet(s)
      BY <3>2 DEF ToSet
    <3>4. QED
      BY <2>1, <3>3
  <2>4. s = <<>>
    BY <2>1, <2>3
  <2>5. QED
    BY <2>4 DEF s
<1>4. NoRoutes \in Routes
  BY DEF NoRoutes, Routes
<1>5. QED
  BY <1>1, <1>2, <1>3, <1>4

LEMMA NoMgrIs ==
    /\ \A pl, vo : MgrOK(NoMgr, <<>>, <<>>, pl, vo)
    /\ Pairs(NoMgr.bank) /\ Chained(NoMgr, <<>>, <<>>)
<1> DEFINE b == NoBank
           r == NoRouting
           t == NoProg
           prog == [p \in Patches |-> t]
           usage == [g \in Gprs |-> 0]
           line == [g \in Gprs |-> 0]
           io == [l \in Lines |-> <<-1, -1>>]
           none == [l \in Lines |-> None]
<1>1. b = [usage |-> usage, line |-> line, io |-> io]
  BY DEF NoBank
<1>2. usage \in [Gprs -> Nat] /\ line \in [Gprs -> Lines]
  BY Sizes
<1>3. io \in [Lines -> [1 .. 2 -> Gprs \cup {-1}]]
  <2>1. <<-1, -1>> \in [1 .. 2 -> Gprs \cup {-1}]
    OBVIOUS
  <2>2. QED
    BY <2>1
<1>4. \A l \in Lines : \A k \in 1 .. 2 : io[l][k] = -1
  OBVIOUS
<1>5. \A g \in Gprs : usage[g] = 0
  OBVIOUS
<1>6. r = [used |-> {}, in |-> none, out |-> none, code |-> <<>>]
  BY DEF NoRouting
<1>7. none \in [Lines -> Operands]
  BY OperandTypes
<1>8. t \in Progs /\ t.used = {}
  BY NoProgIs
<1>9. NoMgr = [bank |-> b, prog |-> prog, routing |-> r]
  BY DEF NoMgr
<1> HIDE DEF b, r, t, usage, line, io, none
<1>10. b \in Banks /\ b.usage = usage /\ b.io = io
  BY <1>1, <1>2, <1>3 DEF Banks
<1>11. Table(b)
  <2>1. \A l \in Lines : io[l][1] = -1
    <3>1. 1 \in 1 .. 2
      OBVIOUS
    <3>2. QED
      BY <1>4, <3>1
  <2>2. \A g \in Gprs : ~(usage[g] > 0)
    BY <1>5
  <2>3. QED
    BY <1>4, <1>10, <2>1, <2>2 DEF Table
<1>12. r \in Routings /\ r.used = {}
  BY <1>6, <1>7 DEF Routings
<1>13. prog \in [Patches -> Progs] /\ \A p \in Patches : prog[p] = t
  BY <1>8
<1> HIDE DEF prog
<1>14. NoMgr \in Mgrs
  BY <1>9, <1>10, <1>12, <1>13 DEF Mgrs
<1>15. NoMgr.bank = b /\ NoMgr.prog = prog /\ NoMgr.routing = r
  BY <1>9
<1>16. Counted(NoMgr)
  <2>1. ASSUME NEW g \in Gprs
        PROVE  Cardinality({p \in Patches : g \in prog[p].used}) + (IF g \in r.used THEN 1 ELSE 0) <= b.usage[g]
    <3>1. {p \in Patches : g \in prog[p].used} = {}
      BY <1>8, <1>13
    <3>2. Cardinality({p \in Patches : g \in prog[p].used}) = 0
      BY <3>1, FS_EmptySet
    <3>3. g \notin r.used /\ b.usage[g] = 0
      BY <1>5, <1>10, <1>12
    <3>4. QED
      BY <3>2, <3>3
  <2>2. QED
    BY <1>15, <2>1 DEF Counted
<1>17. ToSet(<<>>) = {} /\ \A l : OnLine(<<>>, l) = <<>> /\ DOMAIN OnLine(<<>>, l) = {}
  <2>1. DOMAIN <<>> = {}
    OBVIOUS
  <2>2. QED
    BY <2>1, NoLists
<1>18. OutLast(NoMgr, <<>>) /\ Chained(NoMgr, <<>>, <<>>)
  BY <1>17 DEF OutLast, Chained
<1>19. \A p \in Patches : NoMgr.prog[p].used = {}
  BY <1>8, <1>13, <1>15
<1>20. Sound(NoMgr, <<>>, <<>>)
  BY <1>14, <1>16, <1>17, <1>18, <1>19 DEF Sound
<1>21. AllKnown(NoMgr, <<>>, <<>>) /\ \A pl, vo : FedAll(<<>>, pl, vo)
  BY <1>17 DEF AllKnown, FedAll
<1>22. Pairs(NoMgr.bank)
  BY <1>10, <1>11, <1>15, PairsIs
<1>23. QED
  BY <1>11, <1>15, <1>18, <1>20, <1>21, <1>22 DEF MgrOK

-----------------------------------------------------------------------------
(* The steps.                                                              *)

LEMMA InitOK == Init => IInv
<1>1. SUFFICES ASSUME Init PROVE IInv
  OBVIOUS
<1>2. edits = 0 /\ loads = -1 /\ ilist = <<>> /\ olist = <<>> /\ plain = NoRoutes /\ vol = NoRoutes
      /\ driver = [ilist |-> <<>>, olist |-> <<>>, plain |-> NoRoutes, vol |-> NoRoutes, mgr |-> NoMgr]
      /\ granted = TRUE
  BY <1>1, Zenon DEF Init
<1>3. /\ driver.ilist = <<>> /\ driver.olist = <<>> /\ driver.plain = NoRoutes /\ driver.vol = NoRoutes
      /\ driver.mgr = NoMgr
  BY <1>2
<1>4. MgrOK(NoMgr, <<>>, <<>>, NoRoutes, NoRoutes) /\ Pairs(NoMgr.bank) /\ Chained(NoMgr, <<>>, <<>>)
  BY NoMgrIs
<1>5. DriverOK(driver) /\ ListsOK(driver)
  BY <1>3, <1>4, NoLists DEF DriverOK, ListsOK, MgrOK
<1>6. edits \in 0 .. MaxEdits /\ loads \in -1 .. MaxLoads /\ granted \in BOOLEAN
  BY <1>2, Bounds
<1>7. QED
  BY <1>2, <1>5, <1>6, NoLists DEF IInv

LEMMA StartStep == IInv /\ Start => IInv'
<1>1. SUFFICES ASSUME IInv, Start PROVE IInv'
  OBVIOUS
<1>2. ListsOK(driver) /\ granted \in BOOLEAN /\ (granted => DriverOK(driver))
  BY <1>1 DEF IInv
<1>3. /\ loads' = 0 /\ edits' = 0 /\ ilist' = driver.ilist /\ olist' = driver.olist
      /\ plain' = driver.plain /\ vol' = driver.vol /\ driver' = driver /\ granted' = granted
      /\ mgr' = ReadBack(driver.mgr, driver.ilist \o driver.olist)
  BY <1>1 DEF Start
<1> DEFINE d == driver
           n == ReadBack(d.mgr, d.ilist \o d.olist)
<1>4. Apart(d.ilist, d.olist) /\ d.plain \in Routes /\ d.vol \in Routes
  BY <1>2 DEF ListsOK
<1>5. ASSUME granted PROVE MgrOK(n, d.ilist, d.olist, d.plain, d.vol)
  <2>1. FedAll(d.olist, d.plain, d.vol) /\ Sound(d.mgr, d.ilist, d.olist) /\ Pairs(d.mgr.bank)
    BY <1>2, <1>5 DEF DriverOK
  <2>2. Sound(n, d.ilist, d.olist) /\ Table(n.bank) /\ AllKnown(n, d.ilist, d.olist)
    BY <1>4, <2>1, ReadBackIs
  <2> HIDE DEF n
  <2>3. QED
    BY <2>1, <2>2 DEF MgrOK
<1> HIDE DEF n
<1>6. granted' => MgrOK(mgr', ilist', olist', plain', vol')
  BY <1>3, <1>5 DEF n
<1>7. edits' \in 0 .. MaxEdits /\ loads' \in -1 .. MaxLoads /\ granted' \in BOOLEAN
  BY <1>2, <1>3, Bounds
<1>8. /\ Apart(ilist', olist') /\ plain' \in Routes /\ vol' \in Routes
      /\ ListsOK(driver') /\ (granted' => DriverOK(driver'))
  BY <1>2, <1>3, <1>4
<1>9. QED
  BY <1>6, <1>7, <1>8 DEF IInv

LEMMA ExitStep == IInv /\ Exit => IInv'
<1>1. SUFFICES ASSUME IInv, Exit PROVE IInv'
  OBVIOUS
<1>2. /\ loads' = -1 /\ edits' = 0 /\ ilist' = <<>> /\ olist' = <<>>
      /\ plain' = NoRoutes /\ vol' = NoRoutes /\ driver' = driver /\ granted' = granted
  BY <1>1 DEF Exit
<1>3. /\ edits' \in 0 .. MaxEdits /\ loads' \in -1 .. MaxLoads /\ granted' \in BOOLEAN
      /\ ListsOK(driver') /\ (granted' => DriverOK(driver'))
  BY <1>1, <1>2, Bounds DEF IInv
<1>4. Apart(ilist', olist') /\ plain' \in Routes /\ vol' \in Routes
  BY <1>2, NoLists
<1>5. QED
  BY <1>2, <1>3, <1>4 DEF IInv

\* A command is given before the load.
LEMMA EditingOK ==
    ASSUME MaxLoads = 1, IInv, Editing
    PROVE  /\ loads = 0 /\ granted /\ granted \in BOOLEAN /\ edits' \in 0 .. MaxEdits
           /\ Apart(ilist, olist) /\ plain \in Routes /\ vol \in Routes /\ ListsOK(driver) /\ DriverOK(driver)
           /\ Sound(mgr, ilist, olist) /\ Table(mgr.bank) /\ AllKnown(mgr, ilist, olist) /\ FedAll(olist, plain, vol)
<1>1. loads = 0 /\ granted
  BY DEF Editing, Open
<1>2. edits' \in 0 .. MaxEdits
  BY Bounds DEF IInv, Editing
<1>3. QED
  BY <1>1, <1>2 DEF IInv, MgrOK

LEMMA ConnectStep ==
    ASSUME MaxLoads = 1, IInv, NEW r \in Connections, Connect(r[1], r[2], r[3])
    PROVE  IInv'
<1> DEFINE i == r[1]
           o == r[2]
           kind == r[3]
<1>1. i \in Lines /\ o \in Lines /\ kind \in {"plain", "volume"}
  BY Bounds
<1>2. /\ Editing
      /\ plain' = [plain EXCEPT ![o] = IF kind = "plain" THEN @ \cup {i} ELSE @ \ {i}]
      /\ vol' = [vol EXCEPT ![o] = IF kind = "volume" THEN @ \cup {i} ELSE @ \ {i}]
      /\ loads' = loads /\ ilist' = ilist /\ olist' = olist /\ mgr' = mgr /\ driver' = driver /\ granted' = granted
  BY DEF Connect
<1> HIDE DEF i, o, kind
<1>3. /\ loads = 0 /\ granted \in BOOLEAN /\ edits' \in 0 .. MaxEdits
      /\ Apart(ilist, olist) /\ plain \in Routes /\ vol \in Routes /\ ListsOK(driver) /\ DriverOK(driver)
      /\ Sound(mgr, ilist, olist) /\ Table(mgr.bank) /\ AllKnown(mgr, ilist, olist) /\ FedAll(olist, plain, vol)
  BY <1>2, EditingOK
<1>4. plain' \in Routes /\ vol' \in Routes
  BY <1>1, <1>2, <1>3 DEF Routes
<1>5. ASSUME NEW l \in Lines, plain[l] \cup vol[l] # {} PROVE plain'[l] \cup vol'[l] # {}
  <2>1. CASE l = o
    <3>1. i \in plain'[l] \cup vol'[l]
      BY <1>1, <1>2, <1>3, <2>1 DEF Routes
    <3>2. QED
      BY <3>1
  <2>2. CASE l # o
    BY <1>2, <1>3, <1>5, <2>2 DEF Routes
  <2>3. QED
    BY <2>1, <2>2
<1>6. FedAll(olist, plain', vol')
  <2>1. \A p \in ToSet(olist) : p \in Patches /\ LinesOf[p] \subseteq Lines
    BY <1>3, ApartFacts, Sizes
  <2>2. QED
    BY <1>3, <1>5, <2>1 DEF FedAll
<1>7. MgrOK(mgr', ilist', olist', plain', vol')
  BY <1>2, <1>3, <1>6 DEF MgrOK
<1>8. loads' \in -1 .. MaxLoads
  BY <1>2, <1>3, Bounds
<1>9. QED
  BY <1>2, <1>3, <1>4, <1>7, <1>8 DEF IInv

LEMMA DisconnectStep ==
    ASSUME MaxLoads = 1, IInv, NEW r \in Connections, Disconnect(r[1], r[2])
    PROVE  IInv'
<1> DEFINE i == r[1]
           o == r[2]
<1>1. i \in Lines /\ o \in Lines
  BY Bounds
<1>2. /\ Editing
      /\ plain' = [plain EXCEPT ![o] = @ \ {i}]
      /\ vol' = [vol EXCEPT ![o] = @ \ {i}]
      /\ (\E p \in ToSet(olist) : o \in LinesOf[p]) => plain'[o] \cup vol'[o] # {}
      /\ loads' = loads /\ ilist' = ilist /\ olist' = olist /\ mgr' = mgr /\ driver' = driver /\ granted' = granted
  BY DEF Disconnect
<1> HIDE DEF i, o
<1>3. /\ loads = 0 /\ granted \in BOOLEAN /\ edits' \in 0 .. MaxEdits
      /\ Apart(ilist, olist) /\ plain \in Routes /\ vol \in Routes /\ ListsOK(driver) /\ DriverOK(driver)
      /\ Sound(mgr, ilist, olist) /\ Table(mgr.bank) /\ AllKnown(mgr, ilist, olist) /\ FedAll(olist, plain, vol)
  BY <1>2, EditingOK
<1>4. plain' \in Routes /\ vol' \in Routes
  BY <1>1, <1>2, <1>3 DEF Routes
<1>5. FedAll(olist, plain', vol')
  <2>1. \A p \in ToSet(olist) : p \in Patches /\ LinesOf[p] \subseteq Lines
    BY <1>3, ApartFacts, Sizes
  <2>2. ASSUME NEW p \in ToSet(olist), NEW l \in LinesOf[p] PROVE plain'[l] \cup vol'[l] # {}
    <3>1. CASE l = o
      BY <1>2, <3>1
    <3>2. CASE l # o
      <4>1. l \in Lines /\ plain[l] \cup vol[l] # {}
        BY <1>3, <2>1 DEF FedAll
      <4>2. plain'[l] = plain[l] /\ vol'[l] = vol[l]
        BY <1>2, <1>3, <3>2, <4>1 DEF Routes
      <4>3. QED
        BY <4>1, <4>2
    <3>3. QED
      BY <3>1, <3>2
  <2>3. QED
    BY <2>2 DEF FedAll
<1>6. MgrOK(mgr', ilist', olist', plain', vol')
  BY <1>2, <1>3, <1>5 DEF MgrOK
<1>7. loads' \in -1 .. MaxLoads
  BY <1>2, <1>3, Bounds
<1>8. QED
  BY <1>2, <1>3, <1>4, <1>6, <1>7 DEF IInv

LEMMA ReadPatchStep ==
    ASSUME MaxLoads = 1, <<"out", "last">> \notin Places, IInv,
           NEW p \in Patches, ReadPatch(p)
    PROVE  IInv'
<1> DEFINE n == WithPatch(p, ReadHeader(p))
<1>1. /\ Editing /\ p \notin Loaded
      /\ \/ ilist' \in Placed("in", ilist, p) /\ olist' = olist
         \/ /\ \A l \in LinesOf[p] : Fed(l)
            /\ olist' \in Placed("out", olist, p) /\ ilist' = ilist
      /\ mgr' = n
      /\ loads' = loads /\ plain' = plain /\ vol' = vol /\ driver' = driver /\ granted' = granted
  BY DEF ReadPatch
<1>2. /\ loads = 0 /\ granted \in BOOLEAN /\ edits' \in 0 .. MaxEdits
      /\ Apart(ilist, olist) /\ plain \in Routes /\ vol \in Routes /\ ListsOK(driver) /\ DriverOK(driver)
      /\ Sound(mgr, ilist, olist) /\ Table(mgr.bank) /\ AllKnown(mgr, ilist, olist) /\ FedAll(olist, plain, vol)
  BY <1>1, EditingOK
<1>3. p \notin ToSet(ilist) \cup ToSet(olist)
  BY <1>1, <1>2, ApartFacts, Joined DEF Loaded
<1>4. /\ n \in Mgrs /\ Counted(n) /\ Table(n.bank) /\ \A q \in Patches : q # p => n.prog[q] = mgr.prog[q]
      /\ \A q \in Patches : q # p => \A g \in mgr.prog[q].used : n.bank.line[g] = mgr.bank.line[g]
      /\ Whole(n.bank, p, n.prog[p])
      /\ \A l \in LinesOf[p] : n.prog[p].rd[l] \in GprOps /\ n.prog[p].wr[l] \in GprOps /\ Known(n, p, l)
  BY <1>2, <1>3, WithPatchIs
<1> HIDE DEF n
<1>5. \/ ilist' \in AtEnds(ilist, p) /\ olist' = olist
      \/ ilist' = ilist /\ olist' = <<p>> \o olist /\ \A l \in LinesOf[p] : Fed(l)
  <2>1. \A x \in Placed("in", ilist, p) : x \in AtEnds(ilist, p)
    BY DEF Placed, AtEnds
  <2>2. \A x \in Placed("out", olist, p) : x = <<p>> \o olist
    BY DEF Placed
  <2>3. QED
    BY <1>1, <2>1, <2>2
<1> DEFINE jl == ilist'
           kl == olist'
<1>6. \/ jl \in AtEnds(ilist, p) /\ kl = olist
      \/ jl = ilist /\ kl = <<p>> \o olist
  BY <1>5
<1> HIDE DEF jl, kl
<1>7. /\ Apart(jl, kl) /\ Sound(n, jl, kl) /\ AllKnown(n, jl, kl)
      /\ \A q \in ToSet(kl) : q \in ToSet(olist) \/ (q = p /\ kl # olist)
  <2>1. Apart(ilist, olist) /\ Sound(mgr, ilist, olist) /\ AllKnown(mgr, ilist, olist)
    BY <1>2
  <2>2. /\ n \in Mgrs /\ Counted(n) /\ \A q \in Patches : q # p => n.prog[q] = mgr.prog[q]
        /\ \A q \in Patches : q # p => \A g \in mgr.prog[q].used : n.bank.line[g] = mgr.bank.line[g]
        /\ Whole(n.bank, p, n.prog[p])
    BY <1>4
  <2>3. \A l \in LinesOf[p] : n.prog[p].rd[l] \in GprOps /\ n.prog[p].wr[l] \in GprOps /\ Known(n, p, l)
    BY <1>4
  <2>4. QED
    BY <1>3, <1>6, <2>1, <2>2, <2>3, PatchAdded
<1>8. FedAll(kl, plain, vol)
  <2>1. kl # olist => \A l \in LinesOf[p] : plain[l] \cup vol[l] # {}
    BY <1>5 DEF kl, Fed
  <2>2. QED
    BY <1>2, <1>7, <2>1 DEF FedAll
<1>9. MgrOK(n, jl, kl, plain, vol)
  BY <1>4, <1>7, <1>8 DEF MgrOK
<1>10. MgrOK(mgr', ilist', olist', plain', vol')
  BY <1>1, <1>9 DEF jl, kl
<1>11. loads' \in -1 .. MaxLoads /\ Apart(ilist', olist')
  BY <1>1, <1>2, <1>7, Bounds DEF jl, kl
<1>12. QED
  BY <1>1, <1>2, <1>10, <1>11 DEF IInv

LEMMA UnloadPatchStep ==
    ASSUME MaxLoads = 1, IInv, NEW p \in Patches, UnloadPatch(p)
    PROVE  IInv'
<1> DEFINE n == [mgr EXCEPT !.bank = FreeGprs(@, mgr.prog[p].used, Gprs).b, !.prog[p] = NoProg]
           jl == Among(ilist, Patches \ {p})
           kl == Among(olist, Patches \ {p})
<1>1. /\ Editing /\ ilist' = jl /\ olist' = kl /\ mgr' = n
      /\ loads' = loads /\ plain' = plain /\ vol' = vol /\ driver' = driver /\ granted' = granted
  BY DEF UnloadPatch
<1>2. /\ loads = 0 /\ granted \in BOOLEAN /\ edits' \in 0 .. MaxEdits
      /\ Apart(ilist, olist) /\ plain \in Routes /\ vol \in Routes /\ ListsOK(driver) /\ DriverOK(driver)
      /\ Sound(mgr, ilist, olist) /\ Table(mgr.bank) /\ AllKnown(mgr, ilist, olist) /\ FedAll(olist, plain, vol)
  BY <1>1, EditingOK
<1>3. /\ Apart(jl, kl) /\ Sound(n, jl, kl) /\ Table(n.bank) /\ AllKnown(n, jl, kl) /\ ToSet(kl) \subseteq ToSet(olist)
  BY Zenon, <1>2, PatchRemoved
<1> HIDE DEF n, jl, kl
<1>4. MgrOK(n, jl, kl, plain, vol)
  BY <1>2, <1>3 DEF MgrOK, FedAll
<1>5. loads' \in -1 .. MaxLoads
  BY <1>1, <1>2, Bounds
<1>6. QED
  BY <1>1, <1>2, <1>3, <1>4, <1>5 DEF IInv

LEMMA UnloadAllStep ==
    ASSUME MaxLoads = 1, IInv, UnloadAll
    PROVE  IInv'
<1>1. /\ Editing /\ ilist' = <<>> /\ olist' = <<>> /\ plain' = NoRoutes /\ vol' = NoRoutes
      /\ mgr' = NoMgr /\ loads' = loads /\ driver' = driver /\ granted' = granted
  BY DEF UnloadAll
<1>2. /\ loads = 0 /\ granted \in BOOLEAN /\ edits' \in 0 .. MaxEdits
      /\ ListsOK(driver) /\ DriverOK(driver)
  BY <1>1, EditingOK
<1>3. MgrOK(NoMgr, <<>>, <<>>, NoRoutes, NoRoutes)
  BY NoMgrIs
<1>4. loads' \in -1 .. MaxLoads
  BY <1>1, <1>2, Bounds
<1>5. QED
  BY <1>1, <1>2, <1>3, <1>4, NoLists DEF IInv

LEMMA LoadStep ==
    ASSUME MaxLoads = 1, IInv, Load
    PROVE  IInv'
<1> DEFINE n == SetIoGprs(mgr)
           s == Saved(n)
<1>1. /\ Open /\ loads' = loads + 1 /\ edits' = edits /\ ilist' = ilist /\ olist' = olist
      /\ plain' = plain /\ vol' = vol
      /\ driver' = [ilist |-> ilist, olist |-> olist, plain |-> plain, vol |-> vol, mgr |-> s]
      /\ granted' = (granted /\ \A l \in Lines : ~Starves(mgr, ilist, l))
  BY DEF Load, Written
<1>2. loads = 0 /\ granted
  BY <1>1 DEF Open
<1>3. /\ Apart(ilist, olist) /\ plain \in Routes /\ vol \in Routes
      /\ Sound(mgr, ilist, olist) /\ Table(mgr.bank) /\ AllKnown(mgr, ilist, olist) /\ FedAll(olist, plain, vol)
  BY <1>2 DEF IInv, MgrOK
<1>4. ASSUME \A l \in Lines : ~Starves(mgr, ilist, l)
      PROVE  Sound(s, ilist, olist) /\ Pairs(s.bank) /\ Chained(s, ilist, olist)
  <2>1. ilist \in Seq(Patches) /\ mgr.bank \in Banks /\ \A p \in ToSet(ilist) : Whole(mgr.bank, p, mgr.prog[p])
    BY <1>3, ApartFacts, MgrFacts DEF Sound
  <2>2. \A l \in Lines : Spared(mgr, OnLine(ilist, l), l)
    BY <1>4, <2>1, SparedIs
  <2>3. /\ Sound(n, ilist, olist) /\ Table(n.bank)
        /\ \A l \in Lines : InChain(n, ilist, l) /\ OutChain(n, olist, l)
    BY <1>3, <2>2, SetIs
  <2> HIDE DEF n
  <2>4. QED
    BY <1>3, <2>3, SavedIs
<1> HIDE DEF n, s
<1>5. /\ driver'.ilist = ilist /\ driver'.olist = olist /\ driver'.plain = plain /\ driver'.vol = vol
      /\ driver'.mgr = s
  BY <1>1
<1>6. granted' => DriverOK(driver')
  BY <1>1, <1>3, <1>4, <1>5 DEF DriverOK
<1>7. ListsOK(driver')
  BY <1>3, <1>5 DEF ListsOK
<1>8. loads' = 1 /\ loads' \in -1 .. MaxLoads /\ edits' \in 0 .. MaxEdits /\ granted' \in BOOLEAN
  BY <1>1, <1>2, Bounds DEF IInv
<1>9. QED
  BY <1>1, <1>3, <1>6, <1>7, <1>8 DEF IInv

LEMMA StepOK ==
    ASSUME MaxLoads = 1, <<"out", "last">> \notin Places
    PROVE  IInv /\ [Next]_vars => IInv'
<1>1. SUFFICES ASSUME IInv, [Next]_vars PROVE IInv'
  OBVIOUS
<1>2. CASE Start
  BY <1>1, <1>2, StartStep
<1>3. CASE Exit
  BY <1>1, <1>3, ExitStep
<1>4. ASSUME NEW r \in Connections, Connect(r[1], r[2], r[3]) PROVE IInv'
  BY <1>1, <1>4, ConnectStep
<1>5. ASSUME NEW r \in Connections, Disconnect(r[1], r[2]) PROVE IInv'
  BY <1>1, <1>5, DisconnectStep
<1>6. ASSUME NEW p \in Patches, ReadPatch(p) PROVE IInv'
  BY <1>1, <1>6, ReadPatchStep
<1>7. ASSUME NEW p \in Patches, UnloadPatch(p) PROVE IInv'
  BY <1>1, <1>7, UnloadPatchStep
<1>8. CASE UnloadAll
  BY <1>1, <1>8, UnloadAllStep
<1>9. CASE Load
  BY <1>1, <1>9, LoadStep
<1>10. CASE UNCHANGED vars
  BY <1>1, <1>10 DEF IInv, vars
<1>11. QED
  BY <1>1, <1>2, <1>3, <1>4, <1>5, <1>6, <1>7, <1>8, <1>9, <1>10 DEF Next

-----------------------------------------------------------------------------
(* Theorems: a process loads once, and puts no patch last on output lines. *)

LEMMA Always ==
    ASSUME MaxLoads = 1, <<"out", "last">> \notin Places
    PROVE  Spec => []IInv
<1>1. IInv /\ [Next]_vars => IInv'
  BY StepOK
<1>2. QED
  BY <1>1, InitOK, PTL DEF Spec

\* The lists and counters keep their types, and every operand of loaded code is a line or
\* a gpr that is in use, unless get_gpr() has refused one (match_io(), construct_routing()).
THEOREM TypeCorrect ==
    ASSUME MaxLoads = 1, <<"out", "last">> \notin Places
    PROVE  Spec => []TypeOK
<1>1. IInv => TypeOK
  <2>1. SUFFICES ASSUME IInv PROVE TypeOK
    OBVIOUS
  <2>2. /\ loads \in -1 .. MaxLoads /\ edits \in 0 .. MaxEdits /\ granted \in BOOLEAN
        /\ Apart(ilist, olist) /\ ListsOK(driver) /\ (granted => DriverOK(driver))
    BY <2>1 DEF IInv
  <2>3. Loaded \subseteq Patches /\ Len(ilist \o olist) = Cardinality(Loaded)
    <3> DEFINE s == ilist \o olist
    <3>1. s \in Seq(Patches) /\ Distinct(s)
      BY <2>2, ApartFacts, Joined, JoinedDistinct
    <3> HIDE DEF s
    <3>2. Cardinality(ToSet(s)) = Len(s) /\ ToSet(s) \subseteq Patches
      BY <3>1, DistinctLength DEF ToSet
    <3>3. QED
      BY <3>2 DEF Loaded, s
  <2>4. ASSUME granted
        PROVE  \A p \in ToSet(InDriver) : \A l \in LinesOf[p] : \A r \in {D.prog[p].rd[l], D.prog[p].wr[l]} :
                  r # None /\ (IsGpr(r) => D.bank.usage[r[2]] > 0)
    <3> DEFINE d == driver
               m == d.mgr
    <3>1. Apart(d.ilist, d.olist) /\ Sound(m, d.ilist, d.olist)
      BY <2>2, <2>4 DEF ListsOK, DriverOK
    <3> HIDE DEF m, d
    <3>2. ASSUME NEW p \in ToSet(d.ilist \o d.olist), NEW l \in LinesOf[p], NEW r \in {m.prog[p].rd[l], m.prog[p].wr[l]}
          PROVE  r # None /\ (IsGpr(r) => m.bank.usage[r[2]] > 0)
      <4>1. p \in ToSet(d.ilist) \cup ToSet(d.olist) /\ p \in Patches
        BY <3>1, ApartFacts, Joined
      <4>2. m \in Mgrs /\ Counted(m) /\ AtLine(m.bank, m.prog[p], l)
        BY <3>1, <4>1 DEF Sound, Whole
      <4>3. r \in {In(l), Out(l)} \cup GprOps
        BY <4>2 DEF AtLine
      <4>4. CASE r \in {In(l), Out(l)}
        BY <4>4, OperandFacts
      <4>5. CASE r \in GprOps
        <5>1. PICK g \in Gprs : r = Gpr(g)
          BY <4>5 DEF GprOps
        <5>2. g \in m.prog[p].used
          BY <4>2, <5>1 DEF AtLine
        <5>3. m.bank.usage[g] > 0
          BY <4>1, <4>2, <5>2, InUse
        <5>4. r[2] = g /\ r # None
          BY <5>1, OperandFacts DEF Gpr
        <5>5. QED
          BY <5>3, <5>4
      <4>6. QED
        BY <4>3, <4>4, <4>5
    <3>3. QED
      BY <3>2 DEF InDriver, D, d, m
  <2>5. QED
    BY <2>2, <2>3, <2>4 DEF TypeOK
<1>2. QED
  BY <1>1, Always, PTL

\* While get_gpr() refuses match_io() nothing, no line has a third IO gpr in the driver, so
\* that no later dsp_init() exits over the table of them (get_io_gpr(), init_io_gprs_table()).
THEOREM TwoPerLineAlways ==
    ASSUME MaxLoads = 1, <<"out", "last">> \notin Places
    PROVE  Spec => [](granted => TwoPerLine)
<1>1. IInv => (granted => TwoPerLine)
  BY DEF IInv, DriverOK, Pairs, TwoPerLine, D
<1>2. QED
  BY <1>1, Always, PTL

\* The next process finds out from gprs and their bits alone what the code of every patch
\* reads and writes, unless get_gpr() has refused match_io() one (determine_io()).
THEOREM FoundAgainAlways ==
    ASSUME MaxLoads = 1, <<"out", "last">> \notin Places
    PROVE  Spec => []FoundAgain
<1>1. IInv => FoundAgain
  <2>1. SUFFICES ASSUME IInv, granted PROVE FoundAgain
    BY DEF FoundAgain
  <2> DEFINE d == driver
             n == ReadBack(d.mgr, d.ilist \o d.olist)
  <2>2. Apart(d.ilist, d.olist) /\ Sound(d.mgr, d.ilist, d.olist) /\ Pairs(d.mgr.bank)
    BY <2>1 DEF IInv, DriverOK, ListsOK
  <2>3. AllKnown(n, d.ilist, d.olist)
    BY <2>2, ReadBackIs
  <2>4. ToSet(d.ilist \o d.olist) = ToSet(d.ilist) \cup ToSet(d.olist)
    BY <2>2, ApartFacts, Joined
  <2> HIDE DEF n, d
  <2>5. \A p \in ToSet(d.ilist \o d.olist) : \A l \in LinesOf[p] : n.prog[p].in[l] = n.prog[p].rd[l] /\ n.prog[p].out[l] = n.prog[p].wr[l]
    BY <2>3, <2>4 DEF AllKnown, Known
  <2>6. QED
    BY <2>5 DEF FoundAgain, InDriver, D, n, d
<1>2. QED
  BY <1>1, Always, PTL

\* In the driver, the first patch of an input line reads the line, every other patch of a
\* line what the one before it wrote, and the last patch of an output line writes the
\* line: match_io() passes none by ("maintain the correctness of the lines",
\* mixer/doc/README:94), unless get_gpr() has refused it a gpr.
THEOREM ChainedAlways ==
    ASSUME MaxLoads = 1, <<"out", "last">> \notin Places
    PROVE  Spec => [](granted => Chained(driver.mgr, driver.ilist, driver.olist))
<1>1. IInv => (granted => Chained(driver.mgr, driver.ilist, driver.olist))
  BY DEF IInv, DriverOK
<1>2. QED
  BY <1>1, Always, PTL
=============================================================================
