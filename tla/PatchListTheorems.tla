------------------------- MODULE PatchListTheorems -------------------------
(***************************************************************************)
(* Facts about lists of patches, and about sums over finite sets: the fold *)
(* behind MapThenSumSet has exactly one value, whichever element it takes  *)
(* next.                                                                   *)
(***************************************************************************)
EXTENDS PatchLists, Integers, FiniteSets, FiniteSetsExt, FiniteSetTheorems, WellFoundedInduction, TLAPS

SumOver(v, S) == MapThenSumSet(LAMBDA x : v[x], S)

-----------------------------------------------------------------------------
(* Numbers.                                                                *)

\* The least natural number of a set of them.
LEMMA LeastNat ==
    ASSUME NEW B \in SUBSET Nat, B # {}
    PROVE  \E n \in B : \A k \in B : n <= k
<1>1. PICK n \in B : \A k \in B : <<k, n>> \notin OpToRel(<, Nat)
  BY NatLessThanWellFounded, WFMin
<1>2. \A k \in B : ~(k < n)
  BY <1>1 DEF OpToRel
<1>3. QED
  BY <1>2

LEMMA Induction ==
    ASSUME NEW n \in Nat, NEW J, 0 \in J, \A k \in 0 .. n - 1 : k \in J => k + 1 \in J
    PROVE  \A k \in 0 .. n : k \in J
<1> DEFINE B == {k \in 0 .. n : k \notin J}
<1>1. SUFFICES ASSUME B # {} PROVE FALSE
  OBVIOUS
<1>2. B \in SUBSET Nat /\ \A k \in B : k \in 0 .. n /\ k \notin J
  OBVIOUS
<1>3. \A k \in 0 .. n : k \notin B => k \in J
  OBVIOUS
<1> HIDE DEF B
<1>4. PICK k \in B : \A j \in B : k <= j
  BY <1>1, <1>2, LeastNat
<1>5. k # 0 /\ k - 1 \in 0 .. n - 1
  BY <1>2
<1>6. k - 1 \in J
  BY <1>2, <1>3, <1>4, <1>5
<1>7. k - 1 + 1 \in J
  BY <1>5, <1>6
<1>8. QED
  BY <1>2, <1>7

-----------------------------------------------------------------------------
(* The recursion.                                                          *)

Choice(t) == CHOOSE x \in t : TRUE

\* g is the sum of every part of D.
IsSum(v, D, g) ==
    g = [t \in SUBSET D |-> IF t = {} THEN 0 ELSE v[Choice(t)] + g[t \ {Choice(t)}]]

TheSum(v, D) == CHOOSE g : IsSum(v, D, g)

LEMMA SumIsRecursive == ASSUME NEW v, NEW D PROVE SumOver(v, D) = TheSum(v, D)[D]
  BY DEF SumOver, MapThenSumSet, MapThenFoldSet, TheSum, IsSum, Choice

LEMMA ChoiceIn == ASSUME NEW t, t # {} PROVE Choice(t) \in t
  BY DEF Choice

\* A set of parts of a finite set that is not empty has a least one.
LEMMA LeastPart ==
    ASSUME NEW S, IsFiniteSet(S), NEW B \in SUBSET (SUBSET S), B # {}
    PROVE  \E s \in B : \A t \in B : ~(t \subseteq s /\ t # s)
<1>1. B \subseteq FiniteSubsetsOf(S)
  BY FS_Subset DEF FiniteSubsetsOf
<1>2. PICK s \in B : \A t \in B : <<t, s>> \notin StrictSubsetOrdering(S)
  BY <1>1, FS_StrictSubsetOrderingWellFounded, WFMin
<1>3. \A t \in B : ~(t \subseteq s /\ t # s)
  BY <1>2 DEF StrictSubsetOrdering
<1>4. QED
  BY <1>3

\* Two sums agree where both are.
LEMMA SumsAgree ==
    ASSUME NEW S, IsFiniteSet(S), NEW v, NEW D \in SUBSET S, NEW E \in SUBSET S,
           NEW g, NEW h, IsSum(v, D, g), IsSum(v, E, h), NEW s \in SUBSET D, s \subseteq E
    PROVE  g[s] = h[s]
<1> DEFINE B == {t \in SUBSET s : g[t] # h[t]}
<1>1. SUFFICES ASSUME B # {} PROVE FALSE
  OBVIOUS
<1>2. PICK t \in B : \A u \in B : ~(u \subseteq t /\ u # t)
  <2>1. B \in SUBSET (SUBSET S)
    OBVIOUS
  <2> HIDE DEF B
  <2>2. QED
    BY <1>1, <2>1, LeastPart
<1> DEFINE c == Choice(t)
           u == t \ {c}
<1>3. /\ t \in SUBSET D /\ t \in SUBSET E
      /\ t # {} => /\ g[t] = v[c] + g[u]
                   /\ h[t] = v[c] + h[u]
      /\ t = {} => g[t] = 0 /\ h[t] = 0
  BY DEF IsSum
<1>4. t # {} => g[u] = h[u]
  <2>1. t # {} => u \subseteq t /\ u # t /\ u \in SUBSET s
    BY ChoiceIn
  <2>2. QED
    BY <1>2, <2>1
<1>5. g[t] # h[t]
  OBVIOUS
<1> HIDE DEF B, c, u
<1>6. QED
  BY <1>3, <1>4, <1>5

\* Every finite set has one.
LEMMA SumExists ==
    ASSUME NEW S, IsFiniteSet(S), NEW v
    PROVE  \A D \in SUBSET S : \E g : IsSum(v, D, g)
<1> DEFINE B == {D \in SUBSET S : ~ \E g : IsSum(v, D, g)}
<1>1. SUFFICES ASSUME B # {} PROVE FALSE
  OBVIOUS
<1>2. PICK D \in B : \A E \in B : ~(E \subseteq D /\ E # D)
  <2>1. B \in SUBSET (SUBSET S)
    OBVIOUS
  <2> HIDE DEF B
  <2>2. QED
    BY <1>1, <2>1, LeastPart
<1>3. D \in SUBSET S /\ ~ \E g : IsSum(v, D, g)
  OBVIOUS
<1> DEFINE G(E) == TheSum(v, E)
           Rest(t) == t \ {Choice(t)}
           h == [t \in SUBSET D |-> IF t = {} THEN 0 ELSE v[Choice(t)] + G(Rest(t))[Rest(t)]]
<1>4. ASSUME NEW E \in SUBSET D, E # D PROVE IsSum(v, E, G(E))
  <2>1. \E g : IsSum(v, E, g)
    BY <1>2, <1>4
  <2>2. QED
    BY <2>1 DEF TheSum
<1>5. ASSUME NEW t \in SUBSET D, t # {} PROVE Rest(t) \in SUBSET D /\ Rest(t) # D /\ Choice(t) \in t
  BY <1>5, ChoiceIn
<1> HIDE DEF B, G
<1>6. ASSUME NEW t \in SUBSET D, t # {} PROVE h[Rest(t)] = G(Rest(t))[Rest(t)]
  <2> DEFINE u == Rest(t)
  <2>1. u \in SUBSET D /\ u # D
    BY <1>5, <1>6
  <2>2. IsSum(v, u, G(u))
    BY <1>4, <2>1
  <2>3. CASE u = {}
    <3>1. G(u)[u] = 0
      BY <2>2, <2>3 DEF IsSum
    <3>2. h[u] = 0
      BY <2>1, <2>3
    <3>3. QED
      BY <3>1, <3>2
  <2>4. CASE u # {}
    <3>1. Rest(u) \in SUBSET D /\ Rest(u) # D /\ Rest(u) \subseteq u
      BY <1>5, <2>1, <2>4
    <3>2. IsSum(v, Rest(u), G(Rest(u)))
      BY <1>4, <3>1
    <3>3. G(u)[u] = v[Choice(u)] + G(u)[Rest(u)]
      BY <2>2, <2>4 DEF IsSum
    <3>4. h[u] = v[Choice(u)] + G(Rest(u))[Rest(u)]
      BY <2>1, <2>4
    <3>5. G(u)[Rest(u)] = G(Rest(u))[Rest(u)]
      <4> DEFINE w == Rest(u)
      <4>1. u \in SUBSET S /\ w \in SUBSET S /\ w \in SUBSET u
        BY <1>3, <2>1, <3>1
      <4>2. IsSum(v, w, G(w)) /\ w \subseteq w
        BY <3>2
      <4> HIDE DEF h, u, Rest, w
      <4>3. G(u)[w] = G(w)[w]
        BY <2>2, <4>1, <4>2, SumsAgree
      <4>4. QED
        BY <4>3 DEF w
    <3>6. QED
      BY <3>3, <3>4, <3>5
  <2>5. QED
    BY <2>3, <2>4
<1>7. h = [t \in SUBSET D |-> IF t = {} THEN 0 ELSE v[Choice(t)] + h[Rest(t)]]
  <2> HIDE DEF Rest
  <2>1. \A t \in SUBSET D : t # {} => h[Rest(t)] = G(Rest(t))[Rest(t)]
    BY <1>6
  <2>2. QED
    BY <2>1
<1>8. IsSum(v, D, h)
  BY <1>7 DEF IsSum
<1>9. QED
  BY <1>3, <1>8

-----------------------------------------------------------------------------
(* What is cited.                                                          *)

LEMMA SumEmpty == ASSUME NEW v PROVE SumOver(v, {}) = 0
<1>1. IsFiniteSet({})
  BY FS_EmptySet
<1>2. IsSum(v, {}, TheSum(v, {}))
  BY <1>1, SumExists DEF TheSum
<1>3. TheSum(v, {})[{}] = 0
  BY <1>2 DEF IsSum
<1>4. QED
  BY <1>3, SumIsRecursive

LEMMA SumStep ==
    ASSUME NEW S, IsFiniteSet(S), S # {}, NEW v
    PROVE  SumOver(v, S) = v[Choice(S)] + SumOver(v, S \ {Choice(S)})
<1> DEFINE u == S \ {Choice(S)}
<1>1. u \in SUBSET S /\ S \in SUBSET S
  OBVIOUS
<1>2. IsSum(v, S, TheSum(v, S)) /\ IsSum(v, u, TheSum(v, u))
  BY <1>1, SumExists DEF TheSum
<1>3. TheSum(v, S)[S] = v[Choice(S)] + TheSum(v, S)[u]
  BY <1>2 DEF IsSum
<1> HIDE DEF u
<1>4. TheSum(v, S)[u] = TheSum(v, u)[u]
  BY <1>1, <1>2, SumsAgree
<1>5. QED
  BY <1>3, <1>4, SumIsRecursive DEF u

LEMMA SumType ==
    ASSUME NEW S, IsFiniteSet(S), NEW v, \A x \in S : v[x] \in Nat
    PROVE  SumOver(v, S) \in Nat
<1> DEFINE B == {D \in SUBSET S : SumOver(v, D) \notin Nat}
<1>1. SUFFICES ASSUME B # {} PROVE FALSE
  OBVIOUS
<1>2. PICK D \in B : \A E \in B : ~(E \subseteq D /\ E # D)
  <2>1. B \in SUBSET (SUBSET S)
    OBVIOUS
  <2> HIDE DEF B
  <2>2. QED
    BY <1>1, <2>1, LeastPart
<1>3. D # {} /\ IsFiniteSet(D) /\ D \in SUBSET S
  <2>1. D # {}
    BY SumEmpty
  <2>2. D \in SUBSET S
    OBVIOUS
  <2>3. QED
    BY <2>1, <2>2, FS_Subset
<1> DEFINE c == Choice(D)
           E == D \ {c}
<1>4. c \in D /\ E \in SUBSET S /\ E \subseteq D /\ E # D
  BY <1>3, ChoiceIn
<1>5. SumOver(v, E) \in Nat /\ v[c] \in Nat
  BY <1>2, <1>4
<1>6. SumOver(v, D) = v[c] + SumOver(v, E)
  BY <1>3, SumStep
<1>7. SumOver(v, D) \notin Nat
  OBVIOUS
<1> HIDE DEF B, c, E
<1>8. QED
  BY <1>5, <1>6, <1>7

\* Any element may be taken first.
LEMMA SumTake ==
    ASSUME NEW S, IsFiniteSet(S), NEW v, \A x \in S : v[x] \in Nat, NEW x \in S
    PROVE  SumOver(v, S) = v[x] + SumOver(v, S \ {x})
<1> DEFINE Ok(D) == \A y \in D : SumOver(v, D) = v[y] + SumOver(v, D \ {y})
           B == {D \in SUBSET S : ~Ok(D)}
<1>1. SUFFICES ASSUME B # {} PROVE FALSE
  OBVIOUS
<1>2. PICK D \in B : \A E \in B : ~(E \subseteq D /\ E # D)
  <2>1. B \in SUBSET (SUBSET S)
    OBVIOUS
  <2> HIDE DEF B
  <2>2. QED
    BY <1>1, <2>1, LeastPart
<1>3. PICK y \in D : SumOver(v, D) # v[y] + SumOver(v, D \ {y})
  OBVIOUS
<1>4. D \in SUBSET S /\ IsFiniteSet(D) /\ D # {}
  BY FS_Subset
<1> DEFINE c == Choice(D)
<1>5. c \in D /\ SumOver(v, D) = v[c] + SumOver(v, D \ {c})
  BY <1>4, ChoiceIn, SumStep
<1>6. c # y
  BY <1>3, <1>5
<1> DEFINE E == D \ {c}
           F == D \ {y}
           both == (D \ {c}) \ {y}
<1>7. /\ E \in SUBSET S /\ E \subseteq D /\ E # D /\ y \in E
      /\ F \in SUBSET S /\ F \subseteq D /\ F # D /\ c \in F
  BY <1>4, <1>5, <1>6
<1>8. Ok(E) /\ Ok(F)
  BY <1>2, <1>7
<1>9. E \ {y} = both /\ F \ {c} = both
  OBVIOUS
<1>10. SumOver(v, E) = v[y] + SumOver(v, both) /\ SumOver(v, F) = v[c] + SumOver(v, both)
  BY <1>7, <1>8, <1>9
<1>11. v[c] \in Nat /\ v[y] \in Nat /\ SumOver(v, both) \in Nat
  <2>1. c \in S /\ y \in S
    BY <1>4, <1>5
  <2>2. both \in SUBSET S /\ IsFiniteSet(both)
    BY <1>4, FS_Subset
  <2>3. QED
    BY <2>1, <2>2, SumType
<1>12. SumOver(v, D) = v[c] + SumOver(v, E) /\ SumOver(v, D) # v[y] + SumOver(v, F)
  BY <1>3, <1>5
<1> HIDE DEF B, Ok, c, E, F, both
<1>13. QED
  BY <1>10, <1>11, <1>12

LEMMA SumAdd ==
    ASSUME NEW S, IsFiniteSet(S), NEW v, NEW x, x \notin S, v[x] \in Nat, \A y \in S : v[y] \in Nat
    PROVE  SumOver(v, S \cup {x}) = SumOver(v, S) + v[x]
<1>1. IsFiniteSet(S \cup {x}) /\ (S \cup {x}) \ {x} = S /\ x \in S \cup {x}
  BY FS_AddElement
<1>2. \A y \in S \cup {x} : v[y] \in Nat
  OBVIOUS
<1>3. SumOver(v, S \cup {x}) = v[x] + SumOver(v, S)
  <2>1. SumOver(v, S \cup {x}) = v[x] + SumOver(v, (S \cup {x}) \ {x})
    BY <1>1, <1>2, SumTake
  <2>2. QED
    BY <1>1, <2>1
<1>4. SumOver(v, S) \in Nat /\ v[x] \in Nat
  BY SumType
<1>5. QED
  BY <1>1, <1>3, <1>4

\* Two sets with nothing in common.
LEMMA SumUnion ==
    ASSUME NEW S, IsFiniteSet(S), NEW T, IsFiniteSet(T), S \cap T = {},
           NEW v, \A x \in S \cup T : v[x] \in Nat
    PROVE  SumOver(v, S \cup T) = SumOver(v, S) + SumOver(v, T)
<1> DEFINE B == {D \in SUBSET S : SumOver(v, D \cup T) # SumOver(v, D) + SumOver(v, T)}
<1>1. SUFFICES ASSUME B # {} PROVE FALSE
  OBVIOUS
<1>2. PICK D \in B : \A E \in B : ~(E \subseteq D /\ E # D)
  <2>1. B \in SUBSET (SUBSET S)
    OBVIOUS
  <2> HIDE DEF B
  <2>2. QED
    BY <1>1, <2>1, LeastPart
<1>3. D \in SUBSET S /\ IsFiniteSet(D) /\ SumOver(v, D \cup T) # SumOver(v, D) + SumOver(v, T)
  BY FS_Subset
<1>4. SumOver(v, T) \in Nat
  BY SumType
<1>5. D # {}
  <2>1. {} \cup T = T
    OBVIOUS
  <2>2. QED
    BY <1>3, <1>4, <2>1, SumEmpty
<1> DEFINE c == Choice(D)
           E == D \ {c}
<1>6. c \in D /\ E \in SUBSET S /\ E \subseteq D /\ E # D
  BY <1>3, <1>5, ChoiceIn
<1>7. SumOver(v, E \cup T) = SumOver(v, E) + SumOver(v, T)
  BY <1>2, <1>6
<1>8. (D \cup T) \ {c} = E \cup T /\ c \in D \cup T /\ IsFiniteSet(D \cup T)
  BY <1>3, <1>6, FS_Union
<1>9. SumOver(v, D \cup T) = v[c] + SumOver(v, E \cup T) /\ SumOver(v, D) = v[c] + SumOver(v, E)
  <2>1. \A x \in D \cup T : v[x] \in Nat
    BY <1>3
  <2>2. \A x \in D : v[x] \in Nat
    BY <1>3
  <2>3. SumOver(v, D \cup T) = v[c] + SumOver(v, (D \cup T) \ {c})
    BY <1>8, <2>1, SumTake
  <2>4. SumOver(v, D) = v[c] + SumOver(v, D \ {c})
    BY <1>3, <1>6, <2>2, SumTake
  <2>5. QED
    BY <1>8, <2>3, <2>4
<1>10. v[c] \in Nat /\ SumOver(v, E) \in Nat
  <2>1. IsFiniteSet(E) /\ \A x \in E : v[x] \in Nat
    BY <1>3, <1>6, FS_Subset
  <2>2. QED
    BY <1>3, <1>6, <2>1, SumType
<1> HIDE DEF B, c, E
<1>11. QED
  BY <1>3, <1>4, <1>7, <1>9, <1>10

LEMMA SumPart ==
    ASSUME NEW S, IsFiniteSet(S), NEW v, \A x \in S : v[x] \in Nat, NEW T \in SUBSET S
    PROVE  SumOver(v, T) <= SumOver(v, S)
<1>1. IsFiniteSet(T) /\ IsFiniteSet(S \ T) /\ T \cap (S \ T) = {} /\ T \cup (S \ T) = S
  BY FS_Subset
<1>2. SumOver(v, S) = SumOver(v, T) + SumOver(v, S \ T)
  BY <1>1, SumUnion
<1>3. SumOver(v, T) \in Nat /\ SumOver(v, S \ T) \in Nat
  BY <1>1, SumType
<1>4. QED
  BY <1>2, <1>3

\* What is summed need agree on the set alone.
LEMMA SumSame ==
    ASSUME NEW S, IsFiniteSet(S), NEW v, NEW w, \A x \in S : v[x] \in Nat /\ v[x] = w[x]
    PROVE  SumOver(v, S) = SumOver(w, S)
<1> DEFINE B == {D \in SUBSET S : SumOver(v, D) # SumOver(w, D)}
<1>1. SUFFICES ASSUME B # {} PROVE FALSE
  OBVIOUS
<1>2. PICK D \in B : \A E \in B : ~(E \subseteq D /\ E # D)
  <2>1. B \in SUBSET (SUBSET S)
    OBVIOUS
  <2> HIDE DEF B
  <2>2. QED
    BY <1>1, <2>1, LeastPart
<1>3. D \in SUBSET S /\ IsFiniteSet(D) /\ SumOver(v, D) # SumOver(w, D)
  BY FS_Subset
<1>4. D # {}
  BY <1>3, SumEmpty
<1> DEFINE c == Choice(D)
           E == D \ {c}
<1>5. c \in D /\ E \in SUBSET S /\ E \subseteq D /\ E # D
  BY <1>3, <1>4, ChoiceIn
<1>6. SumOver(v, E) = SumOver(w, E)
  BY <1>2, <1>5
<1>7. SumOver(v, D) = v[c] + SumOver(v, E) /\ SumOver(w, D) = w[c] + SumOver(w, E)
  BY <1>3, <1>4, SumStep
<1>8. v[c] = w[c]
  BY <1>3, <1>5
<1> HIDE DEF B, c, E
<1>9. QED
  BY <1>3, <1>6, <1>7, <1>8

\* More is summed where every number is more.
LEMMA SumLess ==
    ASSUME NEW S, IsFiniteSet(S), NEW v, NEW w,
           \A x \in S : v[x] \in Nat /\ w[x] \in Nat /\ v[x] <= w[x]
    PROVE  SumOver(v, S) <= SumOver(w, S)
<1> DEFINE B == {D \in SUBSET S : ~(SumOver(v, D) <= SumOver(w, D))}
<1>1. SUFFICES ASSUME B # {} PROVE FALSE
  OBVIOUS
<1>2. PICK D \in B : \A E \in B : ~(E \subseteq D /\ E # D)
  <2>1. B \in SUBSET (SUBSET S)
    OBVIOUS
  <2> HIDE DEF B
  <2>2. QED
    BY <1>1, <2>1, LeastPart
<1>3. D \in SUBSET S /\ IsFiniteSet(D) /\ ~(SumOver(v, D) <= SumOver(w, D))
  BY FS_Subset
<1>4. D # {}
  BY <1>3, SumEmpty
<1> DEFINE c == Choice(D)
           E == D \ {c}
<1>5. c \in D /\ E \in SUBSET S /\ E \subseteq D /\ E # D
  BY <1>3, <1>4, ChoiceIn
<1>6. SumOver(v, E) <= SumOver(w, E)
  BY <1>2, <1>5
<1>7. SumOver(v, D) = v[c] + SumOver(v, E) /\ SumOver(w, D) = w[c] + SumOver(w, E)
  BY <1>3, <1>4, SumStep
<1>8. v[c] \in Nat /\ w[c] \in Nat /\ v[c] <= w[c]
  BY <1>3, <1>5
<1>9. SumOver(v, E) \in Nat /\ SumOver(w, E) \in Nat
  <2>1. IsFiniteSet(E) /\ \A x \in E : v[x] \in Nat /\ w[x] \in Nat
    BY <1>5, FS_Subset
  <2> HIDE DEF E
  <2>2. QED
    BY <2>1, SumType
<1> HIDE DEF B, c, E
<1>10. QED
  BY <1>3, <1>6, <1>7, <1>8, <1>9

-----------------------------------------------------------------------------
(* Lists.                                                                  *)

Distinct(s) == \A j, k \in DOMAIN s : s[j] = s[k] => j = k

\* Two lists that have no patch twice, and none in both.
Apart(s, t) == /\ s \in Seq(Patches) /\ t \in Seq(Patches)
               /\ Distinct(s) /\ Distinct(t)
               /\ ToSet(s) \cap ToSet(t) = {}

\* c has what s and t have, one behind the other.
LEMMA Glued ==
    ASSUME NEW s, NEW t, NEW c, Len(s) \in Nat, Len(t) \in Nat,
           DOMAIN s = 1 .. Len(s), DOMAIN t = 1 .. Len(t), DOMAIN c = 1 .. Len(s) + Len(t),
           \A k \in 1 .. Len(s) : c[k] = s[k],
           \A k \in 1 .. Len(t) : c[Len(s) + k] = t[k]
    PROVE  ToSet(c) = ToSet(s) \cup ToSet(t)
<1>1. ASSUME NEW x \in ToSet(c) PROVE x \in ToSet(s) \cup ToSet(t)
  <2>1. PICK k \in 1 .. Len(s) + Len(t) : x = c[k]
    BY <1>1 DEF ToSet
  <2>2. CASE k \in 1 .. Len(s)
    BY <2>1, <2>2 DEF ToSet
  <2>3. CASE k \notin 1 .. Len(s)
    <3>1. k - Len(s) \in 1 .. Len(t) /\ k = Len(s) + (k - Len(s))
      BY <2>1, <2>3
    <3>2. c[k] = t[k - Len(s)]
      BY <3>1
    <3>3. QED
      BY <2>1, <3>1, <3>2 DEF ToSet
  <2>4. QED
    BY <2>2, <2>3
<1>2. ASSUME NEW k \in 1 .. Len(s) PROVE s[k] \in ToSet(c)
  <2>1. k \in 1 .. Len(s) + Len(t)
    OBVIOUS
  <2>2. QED
    BY <2>1 DEF ToSet
<1>3. ASSUME NEW k \in 1 .. Len(t) PROVE t[k] \in ToSet(c)
  <2>1. Len(s) + k \in 1 .. Len(s) + Len(t)
    OBVIOUS
  <2>2. QED
    BY <2>1 DEF ToSet
<1>4. \A x \in ToSet(s) : \E k \in 1 .. Len(s) : x = s[k]
  BY DEF ToSet
<1>5. \A x \in ToSet(t) : \E k \in 1 .. Len(t) : x = t[k]
  BY DEF ToSet
<1>6. QED
  BY <1>1, <1>2, <1>3, <1>4, <1>5

LEMMA Joined ==
    ASSUME NEW s \in Seq(Patches), NEW t \in Seq(Patches)
    PROVE  /\ s \o t \in Seq(Patches) /\ Len(s \o t) = Len(s) + Len(t)
           /\ \A k \in 1 .. Len(s) : (s \o t)[k] = s[k]
           /\ \A k \in 1 .. Len(t) : (s \o t)[Len(s) + k] = t[k]
           /\ ToSet(s \o t) = ToSet(s) \cup ToSet(t)
<1>1. /\ s \o t \in Seq(Patches) /\ Len(s \o t) = Len(s) + Len(t)
      /\ \A k \in 1 .. Len(s) : (s \o t)[k] = s[k]
      /\ \A k \in 1 .. Len(t) : (s \o t)[Len(s) + k] = t[k]
  OBVIOUS
<1>2. /\ Len(s) \in Nat /\ Len(t) \in Nat
      /\ DOMAIN s = 1 .. Len(s) /\ DOMAIN t = 1 .. Len(t)
      /\ DOMAIN (s \o t) = 1 .. Len(s) + Len(t)
  OBVIOUS
<1>3. ToSet(s \o t) = ToSet(s) \cup ToSet(t)
  BY <1>1, <1>2, Glued
<1>4. QED
  BY <1>1, <1>3

\* Two lists that are apart make one without repetition.
LEMMA JoinedDistinct ==
    ASSUME NEW s, NEW t, Apart(s, t)
    PROVE  Distinct(s \o t)
<1>1. s \in Seq(Patches) /\ t \in Seq(Patches) /\ Len(s) \in Nat /\ Len(t) \in Nat
  BY DEF Apart
<1>2. SUFFICES ASSUME NEW j \in DOMAIN (s \o t), NEW k \in DOMAIN (s \o t), (s \o t)[j] = (s \o t)[k],
                      j < k
               PROVE  FALSE
  <2>1. \A j \in DOMAIN (s \o t) : j \in Int
    BY <1>1
  <2>2. QED
    BY <1>2, <2>1 DEF Distinct
<1>3. j \in 1 .. Len(s) + Len(t) /\ k \in 1 .. Len(s) + Len(t)
  BY <1>1
<1>4. CASE k <= Len(s)
  <2>1. j \in 1 .. Len(s) /\ k \in 1 .. Len(s)
    BY <1>1, <1>2, <1>3, <1>4
  <2>2. s[j] = s[k]
    BY <1>1, <1>2, <2>1, Joined
  <2>3. QED
    BY <1>1, <1>2, <2>1, <2>2 DEF Apart, Distinct
<1>5. CASE j <= Len(s) /\ k > Len(s)
  <2>1. j \in 1 .. Len(s) /\ k - Len(s) \in 1 .. Len(t) /\ k = Len(s) + (k - Len(s))
    BY <1>1, <1>3, <1>5
  <2>2. s[j] = t[k - Len(s)]
    BY <1>1, <1>2, <2>1, Joined
  <2>3. s[j] \in ToSet(s) /\ t[k - Len(s)] \in ToSet(t)
    BY <1>1, <2>1 DEF ToSet
  <2>4. QED
    BY <2>2, <2>3 DEF Apart
<1>6. CASE j > Len(s)
  <2>1. /\ j - Len(s) \in 1 .. Len(t) /\ j = Len(s) + (j - Len(s))
        /\ k - Len(s) \in 1 .. Len(t) /\ k = Len(s) + (k - Len(s))
    BY <1>1, <1>2, <1>3, <1>6
  <2>2. t[j - Len(s)] = t[k - Len(s)]
    BY <1>1, <1>2, <2>1, Joined
  <2>3. j - Len(s) = k - Len(s)
    BY <1>1, <2>1, <2>2 DEF Apart, Distinct
  <2>4. QED
    BY <1>1, <1>2, <1>3, <2>3
<1>7. QED
  BY <1>1, <1>3, <1>4, <1>5, <1>6

LEMMA DistinctLength ==
    ASSUME NEW T, NEW s \in Seq(T), Distinct(s)
    PROVE  Cardinality(ToSet(s)) = Len(s)
<1>1. Len(s) \in Nat /\ DOMAIN s = 1 .. Len(s)
  OBVIOUS
<1>2. IsFiniteSet(1 .. Len(s)) /\ Cardinality(1 .. Len(s)) = Len(s)
  BY <1>1, FS_Interval
<1>3. s \in Bijection(1 .. Len(s), ToSet(s))
  BY <1>1 DEF Distinct, ToSet, Bijection, Injection, Surjection, IsInjective
<1>4. ExistsBijection(1 .. Len(s), ToSet(s))
  BY <1>3 DEF ExistsBijection
<1>5. QED
  BY <1>2, <1>4, FS_Bijection

LEMMA DistinctCount ==
    ASSUME NEW s \in Seq(Patches), Distinct(s)
    PROVE  Cardinality(ToSet(s)) = Len(s)
  BY DistinctLength

\* A patch put first or last.
LEMMA PutIn ==
    ASSUME NEW s \in Seq(Patches), Distinct(s), NEW p \in Patches, p \notin ToSet(s),
           NEW t \in {<<p>> \o s, s \o <<p>>}
    PROVE  /\ t \in Seq(Patches) /\ Distinct(t) /\ ToSet(t) = ToSet(s) \cup {p}
<1>1. <<p>> \in Seq(Patches) /\ ToSet(<<p>>) = {p} /\ Distinct(<<p>>)
  BY DEF ToSet, Distinct
<1>2. Apart(<<p>>, s) /\ Apart(s, <<p>>)
  BY <1>1 DEF Apart
<1>3. /\ <<p>> \o s \in Seq(Patches) /\ ToSet(<<p>> \o s) = ToSet(s) \cup {p}
      /\ s \o <<p>> \in Seq(Patches) /\ ToSet(s \o <<p>>) = ToSet(s) \cup {p}
  <2>1. /\ <<p>> \o s \in Seq(Patches) /\ ToSet(<<p>> \o s) = ToSet(<<p>>) \cup ToSet(s)
        /\ s \o <<p>> \in Seq(Patches) /\ ToSet(s \o <<p>>) = ToSet(s) \cup ToSet(<<p>>)
    BY <1>1, Joined
  <2>2. QED
    BY <1>1, <2>1
<1>4. Distinct(<<p>> \o s) /\ Distinct(s \o <<p>>)
  BY <1>2, JoinedDistinct
<1>5. QED
  BY <1>3, <1>4

LEMMA TakenOut ==
    ASSUME NEW s \in Seq(Patches), Distinct(s), NEW j \in DOMAIN s
    PROVE  /\ RemoveAt(s, j) \in Seq(Patches) /\ Distinct(RemoveAt(s, j))
           /\ ToSet(RemoveAt(s, j)) = ToSet(s) \ {s[j]}
<1> DEFINE t == RemoveAt(s, j)
           At(k) == IF k < j THEN k ELSE k + 1
<1>1. Len(s) \in Nat /\ DOMAIN s = 1 .. Len(s) /\ j \in 1 .. Len(s)
  OBVIOUS
<1> DEFINE front == SubSeq(s, 1, j - 1)
           back == SubSeq(s, j + 1, Len(s))
<1>2. /\ front \in Seq(Patches) /\ back \in Seq(Patches)
      /\ Len(front) = j - 1 /\ Len(back) = Len(s) - j
      /\ \A k \in 1 .. j - 1 : front[k] = s[k]
      /\ \A k \in 1 .. Len(s) - j : back[k] = s[j + k]
  <2>1. front \in Seq(Patches) /\ Len(front) = j - 1 /\ \A k \in 1 .. j - 1 : front[k] = s[k]
    BY <1>1
  <2>2. back \in Seq(Patches) /\ Len(back) = Len(s) - j
    BY <1>1
  <2>3. \A k \in 1 .. Len(s) - j : back[k] = s[j + k]
    BY <1>1
  <2>4. QED
    BY <2>1, <2>2, <2>3
<1>3. /\ t \in Seq(Patches) /\ Len(t) = Len(front) + Len(back)
      /\ \A k \in 1 .. Len(front) : t[k] = front[k]
      /\ \A k \in 1 .. Len(back) : t[Len(front) + k] = back[k]
  <2>1. t = front \o back
    BY DEF RemoveAt
  <2> HIDE DEF t, front, back
  <2>2. QED
    BY <1>2, <2>1, Joined
<1> HIDE DEF front, back
<1>4. Len(t) = Len(s) - 1 /\ DOMAIN t = 1 .. Len(s) - 1
  <2> HIDE DEF t
  <2>1. Len(t) = Len(s) - 1
    BY <1>1, <1>2, <1>3
  <2>2. QED
    BY <1>3, <2>1
<1>5. ASSUME NEW k \in 1 .. Len(s) - 1 PROVE t[k] = s[At(k)] /\ At(k) \in 1 .. Len(s)
  <2> HIDE DEF t
  <2>1. CASE k < j
    <3>1. k \in 1 .. j - 1 /\ k \in 1 .. Len(front)
      BY <1>1, <1>2, <2>1
    <3>2. QED
      BY <1>1, <1>2, <1>3, <2>1, <3>1
  <2>2. CASE ~(k < j)
    <3> DEFINE r == k - (j - 1)
    <3>1. r \in 1 .. Len(s) - j /\ k = (j - 1) + r /\ j + r = k + 1
      BY <1>1, <2>2
    <3> HIDE DEF r
    <3>2. t[Len(front) + r] = back[r] /\ back[r] = s[j + r]
      BY <1>2, <1>3, <3>1
    <3>3. t[k] = s[k + 1]
      BY <1>2, <3>1, <3>2
    <3>4. QED
      BY <1>1, <2>2, <3>3
  <2>3. QED
    BY <2>1, <2>2
<1>6. \A k \in 1 .. Len(s) \ {j} : \E i \in 1 .. Len(s) - 1 : At(i) = k
  <2>1. SUFFICES ASSUME NEW k \in 1 .. Len(s) \ {j}
                 PROVE  \E i \in 1 .. Len(s) - 1 : At(i) = k
    OBVIOUS
  <2>2. CASE k < j
    <3>1. k \in 1 .. Len(s) - 1 /\ At(k) = k
      BY <1>1, <2>2
    <3>2. QED
      BY <3>1
  <2>3. CASE k > j
    <3>1. k - 1 \in 1 .. Len(s) - 1 /\ At(k - 1) = k
      BY <1>1, <2>3
    <3>2. QED
      BY <3>1
  <2>4. QED
    BY <1>1, <2>2, <2>3
<1>7. \A i, k \in 1 .. Len(s) - 1 : At(i) # j /\ (At(i) = At(k) => i = k)
  BY <1>1
<1> HIDE DEF t, At
<1>8. Distinct(t)
  BY <1>1, <1>4, <1>5, <1>7 DEF Distinct
<1>9. ToSet(t) = ToSet(s) \ {s[j]}
  <2>1. ASSUME NEW x \in ToSet(t) PROVE x \in ToSet(s) \ {s[j]}
    BY <1>1, <1>4, <1>5, <1>7, <2>1 DEF ToSet, Distinct
  <2>2. ASSUME NEW x \in ToSet(s) \ {s[j]} PROVE x \in ToSet(t)
    <3>1. PICK k \in 1 .. Len(s) \ {j} : x = s[k]
      BY <1>1, <2>2 DEF ToSet
    <3>2. PICK i \in 1 .. Len(s) - 1 : At(i) = k
      BY <1>6
    <3>3. t[i] = x
      BY <1>5, <3>1, <3>2
    <3>4. QED
      BY <1>4, <3>3 DEF ToSet
  <2>3. QED
    BY <2>1, <2>2
<1>10. QED
  BY <1>3, <1>8, <1>9 DEF t
=============================================================================
