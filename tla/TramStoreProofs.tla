-------------------------- MODULE TramStoreProofs --------------------------
(***************************************************************************)
(* The tank memory for any number of patches, blocks and lines: nothing is *)
(* shared, nothing is left behind, and the counts that the layout rests on *)
(* are never too small.                                                    *)
(***************************************************************************)
EXTENDS TramStore, PatchListTheorems

\* Where the lines of t are.
InternalAt(t) == t.li .. t.li + Len(t.il) - 1
ExternalAt(t) == ILines + t.le .. ILines + t.le + Len(t.el) - 1

TramSet == [bi : Nat, isize : Nat, be : Nat, esize : Nat, li : Nat, le : Nat,
            il : Seq(Nat), el : Seq(Nat), refs : Seq(Nat)]

\* The code of a patch names its lines and nothing else, all of them are lines
\* there are, and a word can be shifted down to where the memory starts.
Sound(t) ==
    /\ t \in TramSet
    /\ t.li + Len(t.il) <= ILines /\ t.le + Len(t.el) <= ELines
    /\ ToSet(t.refs) = InternalAt(t) \cup ExternalAt(t)
    /\ \A j \in DOMAIN t.il : t.bi <= t.il[j]
    /\ \A j \in DOMAIN t.el : t.be <= t.el[j]

\* What the patches S have.
ISize(t, S) == SumOf([p \in Patches |-> t[p].isize], S)
ESize(t, S) == SumOf([p \in Patches |-> t[p].esize], S)
ICount(t, S) == SumOf([p \in Patches |-> Len(t[p].il)], S)
ECount(t, S) == SumOf([p \in Patches |-> Len(t[p].el)], S)

\* All of S finds room.
Fits(t, S) == /\ ISize(t, S) <= IMem /\ ESize(t, S) <= EMem
              /\ ICount(t, S) <= ILines /\ ECount(t, S) <= ELines

\* Two patches have neither memory nor a line in common.
Disjoint(t, u) ==
    /\ t.bi + t.isize <= u.bi \/ u.bi + u.isize <= t.bi
    /\ t.be + t.esize <= u.be \/ u.be + u.esize <= t.be
    /\ t.li + Len(t.il) <= u.li \/ u.li + Len(u.il) <= t.li
    /\ t.le + Len(t.el) <= u.le \/ u.le + Len(u.el) <= t.le

\* The lines hold the words of t.
Held(t) == /\ \A j \in 1 .. Len(t.il) : lines[t.li + j - 1] = t.il[j]
           /\ \A j \in 1 .. Len(t.el) : lines[ILines + t.le + j - 1] = t.el[j]

CountSet == [bi : 0 .. IMem, be : 0 .. EMem, li : 0 .. U8 - 1, le : 0 .. U8 - 1]

\* The counts m are those of the patches S, or more: what could not be read stays
\* counted.
Covered(m, t, S) ==
    /\ m \in CountSet
    /\ ISize(t, S) <= m.bi /\ ESize(t, S) <= m.be
    /\ ICount(t, S) <= m.li /\ ECount(t, S) <= m.le
    /\ Fits(t, S)

ListInv ==
    /\ loads \in -1 .. MaxLoads
    /\ Apart(ilist, olist)
    /\ tram \in [Patches -> TramSet]
    /\ \A p \in Patches : Sound(tram[p])
    /\ Covered(mgr, tram, Loaded)

DriverInv ==
    /\ Apart(driver.ilist, driver.olist)
    /\ driver.tram \in [Patches -> TramSet]
    /\ \A p \in Patches : Sound(driver.tram[p])
    /\ Fits(driver.tram, InDriver)
    /\ \A p \in InDriver : /\ driver.tram[p].bi + driver.tram[p].isize <= IMem
                           /\ driver.tram[p].be + driver.tram[p].esize <= EMem
                           /\ Held(driver.tram[p])
    /\ \A p \in InDriver : \A q \in InDriver \ {p} : Disjoint(driver.tram[p], driver.tram[q])

LineInv ==
    /\ lines \in [Registers -> Nat]
    /\ ext \in 0 .. 2 * EMem
    /\ NoStrayLine
    /\ ExternalFits

-----------------------------------------------------------------------------
(* Sums.                                                                   *)

Numbers(v) == \A p \in Patches : v[p] \in Nat

LEMMA PatchSum ==
    ASSUME NEW v, Numbers(v), NEW S \in SUBSET Patches
    PROVE  /\ IsFiniteSet(S) /\ SumOf(v, S) = SumOver(v, S)
           /\ SumOf(v, S) \in Nat /\ \A p \in S : v[p] \in Nat
<1>1. IsFiniteSet(S) /\ \A p \in S : v[p] \in Nat
  BY SizeAssumption, FS_Subset DEF Numbers
<1>2. SumOf(v, S) = SumOver(v, S)
  BY DEF SumOf, SumOver
<1>3. QED
  BY <1>1, <1>2, SumType

LEMMA PatchSumPlus ==
    ASSUME NEW v, Numbers(v), NEW S \in SUBSET Patches, NEW p \in Patches, p \notin S
    PROVE  SumOf(v, S \cup {p}) = SumOf(v, S) + v[p]
<1>1. v[p] \in Nat /\ S \cup {p} \in SUBSET Patches
  BY DEF Numbers
<1>2. IsFiniteSet(S) /\ \A q \in S : v[q] \in Nat
  BY PatchSum
<1>3. SumOver(v, S \cup {p}) = SumOver(v, S) + v[p]
  BY <1>1, <1>2, SumAdd
<1>4. QED
  BY <1>1, <1>3, PatchSum

LEMMA PatchSumPart ==
    ASSUME NEW v, Numbers(v), NEW S \in SUBSET Patches, NEW T \in SUBSET S
    PROVE  SumOf(v, T) <= SumOf(v, S)
<1>1. T \in SUBSET Patches
  OBVIOUS
<1>2. SumOver(v, T) <= SumOver(v, S)
  BY PatchSum, SumPart
<1>3. QED
  BY <1>1, <1>2, PatchSum

\* The four things that are counted.
Counted4(t) == <<[p \in Patches |-> t[p].isize], [p \in Patches |-> t[p].esize],
                 [p \in Patches |-> Len(t[p].il)], [p \in Patches |-> Len(t[p].el)]>>

LEMMA FourNumbers ==
    ASSUME NEW t, \A p \in Patches : t[p] \in TramSet
    PROVE  \A k \in 1 .. 4 : Numbers(Counted4(t)[k])
<1>1. ASSUME NEW p \in Patches
      PROVE  t[p].isize \in Nat /\ t[p].esize \in Nat /\ Len(t[p].il) \in Nat /\ Len(t[p].el) \in Nat
  BY DEF TramSet
<1>2. QED
  BY <1>1 DEF Numbers, Counted4

LEMMA FourSums ==
    ASSUME NEW t, NEW S
    PROVE  /\ ISize(t, S) = SumOf(Counted4(t)[1], S) /\ ESize(t, S) = SumOf(Counted4(t)[2], S)
           /\ ICount(t, S) = SumOf(Counted4(t)[3], S) /\ ECount(t, S) = SumOf(Counted4(t)[4], S)
  BY DEF ISize, ESize, ICount, ECount, Counted4

LEMMA SumsAreNumbers ==
    ASSUME NEW t, \A p \in Patches : t[p] \in TramSet, NEW S \in SUBSET Patches
    PROVE  /\ ISize(t, S) \in Nat /\ ESize(t, S) \in Nat
           /\ ICount(t, S) \in Nat /\ ECount(t, S) \in Nat
<1>1. \A k \in 1 .. 4 : SumOf(Counted4(t)[k], S) \in Nat
  BY FourNumbers, PatchSum
<1>2. QED
  BY <1>1, FourSums

LEMMA SumsOfNone ==
    ASSUME NEW t
    PROVE  ISize(t, {}) = 0 /\ ESize(t, {}) = 0 /\ ICount(t, {}) = 0 /\ ECount(t, {}) = 0
<1>1. ASSUME NEW v PROVE SumOf(v, {}) = 0
  <2>1. SumOf(v, {}) = SumOver(v, {})
    BY DEF SumOf, SumOver
  <2>2. QED
    BY <2>1, SumEmpty
<1>2. QED
  BY <1>1 DEF ISize, ESize, ICount, ECount

LEMMA SumsPlus ==
    ASSUME NEW t, \A p \in Patches : t[p] \in TramSet,
           NEW S \in SUBSET Patches, NEW p \in Patches, p \notin S
    PROVE  /\ ISize(t, S \cup {p}) = ISize(t, S) + t[p].isize
           /\ ESize(t, S \cup {p}) = ESize(t, S) + t[p].esize
           /\ ICount(t, S \cup {p}) = ICount(t, S) + Len(t[p].il)
           /\ ECount(t, S \cup {p}) = ECount(t, S) + Len(t[p].el)
<1>1. \A k \in 1 .. 4 : SumOf(Counted4(t)[k], S \cup {p}) = SumOf(Counted4(t)[k], S) + Counted4(t)[k][p]
  BY FourNumbers, PatchSumPlus
<1>2. /\ Counted4(t)[1][p] = t[p].isize /\ Counted4(t)[2][p] = t[p].esize
      /\ Counted4(t)[3][p] = Len(t[p].il) /\ Counted4(t)[4][p] = Len(t[p].el)
  BY DEF Counted4
<1>3. QED
  BY <1>1, <1>2, FourSums

LEMMA SumsPart ==
    ASSUME NEW t, \A p \in Patches : t[p] \in TramSet, NEW S \in SUBSET Patches, NEW T \in SUBSET S
    PROVE  /\ ISize(t, T) <= ISize(t, S) /\ ESize(t, T) <= ESize(t, S)
           /\ ICount(t, T) <= ICount(t, S) /\ ECount(t, T) <= ECount(t, S)
<1>1. \A k \in 1 .. 4 : SumOf(Counted4(t)[k], T) <= SumOf(Counted4(t)[k], S)
  BY FourNumbers, PatchSumPart
<1>2. QED
  BY <1>1, FourSums

\* Two states of the patches in which they have the same sizes.
SameSizes(t, u, S) ==
    \A p \in S : /\ t[p].isize = u[p].isize /\ t[p].esize = u[p].esize
                 /\ Len(t[p].il) = Len(u[p].il) /\ Len(t[p].el) = Len(u[p].el)

LEMMA SumsSame ==
    ASSUME NEW t, \A p \in Patches : t[p] \in TramSet, NEW u, \A p \in Patches : u[p] \in TramSet,
           NEW S \in SUBSET Patches, SameSizes(t, u, S)
    PROVE  /\ ISize(t, S) = ISize(u, S) /\ ESize(t, S) = ESize(u, S)
           /\ ICount(t, S) = ICount(u, S) /\ ECount(t, S) = ECount(u, S)
<1>1. ASSUME NEW k \in 1 .. 4 PROVE SumOf(Counted4(t)[k], S) = SumOf(Counted4(u)[k], S)
  <2> DEFINE v == Counted4(t)[k]
             w == Counted4(u)[k]
  <2>1. ASSUME NEW p \in S PROVE v[p] = w[p]
    <3>1. p \in Patches /\ (k = 1 \/ k = 2 \/ k = 3 \/ k = 4)
      OBVIOUS
    <3>2. /\ t[p].isize = u[p].isize /\ t[p].esize = u[p].esize
          /\ Len(t[p].il) = Len(u[p].il) /\ Len(t[p].el) = Len(u[p].el)
      BY DEF SameSizes
    <3>3. QED
      BY <3>1, <3>2 DEF Counted4
  <2>2. Numbers(v) /\ Numbers(w)
    BY FourNumbers
  <2> HIDE DEF v, w
  <2>3. SumOver(v, S) = SumOver(w, S)
    BY <2>1, <2>2, PatchSum, SumSame
  <2>4. SumOf(v, S) = SumOf(w, S)
    BY <2>2, <2>3, PatchSum
  <2>5. QED
    BY <2>4 DEF v, w
<1>2. QED
  BY <1>1, FourSums

-----------------------------------------------------------------------------
(* Reading a patch.                                                        *)

LEMMA Modulo ==
    ASSUME NEW n \in Nat, NEW m \in Nat \ {0}
    PROVE  n % m \in 0 .. m - 1 /\ (n < m => n % m = n)
  OBVIOUS

\* The recursion over the blocks has a value.
IsPlaced(s, list, f) ==
    f = [k \in 0 .. Len(list) |-> IF k = 0 THEN s ELSE Place(f[k - 1], list[k])]

LEMMA PlacedExists ==
    ASSUME NEW s, NEW list, Len(list) \in Nat
    PROVE  \E f : IsPlaced(s, list, f)
<1> DEFINE Upto(n, f) == f = [k \in 0 .. n |-> IF k = 0 THEN s ELSE Place(f[k - 1], list[k])]
           J == {n \in 0 .. Len(list) : \E f : Upto(n, f)}
<1>1. 0 \in J
  <2>1. Upto(0, [k \in 0 .. 0 |-> s]) /\ 0 \in 0 .. Len(list)
    OBVIOUS
  <2> HIDE DEF Upto
  <2>2. QED
    BY <2>1
<1>2. ASSUME NEW n \in 0 .. Len(list) - 1, n \in J PROVE n + 1 \in J
  <2>1. PICK f : Upto(n, f)
    BY <1>2
  <2> DEFINE g == [k \in 0 .. n + 1 |-> IF k = n + 1 THEN Place(f[n], list[n + 1]) ELSE f[k]]
             h == [k \in 0 .. n + 1 |-> IF k = 0 THEN s ELSE Place(g[k - 1], list[k])]
  <2>2. ASSUME NEW k \in 0 .. n + 1 PROVE g[k] = h[k]
    <3>1. CASE k = n + 1
      <4>1. g[k] = Place(f[n], list[n + 1])
        BY <3>1
      <4>2. n \in 0 .. n + 1 /\ n # n + 1 /\ n + 1 # 0
        OBVIOUS
      <4>3. g[n] = f[n]
        BY <4>2
      <4>4. h[k] = Place(g[n], list[n + 1])
        BY <3>1, <4>2
      <4>5. QED
        BY <4>1, <4>3, <4>4
    <3>2. CASE k = 0
      <4>1. 0 # n + 1 /\ 0 \in 0 .. n
        OBVIOUS
      <4>2. f[0] = s
        BY <2>1, <4>1
      <4>3. QED
        BY <3>2, <4>1, <4>2
    <3>3. CASE k # 0 /\ k # n + 1
      <4>1. k \in 0 .. n /\ k - 1 \in 0 .. n + 1 /\ k - 1 # n + 1
        BY <3>3
      <4>2. g[k] = f[k] /\ g[k - 1] = f[k - 1]
        BY <3>3, <4>1
      <4>3. f[k] = Place(f[k - 1], list[k])
        BY <2>1, <3>3, <4>1
      <4>4. h[k] = Place(g[k - 1], list[k])
        BY <3>3
      <4>5. QED
        BY <4>2, <4>3, <4>4
    <3>4. QED
      BY <3>1, <3>2, <3>3
  <2>3. DOMAIN g = 0 .. n + 1 /\ DOMAIN h = 0 .. n + 1
    OBVIOUS
  <2>4. g = h
    <3>1. g = [k \in 0 .. n + 1 |-> g[k]] /\ h = [k \in 0 .. n + 1 |-> h[k]]
      OBVIOUS
    <3> HIDE DEF g, h
    <3>2. QED
      BY <2>2, <3>1
  <2>5. Upto(n + 1, g)
    BY <2>4
  <2>6. n + 1 \in 0 .. Len(list)
    OBVIOUS
  <2> HIDE DEF g, h, Upto
  <2>7. QED
    BY <2>5, <2>6
<1> HIDE DEF J
<1>3. Len(list) \in J
  <2>1. \A k \in 0 .. Len(list) - 1 : k \in J => k + 1 \in J
    BY <1>2
  <2>2. \A k \in 0 .. Len(list) : k \in J
    BY <1>1, <2>1, Induction
  <2>3. QED
    BY <2>2
<1>4. QED
  BY <1>3 DEF J, IsPlaced

LEMMA PlacedIs ==
    ASSUME NEW s, NEW list, Len(list) \in Nat
    PROVE  /\ Placed(s, list)[0] = s
           /\ \A k \in 1 .. Len(list) : Placed(s, list)[k] = Place(Placed(s, list)[k - 1], list[k])
<1> DEFINE f == CHOOSE f : IsPlaced(s, list, f)
<1>1. Placed(s, list) = f
  BY DEF Placed, IsPlaced
<1>2. IsPlaced(s, list, f)
  BY PlacedExists
<1> HIDE DEF f
<1>3. f[0] = s /\ \A k \in 1 .. Len(list) : f[k] = Place(f[k - 1], list[k])
  BY <1>2 DEF IsPlaced
<1>4. QED
  BY <1>1, <1>3

StateSet == [ok : BOOLEAN, m : CountSet, t : TramSet]

\* A patch that is being read: its memory starts at 0, and the limits were looked at.
Fresh(t) ==
    /\ t.bi = 0 /\ t.be = 0 /\ t.li = 0 /\ t.le = 0
    /\ ToSet(t.refs) = 0 .. Len(t.il) - 1 \cup ILines .. ILines + Len(t.el) - 1
    /\ Len(t.il) <= ILines /\ Len(t.el) <= ELines

ReadState(s) == s \in StateSet /\ Fresh(s.t)

\* What n lines more make of the state s: the lines are counted later.
Grown(s, u, n) ==
    /\ u.ok => s.ok
    /\ u.m.li = s.m.li /\ u.m.le = s.m.le
    /\ s.m.bi <= u.m.bi /\ u.m.bi - u.t.isize = s.m.bi - s.t.isize
    /\ s.m.be <= u.m.be /\ u.m.be - u.t.esize = s.m.be - s.t.esize
    /\ Len(s.t.il) <= Len(u.t.il) /\ Len(u.t.il) <= Len(s.t.il) + n
    /\ Len(s.t.el) <= Len(u.t.el) /\ Len(u.t.el) <= Len(s.t.el) + n
    /\ Len(u.t.il) = Len(s.t.il) \/ u.m.li + Len(u.t.il) <= ILines
    /\ Len(u.t.el) = Len(s.t.el) \/ u.m.le + Len(u.t.el) <= ELines

LEMMA StateType ==
    ASSUME NEW s, ReadState(s)
    PROVE  /\ s.ok \in BOOLEAN /\ s.m \in CountSet /\ s.t \in TramSet /\ Fresh(s.t)
           /\ s.m.bi \in 0 .. IMem /\ s.m.be \in 0 .. EMem
           /\ s.m.li \in 0 .. U8 - 1 /\ s.m.le \in 0 .. U8 - 1
           /\ s.t.isize \in Nat /\ s.t.esize \in Nat
           /\ s.t.il \in Seq(Nat) /\ s.t.el \in Seq(Nat) /\ s.t.refs \in Seq(Nat)
           /\ Len(s.t.il) \in Nat /\ Len(s.t.el) \in Nat /\ Len(s.t.refs) \in Nat
<1>1. s \in StateSet /\ Fresh(s.t)
  BY DEF ReadState
<1>2. s.ok \in BOOLEAN /\ s.m \in CountSet /\ s.t \in TramSet
  BY <1>1 DEF StateSet
<1>3. /\ s.m.bi \in 0 .. IMem /\ s.m.be \in 0 .. EMem
      /\ s.m.li \in 0 .. U8 - 1 /\ s.m.le \in 0 .. U8 - 1
  BY <1>2 DEF CountSet
<1>4. /\ s.t.isize \in Nat /\ s.t.esize \in Nat
      /\ s.t.il \in Seq(Nat) /\ s.t.el \in Seq(Nat) /\ s.t.refs \in Seq(Nat)
  BY <1>2 DEF TramSet
<1>5. Len(s.t.il) \in Nat /\ Len(s.t.el) \in Nat /\ Len(s.t.refs) \in Nat
  BY <1>4
<1>6. QED
  BY <1>1, <1>2, <1>3, <1>4, <1>5

LEMMA SizesAreNat ==
    /\ IMem \in Nat /\ EMem \in Nat /\ ILines \in Nat /\ ELines \in Nat
    /\ U8 \in Nat \ {0} /\ ILines < U8 /\ ELines < U8 /\ AddrSpace \in Nat \ {0}
    /\ MaxLoads \in Nat \ {0} /\ IsFiniteSet(Patches)
  BY SizeAssumption

LEMMA RefusedGrows ==
    ASSUME NEW s, ReadState(s), NEW n \in Nat
    PROVE  ReadState(Refused(s)) /\ Grown(s, Refused(s), n) /\ ~Refused(s).ok
<1>1. s \in [ok : BOOLEAN, m : CountSet, t : TramSet]
  BY DEF ReadState, StateSet
<1>2. ~Refused(s).ok /\ Refused(s).m = s.m /\ Refused(s).t = s.t
  BY <1>1, Zenon DEF Refused
<1>3. Refused(s) \in StateSet
  BY <1>1, Zenon DEF Refused, StateSet
<1>4. ReadState(Refused(s))
  BY <1>2, <1>3, StateType DEF ReadState
<1>5. Grown(s, Refused(s), n)
  <2>1. /\ s.m.bi \in Int /\ s.m.be \in Int /\ s.t.isize \in Int /\ s.t.esize \in Int
        /\ Len(s.t.il) \in Nat /\ Len(s.t.el) \in Nat
    BY StateType, SizesAreNat
  <2>2. QED
    BY <1>2, <2>1 DEF Grown
<1>6. QED
  BY <1>2, <1>4, <1>5

LEMMA WordsAreNat ==
    ASSUME NEW base \in Nat, NEW b \in Blocks
    PROVE  /\ LineWords(base, b) \in Seq(Nat) /\ Len(LineWords(base, b)) = Len(b.lines)
           /\ Len(b.lines) \in Nat /\ b.size \in Nat
<1>1. b.lines \in Seq([op : {READ, WRITE}, at : Nat]) /\ b.size \in Nat
  BY DEF Blocks
<1>2. Len(b.lines) \in Nat
  BY <1>1
<1>3. ASSUME NEW j \in 1 .. Len(b.lines) PROVE LineWord(base, b.lines[j]) \in Nat
  <2> DEFINE l == b.lines[j]
  <2>1. l \in [op : {READ, WRITE}, at : Nat]
    <3> DEFINE L == [op : {READ, WRITE}, at : Nat]
    <3>1. b.lines \in Seq(L)
      BY <1>1
    <3> HIDE DEF L
    <3>2. b.lines[j] \in L
      BY <1>2, <3>1
    <3>3. QED
      BY <3>2 DEF L
  <2>2. l.op \in {1, 2} /\ l.at \in Nat
    BY <2>1 DEF READ, WRITE
  <2> HIDE DEF l
  <2>3. (base + l.at) % AddrSpace \in Nat
    <3>1. base + l.at \in Nat
      BY <2>2
    <3>2. (base + l.at) % AddrSpace \in 0 .. AddrSpace - 1
      BY <3>1, SizesAreNat, Modulo
    <3>3. QED
      BY <3>2, SizesAreNat
  <2>4. l.op * AddrSpace \in Nat
    BY <2>2, SizesAreNat
  <2>5. LineWord(base, l) \in Nat
    BY <2>3, <2>4 DEF LineWord
  <2>6. QED
    BY <2>5 DEF l
<1>4. QED
  BY <1>1, <1>2, <1>3 DEF LineWords

LEMMA SeqGlue ==
    ASSUME NEW s \in Seq(Nat), NEW t \in Seq(Nat)
    PROVE  /\ s \o t \in Seq(Nat) /\ Len(s \o t) = Len(s) + Len(t)
           /\ \A k \in 1 .. Len(s) : (s \o t)[k] = s[k]
           /\ \A k \in 1 .. Len(t) : (s \o t)[Len(s) + k] = t[k]
           /\ Len(s) \in Nat /\ Len(t) \in Nat
           /\ DOMAIN s = 1 .. Len(s) /\ DOMAIN t = 1 .. Len(t)
           /\ DOMAIN (s \o t) = 1 .. Len(s) + Len(t)
<1>1. /\ s \o t \in Seq(Nat) /\ Len(s \o t) = Len(s) + Len(t)
      /\ \A k \in 1 .. Len(s) : (s \o t)[k] = s[k]
      /\ \A k \in 1 .. Len(t) : (s \o t)[Len(s) + k] = t[k]
  OBVIOUS
<1>2. /\ Len(s) \in Nat /\ Len(t) \in Nat
      /\ DOMAIN s = 1 .. Len(s) /\ DOMAIN t = 1 .. Len(t)
      /\ DOMAIN (s \o t) = 1 .. Len(s) + Len(t)
  OBVIOUS
<1>3. QED
  BY <1>1, <1>2

LEMMA RoomLeft ==
    ASSUME NEW n \in Nat, NEW m \in 0 .. n, NEW k \in Nat, k <= n - m
    PROVE  m + k \in 0 .. n
  OBVIOUS

\* The lines that a block adds to the code, and those that it has already.
LEMMA RefsJoined ==
    ASSUME NEW refs \in Seq(Nat), NEW first \in Nat, NEW b \in Blocks
    PROVE  /\ refs \o NewRefs(first, b) \in Seq(Nat)
           /\ ToSet(refs \o NewRefs(first, b)) = ToSet(refs) \cup first .. first + Len(b.lines) - 1
<1> DEFINE n == Len(b.lines)
           new == NewRefs(first, b)
<1>1. n \in Nat
  BY WordsAreNat
<1>2. new \in Seq(Nat) /\ Len(new) = n /\ \A j \in 1 .. n : new[j] = first + j - 1
  <2> HIDE DEF n
  <2>1. new = [j \in 1 .. n |-> first + j - 1]
    BY DEF NewRefs, n
  <2> HIDE DEF new
  <2>2. QED
    BY <1>1, <2>1
<1>3. ToSet(new) = first .. first + n - 1
  <2> HIDE DEF n, new
  <2>1. DOMAIN new = 1 .. n
    BY <1>1, <1>2
  <2>2. ASSUME NEW r \in first .. first + n - 1 PROVE r \in ToSet(new)
    <3>1. r - first + 1 \in 1 .. n
      BY <1>1
    <3>2. new[r - first + 1] = r
      BY <1>1, <1>2, <3>1
    <3>3. QED
      BY <2>1, <3>1, <3>2 DEF ToSet
  <2>3. ASSUME NEW r \in ToSet(new) PROVE r \in first .. first + n - 1
    <3>1. PICK j \in 1 .. n : r = new[j]
      BY <2>1, <2>3 DEF ToSet
    <3>2. QED
      BY <1>1, <1>2, <3>1
  <2>4. QED
    BY <2>2, <2>3
<1> HIDE DEF new
<1>4. /\ refs \o new \in Seq(Nat) /\ Len(refs \o new) = Len(refs) + Len(new)
      /\ \A k \in 1 .. Len(refs) : (refs \o new)[k] = refs[k]
      /\ \A k \in 1 .. Len(new) : (refs \o new)[Len(refs) + k] = new[k]
      /\ Len(refs) \in Nat /\ Len(new) \in Nat
      /\ DOMAIN refs = 1 .. Len(refs) /\ DOMAIN new = 1 .. Len(new)
      /\ DOMAIN (refs \o new) = 1 .. Len(refs) + Len(new)
  BY <1>2, SeqGlue
<1>5. ToSet(refs \o new) = ToSet(refs) \cup ToSet(new)
  BY <1>4, Glued
<1>6. QED
  BY <1>3, <1>4, <1>5 DEF new

LEMMA InternalGrows ==
    ASSUME NEW s, ReadState(s), s.ok, NEW b \in Blocks, b.size <= IMem - s.m.bi
    PROVE  ReadState(PlaceInternal(s, b)) /\ Grown(s, PlaceInternal(s, b), Len(b.lines))
<1> DEFINE n == Len(b.lines)
           new == LineWords(s.t.isize, b)
           il == s.t.il \o new
           refs == s.t.refs \o NewRefs(Len(s.t.il), b)
           u == [s EXCEPT !.m.bi = @ + b.size, !.t.isize = @ + b.size, !.t.il = il, !.t.refs = refs]
<1>1. /\ s.m.bi \in 0 .. IMem /\ s.t.isize \in Nat /\ s.t.il \in Seq(Nat) /\ s.t.refs \in Seq(Nat)
      /\ Len(s.t.il) \in Nat /\ Len(s.t.el) \in Nat
  BY StateType
<1>2. new \in Seq(Nat) /\ Len(new) = n /\ n \in Nat /\ b.size \in Nat
  BY <1>1, WordsAreNat
<1>3. il \in Seq(Nat) /\ Len(il) = Len(s.t.il) + n
  <2> HIDE DEF new, n
  <2>1. QED
    BY <1>1, <1>2, SeqGlue
<1>4. /\ refs \in Seq(Nat)
      /\ ToSet(refs) = ToSet(s.t.refs) \cup Len(s.t.il) .. Len(s.t.il) + n - 1
  BY <1>1, RefsJoined
<1> HIDE DEF new, n, il, refs
<1>5. CASE b.lines = <<>> \/ s.m.li + Len(il) > ILines
  <2>1. PlaceInternal(s, b) = Refused(s)
    BY <1>5 DEF PlaceInternal, il, new
  <2>2. QED
    BY <1>2, <2>1, RefusedGrows DEF n
<1>6. CASE ~(b.lines = <<>> \/ s.m.li + Len(il) > ILines)
  <2>1. PlaceInternal(s, b) = u
    BY <1>6 DEF PlaceInternal, il, new, refs
  <2>2. s \in [ok : BOOLEAN, m : CountSet, t : TramSet]
    BY DEF ReadState, StateSet
  <2>3. /\ u.ok = s.ok
        /\ u.m.bi = s.m.bi + b.size /\ u.m.be = s.m.be /\ u.m.li = s.m.li /\ u.m.le = s.m.le
        /\ u.t.isize = s.t.isize + b.size /\ u.t.esize = s.t.esize
        /\ u.t.il = il /\ u.t.el = s.t.el /\ u.t.refs = refs
        /\ u.t.bi = s.t.bi /\ u.t.be = s.t.be /\ u.t.li = s.t.li /\ u.t.le = s.t.le
    BY <2>2 DEF CountSet, TramSet
  <2>4. s.m.bi + b.size \in 0 .. IMem /\ s.t.isize + b.size \in Nat
    <3>1. IMem \in Nat
      BY SizesAreNat
    <3>2. s.m.bi + b.size \in 0 .. IMem
      BY <1>1, <1>2, <3>1, RoomLeft
    <3>3. QED
      BY <1>1, <1>2, <3>2
  <2>5. u \in [ok : BOOLEAN, m : CountSet, t : TramSet]
    BY <1>3, <1>4, <2>2, <2>4 DEF CountSet, TramSet
  <2> HIDE DEF u
  <2>6. Fresh(u.t)
    <3>1. s.m.li \in Nat /\ Fresh(s.t)
      BY StateType, SizesAreNat
    <3>2. Len(il) <= ILines /\ Len(s.t.il) + n - 1 = Len(il) - 1
      <4> DEFINE a == Len(s.t.il)
                 z == Len(il)
                 base == s.m.li
      <4>1. a \in Nat /\ n \in Nat /\ z = a + n /\ base \in Nat /\ ~(base + z > ILines)
        BY <1>1, <1>2, <1>3, <1>6, <3>1
      <4> HIDE DEF a, z, base
      <4>2. z <= ILines /\ a + n - 1 = z - 1
        BY <4>1, SizesAreNat
      <4>3. QED
        BY <4>2 DEF a, z
    <3>3. ToSet(refs) = 0 .. Len(il) - 1 \cup ILines .. ILines + Len(s.t.el) - 1
      <4>1. ToSet(s.t.refs) = 0 .. Len(s.t.il) - 1 \cup ILines .. ILines + Len(s.t.el) - 1
        BY <3>1 DEF Fresh
      <4>2. 0 .. Len(s.t.il) - 1 \cup Len(s.t.il) .. Len(s.t.il) + n - 1 = 0 .. Len(s.t.il) + n - 1
        BY <1>1, <1>2
      <4>3. ASSUME NEW A, NEW B, NEW C, NEW D, A \cup B = D PROVE (A \cup C) \cup B = D \cup C
        BY <4>3
      <4>4. QED
        BY <1>4, <3>2, <4>1, <4>2, <4>3, Zenon
    <3>4. QED
      BY <2>3, <3>1, <3>2, <3>3 DEF Fresh
  <2>7. Grown(s, u, n)
    <3>1. s.m.be \in Nat /\ s.t.esize \in Nat /\ s.m.li \in Nat
      BY StateType, SizesAreNat
    <3>2. s.m.bi <= u.m.bi /\ u.m.bi - u.t.isize = s.m.bi - s.t.isize
      <4>1. ASSUME NEW k \in Int, NEW m \in Int, NEW d \in Nat
            PROVE  k <= k + d /\ (k + d) - (m + d) = k - m
        BY <4>1
      <4>2. s.m.bi \in Int /\ s.t.isize \in Int /\ b.size \in Nat
        BY <1>1, <1>2, SizesAreNat
      <4>3. QED
        BY <2>3, <4>1, <4>2
    <3>3. s.m.be <= u.m.be /\ u.m.be - u.t.esize = s.m.be - s.t.esize
      BY <2>3, <3>1
    <3>4. Len(s.t.il) <= Len(u.t.il) /\ Len(u.t.il) <= Len(s.t.il) + n /\ u.m.li + Len(u.t.il) <= ILines
      <4>1. Len(s.t.il) <= Len(il) /\ Len(il) <= Len(s.t.il) + n
        BY <1>1, <1>2, <1>3
      <4>2. Len(il) \in Nat /\ ILines \in Nat
        BY <1>3, SizesAreNat
      <4>3. s.m.li + Len(il) <= ILines
        BY <1>6, <3>1, <4>2
      <4>4. QED
        BY <2>3, <4>1, <4>3
    <3>5. Len(s.t.el) <= Len(u.t.el) /\ Len(u.t.el) <= Len(s.t.el) + n /\ Len(u.t.el) = Len(s.t.el)
      BY <1>1, <1>2, <2>3
    <3>6. QED
      BY <2>3, <3>2, <3>3, <3>4, <3>5 DEF Grown
  <2>8. QED
    BY <2>1, <2>5, <2>6, <2>7 DEF ReadState, StateSet, n
<1>7. QED
  BY <1>5, <1>6

LEMMA ExternalGrows ==
    ASSUME NEW s, ReadState(s), s.ok, NEW b \in Blocks, b.size <= EMem - s.m.be
    PROVE  ReadState(PlaceExternal(s, b)) /\ Grown(s, PlaceExternal(s, b), Len(b.lines))
<1> DEFINE n == Len(b.lines)
           new == LineWords(s.t.esize, b)
           el == s.t.el \o new
           refs == s.t.refs \o NewRefs(ILines + Len(s.t.el), b)
           u == [s EXCEPT !.m.be = @ + b.size, !.t.esize = @ + b.size, !.t.el = el, !.t.refs = refs]
<1>1. /\ s.m.be \in 0 .. EMem /\ s.t.esize \in Nat /\ s.t.el \in Seq(Nat) /\ s.t.refs \in Seq(Nat)
      /\ Len(s.t.el) \in Nat /\ Len(s.t.il) \in Nat
  BY StateType
<1>2. new \in Seq(Nat) /\ Len(new) = n /\ n \in Nat /\ b.size \in Nat
  BY <1>1, WordsAreNat
<1>3. el \in Seq(Nat) /\ Len(el) = Len(s.t.el) + n
  <2> HIDE DEF new, n
  <2>1. QED
    BY <1>1, <1>2, SeqGlue
<1>4. /\ refs \in Seq(Nat)
      /\ ToSet(refs) = ToSet(s.t.refs) \cup ILines + Len(s.t.el) .. ILines + Len(s.t.el) + n - 1
  <2>1. ILines + Len(s.t.el) \in Nat
    BY <1>1, SizesAreNat
  <2>2. QED
    BY <1>1, <2>1, RefsJoined
<1> HIDE DEF new, n, el, refs
<1>5. CASE b.lines = <<>> \/ s.m.le + Len(el) > ELines
  <2>1. PlaceExternal(s, b) = Refused(s)
    BY <1>5 DEF PlaceExternal, el, new
  <2>2. QED
    BY <1>2, <2>1, RefusedGrows DEF n
<1>6. CASE ~(b.lines = <<>> \/ s.m.le + Len(el) > ELines)
  <2>1. PlaceExternal(s, b) = u
    BY <1>6 DEF PlaceExternal, el, new, refs
  <2>2. s \in [ok : BOOLEAN, m : CountSet, t : TramSet]
    BY DEF ReadState, StateSet
  <2>3. /\ u.ok = s.ok
        /\ u.m.be = s.m.be + b.size /\ u.m.bi = s.m.bi /\ u.m.le = s.m.le /\ u.m.li = s.m.li
        /\ u.t.esize = s.t.esize + b.size /\ u.t.isize = s.t.isize
        /\ u.t.el = el /\ u.t.il = s.t.il /\ u.t.refs = refs
        /\ u.t.be = s.t.be /\ u.t.bi = s.t.bi /\ u.t.le = s.t.le /\ u.t.li = s.t.li
    BY <2>2 DEF CountSet, TramSet
  <2>4. s.m.be + b.size \in 0 .. EMem /\ s.t.esize + b.size \in Nat
    <3>1. EMem \in Nat
      BY SizesAreNat
    <3>2. s.m.be + b.size \in 0 .. EMem
      BY <1>1, <1>2, <3>1, RoomLeft
    <3>3. QED
      BY <1>1, <1>2, <3>2
  <2>5. u \in [ok : BOOLEAN, m : CountSet, t : TramSet]
    BY <1>3, <1>4, <2>2, <2>4 DEF CountSet, TramSet
  <2> HIDE DEF u
  <2>6. Fresh(u.t)
    <3>1. s.m.le \in Nat /\ Fresh(s.t)
      BY StateType, SizesAreNat
    <3>2. /\ Len(el) <= ELines
          /\ ILines .. ILines + Len(s.t.el) - 1 \cup ILines + Len(s.t.el) .. ILines + Len(s.t.el) + n - 1 =
               ILines .. ILines + Len(el) - 1
      <4> DEFINE a == Len(s.t.el)
                 z == Len(el)
                 base == s.m.le
      <4>1. a \in Nat /\ n \in Nat /\ z = a + n /\ base \in Nat /\ ~(base + z > ELines)
        BY <1>1, <1>2, <1>3, <1>6, <3>1
      <4> HIDE DEF a, z, base
      <4>2. z <= ELines
        BY <4>1, SizesAreNat
      <4>3. ILines .. ILines + a - 1 \cup ILines + a .. ILines + a + n - 1 = ILines .. ILines + z - 1
        BY <4>1, SizesAreNat
      <4>4. QED
        BY <4>2, <4>3 DEF a, z
    <3>3. ToSet(refs) = 0 .. Len(s.t.il) - 1 \cup ILines .. ILines + Len(el) - 1
      <4>1. ToSet(s.t.refs) = 0 .. Len(s.t.il) - 1 \cup ILines .. ILines + Len(s.t.el) - 1
        BY <3>1 DEF Fresh
      <4>2. ASSUME NEW A, NEW B, NEW C, NEW D, B \cup C = D PROVE (A \cup B) \cup C = A \cup D
        BY <4>2
      <4>3. QED
        BY <1>4, <3>2, <4>1, <4>2, Zenon
    <3>4. QED
      BY <2>3, <3>1, <3>2, <3>3 DEF Fresh
  <2>7. Grown(s, u, n)
    <3>1. s.m.bi \in Nat /\ s.t.isize \in Nat /\ s.m.le \in Nat
      BY StateType, SizesAreNat
    <3>2. s.m.be <= u.m.be /\ u.m.be - u.t.esize = s.m.be - s.t.esize
      <4>1. ASSUME NEW k \in Int, NEW m \in Int, NEW d \in Nat
            PROVE  k <= k + d /\ (k + d) - (m + d) = k - m
        BY <4>1
      <4>2. s.m.be \in Int /\ s.t.esize \in Int /\ b.size \in Nat
        BY <1>1, <1>2, SizesAreNat
      <4>3. QED
        BY <2>3, <4>1, <4>2
    <3>3. s.m.bi <= u.m.bi /\ u.m.bi - u.t.isize = s.m.bi - s.t.isize
      BY <2>3, <3>1
    <3>4. Len(s.t.el) <= Len(u.t.el) /\ Len(u.t.el) <= Len(s.t.el) + n /\ u.m.le + Len(u.t.el) <= ELines
      <4>1. Len(s.t.el) <= Len(el) /\ Len(el) <= Len(s.t.el) + n
        BY <1>1, <1>2, <1>3
      <4>2. Len(el) \in Nat /\ ELines \in Nat
        BY <1>3, SizesAreNat
      <4>3. s.m.le + Len(el) <= ELines
        BY <1>6, <3>1, <4>2
      <4>4. QED
        BY <2>3, <4>1, <4>3
    <3>5. Len(s.t.il) <= Len(u.t.il) /\ Len(u.t.il) <= Len(s.t.il) + n /\ Len(u.t.il) = Len(s.t.il)
      BY <1>1, <1>2, <2>3
    <3>6. QED
      BY <2>3, <3>2, <3>3, <3>4, <3>5 DEF Grown
  <2>8. QED
    BY <2>1, <2>5, <2>6, <2>7 DEF ReadState, StateSet, n
<1>7. QED
  BY <1>5, <1>6

LEMMA PlaceGrows ==
    ASSUME NEW s, ReadState(s), NEW b \in Blocks
    PROVE  ReadState(Place(s, b)) /\ Grown(s, Place(s, b), Len(b.lines))
<1>1. Len(b.lines) \in Nat /\ 0 \in Nat
  BY WordsAreNat
<1>2. CASE Place(s, b) = Refused(s)
  BY <1>1, <1>2, RefusedGrows
<1>3. CASE s.ok /\ b.size <= IMem - s.m.bi /\ Place(s, b) = PlaceInternal(s, b)
  BY <1>3, InternalGrows
<1>4. CASE s.ok /\ b.size <= EMem - s.m.be /\ Place(s, b) = PlaceExternal(s, b)
  BY <1>4, ExternalGrows
<1>5. QED
  BY <1>2, <1>3, <1>4 DEF Place

LEMMA MemoryTwice ==
    ASSUME NEW a \in Int, NEW b \in Int, NEW c \in Int, NEW x \in Int, NEW y \in Int, NEW z \in Int,
           a <= b, b - y = a - x, b <= c, c - z = b - y
    PROVE  a <= c /\ c - z = a - x
  OBVIOUS

LEMMA GrownTwice ==
    ASSUME NEW s, ReadState(s), NEW u, ReadState(u), NEW w, ReadState(w), NEW n \in Nat, NEW d \in Nat,
           Grown(s, u, n), Grown(u, w, d)
    PROVE  Grown(s, w, n + d)
<1> DEFINE Nums(x) == /\ x.m.bi \in Int /\ x.m.be \in Int /\ x.m.li \in Int /\ x.m.le \in Int
                      /\ x.t.isize \in Int /\ x.t.esize \in Int
                      /\ Len(x.t.il) \in Int /\ Len(x.t.el) \in Int
<1>1. ASSUME NEW x, ReadState(x) PROVE Nums(x)
  <2>1. /\ x.m.bi \in 0 .. IMem /\ x.m.be \in 0 .. EMem /\ x.m.li \in 0 .. U8 - 1 /\ x.m.le \in 0 .. U8 - 1
        /\ x.t.isize \in Nat /\ x.t.esize \in Nat /\ Len(x.t.il) \in Nat /\ Len(x.t.el) \in Nat
    BY <1>1, StateType
  <2>2. x.m.bi \in Int /\ x.m.be \in Int
    BY <2>1, SizesAreNat
  <2>3. x.m.li \in Int /\ x.m.le \in Int
    BY <2>1, SizesAreNat
  <2>4. x.t.isize \in Int /\ x.t.esize \in Int /\ Len(x.t.il) \in Int /\ Len(x.t.el) \in Int
    BY <2>1
  <2>5. QED
    BY <2>2, <2>3, <2>4
<1>2. Nums(s) /\ Nums(u) /\ Nums(w)
  BY <1>1
<1>3. w.ok => s.ok
  BY DEF Grown
<1>4. w.m.li = s.m.li /\ w.m.le = s.m.le /\ u.m.li = s.m.li /\ u.m.le = s.m.le
  BY DEF Grown
<1>5. s.m.bi <= w.m.bi /\ w.m.bi - w.t.isize = s.m.bi - s.t.isize
  <2>1. s.m.bi <= u.m.bi /\ u.m.bi - u.t.isize = s.m.bi - s.t.isize
    BY DEF Grown
  <2>2. u.m.bi <= w.m.bi /\ w.m.bi - w.t.isize = u.m.bi - u.t.isize
    BY DEF Grown
  <2>3. QED
    BY <1>2, <2>1, <2>2, MemoryTwice
<1>6. s.m.be <= w.m.be /\ w.m.be - w.t.esize = s.m.be - s.t.esize
  <2>1. s.m.be <= u.m.be /\ u.m.be - u.t.esize = s.m.be - s.t.esize
    BY DEF Grown
  <2>2. u.m.be <= w.m.be /\ w.m.be - w.t.esize = u.m.be - u.t.esize
    BY DEF Grown
  <2>3. QED
    BY <1>2, <2>1, <2>2, MemoryTwice
<1>7. /\ Len(s.t.il) <= Len(w.t.il) /\ Len(w.t.il) <= Len(s.t.il) + (n + d)
      /\ Len(w.t.il) = Len(s.t.il) \/ w.m.li + Len(w.t.il) <= ILines
  <2>1. /\ Len(s.t.il) <= Len(u.t.il) /\ Len(u.t.il) <= Len(s.t.il) + n
        /\ Len(u.t.il) = Len(s.t.il) \/ w.m.li + Len(u.t.il) <= ILines
    BY <1>4 DEF Grown
  <2>2. /\ Len(u.t.il) <= Len(w.t.il) /\ Len(w.t.il) <= Len(u.t.il) + d
        /\ Len(w.t.il) = Len(u.t.il) \/ w.m.li + Len(w.t.il) <= ILines
    BY DEF Grown
  <2>3. ILines \in Int
    BY SizesAreNat
  <2> DEFINE a == Len(s.t.il)
             b == Len(u.t.il)
             c == Len(w.t.il)
             base == w.m.li
  <2>4. a \in Int /\ b \in Int /\ c \in Int /\ base \in Int
    BY <1>2
  <2>5. a <= b /\ b <= a + n /\ b <= c /\ c <= b + d
    BY <2>1, <2>2
  <2>6. (b = a \/ base + b <= ILines) /\ (c = b \/ base + c <= ILines)
    BY <2>1, <2>2
  <2> HIDE DEF a, b, c, base
  <2>7. a <= c /\ c <= a + (n + d) /\ (c = a \/ base + c <= ILines)
    BY <2>3, <2>4, <2>5, <2>6
  <2>8. QED
    BY <2>7 DEF a, b, c, base
<1>8. /\ Len(s.t.el) <= Len(w.t.el) /\ Len(w.t.el) <= Len(s.t.el) + (n + d)
      /\ Len(w.t.el) = Len(s.t.el) \/ w.m.le + Len(w.t.el) <= ELines
  <2>1. /\ Len(s.t.el) <= Len(u.t.el) /\ Len(u.t.el) <= Len(s.t.el) + n
        /\ Len(u.t.el) = Len(s.t.el) \/ w.m.le + Len(u.t.el) <= ELines
    BY <1>4 DEF Grown
  <2>2. /\ Len(u.t.el) <= Len(w.t.el) /\ Len(w.t.el) <= Len(u.t.el) + d
        /\ Len(w.t.el) = Len(u.t.el) \/ w.m.le + Len(w.t.el) <= ELines
    BY DEF Grown
  <2>3. ELines \in Int
    BY SizesAreNat
  <2> DEFINE a == Len(s.t.el)
             b == Len(u.t.el)
             c == Len(w.t.el)
             base == w.m.le
  <2>4. a \in Int /\ b \in Int /\ c \in Int /\ base \in Int
    BY <1>2
  <2>5. a <= b /\ b <= a + n /\ b <= c /\ c <= b + d
    BY <2>1, <2>2
  <2>6. (b = a \/ base + b <= ELines) /\ (c = b \/ base + c <= ELines)
    BY <2>1, <2>2
  <2> HIDE DEF a, b, c, base
  <2>7. a <= c /\ c <= a + (n + d) /\ (c = a \/ base + c <= ELines)
    BY <2>3, <2>4, <2>5, <2>6
  <2>8. QED
    BY <2>7 DEF a, b, c, base
<1>9. QED
  BY <1>3, <1>4, <1>5, <1>6, <1>7, <1>8 DEF Grown

LEMMA LinesSum ==
    ASSUME NEW list \in Seq(Blocks), NEW v, v = [k \in DOMAIN list |-> Len(list[k].lines)]
    PROVE  /\ LinesIn(list) = SumOver(v, 1 .. Len(list)) /\ LinesIn(list) \in Nat
           /\ \A k \in 0 .. Len(list) : SumOver(v, 1 .. k) \in Nat
           /\ \A k \in 0 .. Len(list) - 1 :
                 SumOver(v, 1 .. k + 1) = SumOver(v, 1 .. k) + Len(list[k + 1].lines)
<1>1. Len(list) \in Nat /\ DOMAIN list = 1 .. Len(list) /\ \A k \in 1 .. Len(list) : list[k] \in Blocks
  <2> HIDE DEF Blocks
  <2>1. QED
    OBVIOUS
<1>2. \A k \in 1 .. Len(list) : v[k] = Len(list[k].lines) /\ v[k] \in Nat
  BY <1>1, WordsAreNat
<1>3. ASSUME NEW k \in 0 .. Len(list)
      PROVE  SumOver(v, 1 .. k) \in Nat /\ IsFiniteSet(1 .. k) /\ \A j \in 1 .. k : v[j] \in Nat
  <2>1. IsFiniteSet(1 .. k)
    BY <1>1, FS_Interval
  <2>2. \A j \in 1 .. k : v[j] \in Nat
    BY <1>1, <1>2
  <2>3. QED
    BY <2>1, <2>2, SumType
<1>4. ASSUME NEW k \in 0 .. Len(list) - 1
      PROVE  SumOver(v, 1 .. k + 1) = SumOver(v, 1 .. k) + Len(list[k + 1].lines)
  <2>1. k \in 0 .. Len(list) /\ k + 1 \in 1 .. Len(list) /\ k + 1 \notin 1 .. k
    BY <1>1
  <2>2. 1 .. k + 1 = 1 .. k \cup {k + 1}
    BY <1>1
  <2>3. SumOver(v, 1 .. k \cup {k + 1}) = SumOver(v, 1 .. k) + v[k + 1]
    <3> DEFINE S == 1 .. k
    <3>1. IsFiniteSet(S) /\ k + 1 \notin S /\ v[k + 1] \in Nat /\ \A j \in S : v[j] \in Nat
      BY <1>2, <1>3, <2>1
    <3> HIDE DEF S
    <3>2. SumOver(v, S \cup {k + 1}) = SumOver(v, S) + v[k + 1]
      BY <3>1, SumAdd
    <3>3. QED
      BY <3>2 DEF S
  <2>4. QED
    BY <1>2, <2>1, <2>2, <2>3
<1>5. LinesIn(list) = SumOver(v, 1 .. Len(list))
  BY <1>1 DEF LinesIn, SumOf, SumOver
<1>6. Len(list) \in 0 .. Len(list)
  BY <1>1
<1>7. QED
  BY <1>3, <1>4, <1>5, <1>6

LEMMA ListGrows ==
    ASSUME NEW s, ReadState(s), NEW list \in Seq(Blocks)
    PROVE  LET r == Placed(s, list)[Len(list)]
           IN  ReadState(r) /\ Grown(s, r, LinesIn(list))
<1> DEFINE v == [k \in DOMAIN list |-> Len(list[k].lines)]
           after == Placed(s, list)
           J == {k \in 0 .. Len(list) : ReadState(after[k]) /\ Grown(s, after[k], SumOver(v, 1 .. k))}
<1>1. Len(list) \in Nat /\ \A k \in 1 .. Len(list) : list[k] \in Blocks
  <2> HIDE DEF Blocks
  <2>1. QED
    OBVIOUS
<1>2. after[0] = s /\ \A k \in 1 .. Len(list) : after[k] = Place(after[k - 1], list[k])
  BY <1>1, PlacedIs
<1>3. /\ LinesIn(list) = SumOver(v, 1 .. Len(list))
      /\ \A k \in 0 .. Len(list) : SumOver(v, 1 .. k) \in Nat
      /\ \A k \in 0 .. Len(list) - 1 :
            SumOver(v, 1 .. k + 1) = SumOver(v, 1 .. k) + Len(list[k + 1].lines)
  BY LinesSum
<1> HIDE DEF v, after
<1>4. 0 \in J
  <2>1. 1 .. 0 = {}
    OBVIOUS
  <2>2. SumOver(v, 1 .. 0) = 0
    BY <2>1, SumEmpty
  <2>3. Grown(s, s, 0)
    <3>1. /\ s.m.bi \in Int /\ s.m.be \in Int /\ s.t.isize \in Int /\ s.t.esize \in Int
          /\ Len(s.t.il) \in Nat /\ Len(s.t.el) \in Nat
      BY StateType, SizesAreNat
    <3>2. QED
      BY <3>1 DEF Grown
  <2>4. 0 \in 0 .. Len(list)
    BY <1>1
  <2>5. QED
    BY <1>2, <2>2, <2>3, <2>4
<1>5. ASSUME NEW k \in 0 .. Len(list) - 1, k \in J PROVE k + 1 \in J
  <2> DEFINE u == after[k]
             b == list[k + 1]
             w == after[k + 1]
  <2>1. ReadState(u) /\ Grown(s, u, SumOver(v, 1 .. k))
    BY <1>5
  <2>2. k + 1 \in 1 .. Len(list) /\ k + 1 \in 0 .. Len(list) /\ k \in 0 .. Len(list) /\ (k + 1) - 1 = k
    BY <1>1
  <2>3. w = Place(u, b) /\ b \in Blocks
    BY <1>1, <1>2, <2>2
  <2> HIDE DEF u, b, w
  <2>4. ReadState(w) /\ Grown(u, w, Len(b.lines)) /\ Len(b.lines) \in Nat
    BY <2>1, <2>3, PlaceGrows, WordsAreNat
  <2>5. SumOver(v, 1 .. k) \in Nat /\ SumOver(v, 1 .. k + 1) = SumOver(v, 1 .. k) + Len(b.lines)
    BY <1>3, <2>2 DEF b
  <2>6. Grown(s, w, SumOver(v, 1 .. k + 1))
    BY <2>1, <2>4, <2>5, GrownTwice
  <2>7. QED
    BY <2>2, <2>4, <2>6 DEF w
<1> HIDE DEF J
<1>6. Len(list) \in J
  <2>1. \A k \in 0 .. Len(list) - 1 : k \in J => k + 1 \in J
    BY <1>5
  <2>2. \A k \in 0 .. Len(list) : k \in J
    BY <1>1, <1>4, <2>1, Induction
  <2>3. QED
    BY <1>1, <2>2
<1>7. QED
  BY <1>3, <1>6 DEF J, after

\* A list that was read: q is what it makes of the state r after its last block.
Ended(r, q) ==
    /\ ReadState(q) /\ (q.ok => r.ok) /\ q.t = r.t
    /\ q.m.bi = r.m.bi /\ q.m.be = r.m.be
    /\ IF r.ok THEN /\ q.m.li = (r.m.li + Len(r.t.il)) % U8
                    /\ q.m.le = (r.m.le + Len(r.t.el)) % U8
               ELSE q.m.li = r.m.li /\ q.m.le = r.m.le

LEMMA ListEnds ==
    ASSUME NEW s, ReadState(s), NEW list \in Seq(Blocks)
    PROVE  LET r == Placed(s, list)[Len(list)]
           IN  ReadState(r) /\ Grown(s, r, LinesIn(list)) /\ Ended(r, ReadList(s, list))
<1> DEFINE r == Placed(s, list)[Len(list)]
           li == (r.m.li + Len(r.t.il)) % U8
           le == (r.m.le + Len(r.t.el)) % U8
           q == [r EXCEPT !.m.li = li, !.m.le = le]
<1>1. ReadState(r) /\ Grown(s, r, LinesIn(list))
  BY ListGrows
<1>2. ReadList(s, list) = IF r.ok THEN q ELSE r
  BY DEF ReadList
<1> HIDE DEF r
<1>3. CASE r.ok
  <2>1. li \in 0 .. U8 - 1 /\ le \in 0 .. U8 - 1
    <3>1. r.m.li + Len(r.t.il) \in Nat /\ r.m.le + Len(r.t.el) \in Nat
      <4>1. /\ r.m.li \in 0 .. U8 - 1 /\ r.m.le \in 0 .. U8 - 1
            /\ Len(r.t.il) \in Nat /\ Len(r.t.el) \in Nat
        BY <1>1, StateType
      <4>2. QED
        BY <4>1, SizesAreNat
    <3>2. QED
      BY <3>1, SizesAreNat, Modulo
  <2> HIDE DEF li, le
  <2>2. r \in [ok : BOOLEAN, m : CountSet, t : TramSet] /\ Fresh(r.t)
    BY <1>1 DEF ReadState, StateSet
  <2>3. /\ q.ok = r.ok /\ q.t = r.t
        /\ q.m.bi = r.m.bi /\ q.m.be = r.m.be /\ q.m.li = li /\ q.m.le = le
    BY <2>2 DEF CountSet
  <2>4. q \in [ok : BOOLEAN, m : CountSet, t : TramSet]
    BY <2>1, <2>2 DEF CountSet
  <2> HIDE DEF q
  <2>5. ReadState(q)
    BY <2>2, <2>3, <2>4 DEF ReadState, StateSet
  <2>6. Ended(r, q)
    BY <1>3, <2>3, <2>5 DEF Ended, li, le
  <2>7. QED
    BY <1>1, <1>2, <1>3, <2>6 DEF r
<1>4. CASE ~r.ok
  <2>1. Ended(r, r)
    BY <1>1, <1>4 DEF Ended
  <2>2. QED
    BY <1>1, <1>2, <1>4, <2>1 DEF r
<1>5. QED
  BY <1>3, <1>4

\* The u8 count a of the lines, after n lines of the first list and m lines in all.
LEMMA CountOnce ==
    ASSUME NEW a \in 0 .. U8 - 1, NEW n \in Nat, NEW limit \in Nat, NEW most \in Nat,
           limit + most < U8, n <= most, n = 0 \/ a + n <= limit
    PROVE  (a + n) % U8 = a + n
<1>1. U8 \in Nat \ {0} /\ a \in Nat
  BY SizesAreNat
<1>2. a + n \in Nat /\ a + n < U8
  BY <1>1
<1>3. QED
  BY <1>1, <1>2, Modulo

LEMMA FreshIsSound == ASSUME NEW t \in TramSet, Fresh(t) PROVE Sound(t)
<1>1. t.bi = 0 /\ t.be = 0 /\ t.li = 0 /\ t.le = 0 /\ Len(t.il) <= ILines /\ Len(t.el) <= ELines
  BY DEF Fresh
<1>2. t.il \in Seq(Nat) /\ t.el \in Seq(Nat) /\ Len(t.il) \in Nat /\ Len(t.el) \in Nat
  BY DEF TramSet
<1>3. 0 + Len(t.il) = Len(t.il) /\ 0 + Len(t.el) = Len(t.el) /\ ILines + 0 = ILines
  BY <1>2, SizesAreNat
<1>4. InternalAt(t) = 0 .. Len(t.il) - 1 /\ ExternalAt(t) = ILines .. ILines + Len(t.el) - 1
  BY <1>1, <1>3 DEF InternalAt, ExternalAt
<1>5. ToSet(t.refs) = InternalAt(t) \cup ExternalAt(t)
  BY <1>4 DEF Fresh
<1>6. \A j \in DOMAIN t.il : t.il[j] \in Nat
  BY <1>2
<1>7. \A j \in DOMAIN t.el : t.el[j] \in Nat
  BY <1>2
<1>8. (\A j \in DOMAIN t.il : t.bi <= t.il[j]) /\ (\A j \in DOMAIN t.el : t.be <= t.el[j])
  BY <1>1, <1>6, <1>7
<1>9. QED
  BY <1>1, <1>3, <1>5, <1>8 DEF Sound

NoneYet == [ok |-> TRUE, m |-> mgr, t |-> NoTram]

LEMMA NothingYet ==
    /\ NoTram.isize = 0 /\ NoTram.esize = 0 /\ Len(NoTram.il) = 0 /\ Len(NoTram.el) = 0
    /\ NoTram \in TramSet /\ Fresh(NoTram) /\ Sound(NoTram)
<1>1. NoTram \in TramSet /\ NoTram.isize = 0 /\ NoTram.esize = 0 /\ NoTram.il = <<>> /\ NoTram.el = <<>>
  BY DEF NoTram, TramSet
<1>2. Len(<<>>) = 0 /\ ToSet(<<>>) = {}
  BY DEF ToSet
<1>3. 0 .. 0 - 1 = {} /\ ILines .. ILines + 0 - 1 = {} /\ 0 <= ILines /\ 0 <= ELines
  BY SizesAreNat
<1>4. Fresh(NoTram)
  <2>1. /\ NoTram.bi = 0 /\ NoTram.be = 0 /\ NoTram.li = 0 /\ NoTram.le = 0 /\ NoTram.refs = <<>>
    BY DEF NoTram
  <2>2. QED
    BY <1>1, <1>2, <1>3, <2>1 DEF Fresh
<1>5. QED
  BY <1>1, <1>2, <1>4, FreshIsSound

LEMMA NoneRead ==
    ASSUME mgr \in CountSet
    PROVE  ReadState(NoneYet) /\ NoneYet.m = mgr /\ NoneYet.t = NoTram
<1>1. NoneYet \in StateSet
  BY NothingYet, Zenon DEF NoneYet, StateSet
<1>2. NoneYet.m = mgr /\ NoneYet.t = NoTram
  BY DEF NoneYet
<1>3. QED
  BY <1>1, <1>2, NothingYet DEF ReadState

\* The lines of one memory, a counted so far: n and m of them after the first and
\* the second list, b and c the counts then.
CountCase(a, n, m, b, c, first, both, limit, most) ==
    /\ a \in 0 .. U8 - 1 /\ n \in Nat /\ m \in Nat /\ limit \in Nat /\ most \in Nat
    /\ limit + most < U8 /\ n <= most /\ (n = 0 \/ a + n <= limit) /\ n <= m
    /\ first \in BOOLEAN /\ both \in BOOLEAN /\ (both => first)
    /\ b = (IF first THEN (a + n) % U8 ELSE a)
    /\ m = n \/ b + m <= limit
    /\ c = (IF both THEN (b + m) % U8 ELSE b)

LEMMA LinesCounted ==
    ASSUME NEW a, NEW n, NEW m, NEW b, NEW c, NEW first, NEW both, NEW limit, NEW most,
           CountCase(a, n, m, b, c, first, both, limit, most)
    PROVE  a <= c /\ (both => a + m <= c /\ (m = 0 \/ a + m <= limit))
<1>1. /\ a \in 0 .. U8 - 1 /\ n \in Nat /\ m \in Nat /\ limit \in Nat /\ most \in Nat
      /\ limit + most < U8 /\ n <= most /\ (n = 0 \/ a + n <= limit) /\ n <= m
      /\ both => first
      /\ b = (IF first THEN (a + n) % U8 ELSE a)
      /\ m = n \/ b + m <= limit
      /\ c = (IF both THEN (b + m) % U8 ELSE b)
  BY DEF CountCase
<1>2. (a + n) % U8 = a + n /\ a \in Nat
  BY <1>1, CountOnce, SizesAreNat
<1>3. CASE ~first
  BY <1>1, <1>2, <1>3
<1>4. CASE first /\ ~both
  BY <1>1, <1>2, <1>4
<1>5. CASE both
  <2>1. b = a + n
    BY <1>1, <1>2, <1>5
  <2>2. m = n \/ a + n + m <= limit
    BY <1>1, <2>1
  <2>3. a + n + m \in Nat /\ a + n + m < U8 /\ U8 \in Nat \ {0}
    BY <1>1, <1>2, <2>2, SizesAreNat
  <2>4. (a + n + m) % U8 = a + n + m
    BY <2>3, Modulo
  <2>5. c = a + n + m
    BY <1>1, <1>5, <2>1, <2>4
  <2>6. m = 0 \/ a + m <= limit
    BY <1>1, <1>2, <2>2
  <2>7. QED
    BY <1>1, <1>2, <2>5, <2>6
<1>6. QED
  BY <1>3, <1>4, <1>5

\* What a reading p leaves: the counts are never less, and a patch that was read is
\* counted in full, has its lines within the limits and is as it should be.
LEMMA ReadingIs ==
    ASSUME mgr \in CountSet, NEW p \in Patches
    PROVE  LET q == Reading(p)
           IN  /\ q.m \in CountSet
               /\ mgr.bi <= q.m.bi /\ mgr.be <= q.m.be /\ mgr.li <= q.m.li /\ mgr.le <= q.m.le
               /\ q.ok => /\ Sound(q.t)
                          /\ q.m.bi = mgr.bi + q.t.isize /\ q.m.be = mgr.be + q.t.esize
                          /\ mgr.li + Len(q.t.il) <= q.m.li /\ mgr.le + Len(q.t.el) <= q.m.le
                          /\ Len(q.t.il) = 0 \/ mgr.li + Len(q.t.il) <= ILines
                          /\ Len(q.t.el) = 0 \/ mgr.le + Len(q.t.el) <= ELines
<1> DEFINE s == NoneYet
           r1 == Placed(s, Tables[p])[Len(Tables[p])]
           q1 == ReadList(s, Tables[p])
           r2 == Placed(q1, Delays[p])[Len(Delays[p])]
           q == ReadList(q1, Delays[p])
           most == LinesIn(Tables[p])
<1>1. Tables[p] \in Seq(Blocks) /\ Delays[p] \in Seq(Blocks)
  <2> HIDE DEF Blocks
  <2>1. QED
    BY FileAssumption
<1>2. /\ ReadState(s) /\ s.m = mgr
      /\ s.t.isize = 0 /\ s.t.esize = 0 /\ Len(s.t.il) = 0 /\ Len(s.t.el) = 0
  BY NoneRead, NothingYet
<1>3. Reading(p) = q
  BY DEF Reading, NoneYet
<1>4. most \in Nat /\ ILines + most < U8 /\ ELines + most < U8
  <2>1. \E v : v = [k \in DOMAIN Tables[p] |-> Len(Tables[p][k].lines)]
    OBVIOUS
  <2> HIDE DEF Blocks
  <2>2. most \in Nat
    BY <1>1, <2>1, LinesSum
  <2>3. QED
    BY <2>2, CountAssumption
<1> HIDE DEF s, most, Blocks
<1>5. ReadState(r1) /\ Grown(s, r1, most) /\ Ended(r1, q1)
  BY <1>1, <1>2, ListEnds DEF most
<1> HIDE DEF r1, q1
<1>6. ReadState(q1)
  BY <1>5 DEF Ended
<1>7. ReadState(r2) /\ Grown(q1, r2, LinesIn(Delays[p])) /\ Ended(r2, q)
  BY <1>1, <1>6, ListEnds
<1> HIDE DEF r2, q
<1>8. ReadState(q)
  BY <1>7 DEF Ended
<1> DEFINE Nums(x) == /\ x.m.bi \in Int /\ x.m.be \in Int /\ x.t.isize \in Int /\ x.t.esize \in Int
                      /\ x.m.li \in 0 .. U8 - 1 /\ x.m.le \in 0 .. U8 - 1
                      /\ x.ok \in BOOLEAN
                      /\ Len(x.t.il) \in Nat /\ Len(x.t.el) \in Nat
<1>9. Nums(s) /\ Nums(r1) /\ Nums(q1) /\ Nums(r2) /\ Nums(q)
  <2>1. ASSUME NEW x, ReadState(x) PROVE Nums(x)
    BY <2>1, StateType, SizesAreNat
  <2>2. QED
    BY <1>2, <1>5, <1>6, <1>7, <1>8, <2>1
<1>10. mgr.bi <= q.m.bi /\ q.m.bi = mgr.bi + q.t.isize
  <2>1. s.m.bi <= r1.m.bi /\ r1.m.bi - r1.t.isize = s.m.bi - 0 /\ r1.m.bi = q1.m.bi /\ r1.t = q1.t
    BY <1>2, <1>5 DEF Grown, Ended
  <2>2. q1.m.bi <= r2.m.bi /\ r2.m.bi - r2.t.isize = q1.m.bi - q1.t.isize /\ r2.m.bi = q.m.bi /\ r2.t = q.t
    BY <1>7 DEF Grown, Ended
  <2> DEFINE k == s.m.bi
             l == r1.m.bi
             n == r2.m.bi
             x == r1.t.isize
             y == r2.t.isize
  <2>3. k \in Int /\ l \in Int /\ n \in Int /\ x \in Int /\ y \in Int
    BY <1>9
  <2>4. k <= l /\ l - x = k - 0 /\ l <= n /\ n - y = l - x
    BY <2>1, <2>2
  <2>5. mgr.bi = k /\ q.m.bi = n /\ q.t.isize = y
    BY <1>2, <2>2
  <2> HIDE DEF k, l, n, x, y
  <2>6. k <= n /\ n = k + y
    BY <2>3, <2>4
  <2>7. QED
    BY <2>5, <2>6
<1>11. mgr.be <= q.m.be /\ q.m.be = mgr.be + q.t.esize
  <2>1. s.m.be <= r1.m.be /\ r1.m.be - r1.t.esize = s.m.be - 0 /\ r1.m.be = q1.m.be /\ r1.t = q1.t
    BY <1>2, <1>5 DEF Grown, Ended
  <2>2. q1.m.be <= r2.m.be /\ r2.m.be - r2.t.esize = q1.m.be - q1.t.esize /\ r2.m.be = q.m.be /\ r2.t = q.t
    BY <1>7 DEF Grown, Ended
  <2> DEFINE k == s.m.be
             l == r1.m.be
             n == r2.m.be
             x == r1.t.esize
             y == r2.t.esize
  <2>3. k \in Int /\ l \in Int /\ n \in Int /\ x \in Int /\ y \in Int
    BY <1>9
  <2>4. k <= l /\ l - x = k - 0 /\ l <= n /\ n - y = l - x
    BY <2>1, <2>2
  <2>5. mgr.be = k /\ q.m.be = n /\ q.t.esize = y
    BY <1>2, <2>2
  <2> HIDE DEF k, l, n, x, y
  <2>6. k <= n /\ n = k + y
    BY <2>3, <2>4
  <2>7. QED
    BY <2>5, <2>6
<1>12. (r2.ok => q1.ok) /\ (q1.ok => r1.ok) /\ (q.ok => r2.ok)
  BY <1>5, <1>7 DEF Ended, Grown
<1>13. /\ mgr.li <= q.m.li
       /\ q.ok => mgr.li + Len(q.t.il) <= q.m.li /\ (Len(q.t.il) = 0 \/ mgr.li + Len(q.t.il) <= ILines)
  <2> DEFINE a == s.m.li
             n == Len(r1.t.il)
             m == Len(r2.t.il)
             b == q1.m.li
             c == q.m.li
  <2>1. a \in 0 .. U8 - 1 /\ b \in 0 .. U8 - 1 /\ c \in 0 .. U8 - 1 /\ n \in Nat /\ m \in Nat /\ ILines \in Nat
    BY <1>9, SizesAreNat
  <2>2. r1.m.li = a /\ n <= 0 + most /\ (n = 0 \/ a + n <= ILines)
    BY <1>2, <1>5 DEF Grown
  <2>3. b = IF r1.ok THEN (a + n) % U8 ELSE a
    BY <1>5, <2>2 DEF Ended
  <2>4. r2.m.li = b /\ n <= m /\ (m = n \/ b + m <= ILines)
    BY <1>5, <1>7 DEF Grown, Ended
  <2>5. c = IF r2.ok THEN (b + m) % U8 ELSE b
    BY <1>7, <2>4 DEF Ended
  <2>6. r1.ok \in BOOLEAN /\ r2.ok \in BOOLEAN /\ (r2.ok => r1.ok)
    BY <1>9, <1>12
  <2>7. m = Len(q.t.il) /\ a = mgr.li
    BY <1>2, <1>7 DEF Ended
  <2> HIDE DEF a, b, c, n, m
  <2>8. n <= most
    BY <1>4, <2>1, <2>2
  <2>9. a <= c /\ (r2.ok => a + m <= c /\ (m = 0 \/ a + m <= ILines))
    <3>1. CountCase(a, n, m, b, c, r1.ok, r2.ok, ILines, most)
      BY <1>4, <2>1, <2>2, <2>3, <2>4, <2>5, <2>6, <2>8 DEF CountCase
    <3>2. QED
      BY <3>1, LinesCounted
  <2>10. QED
    BY <1>12, <2>7, <2>9 DEF c
<1>14. /\ mgr.le <= q.m.le
       /\ q.ok => mgr.le + Len(q.t.el) <= q.m.le /\ (Len(q.t.el) = 0 \/ mgr.le + Len(q.t.el) <= ELines)
  <2> DEFINE a == s.m.le
             n == Len(r1.t.el)
             m == Len(r2.t.el)
             b == q1.m.le
             c == q.m.le
  <2>1. a \in 0 .. U8 - 1 /\ b \in 0 .. U8 - 1 /\ c \in 0 .. U8 - 1 /\ n \in Nat /\ m \in Nat /\ ELines \in Nat
    BY <1>9, SizesAreNat
  <2>2. r1.m.le = a /\ n <= 0 + most /\ (n = 0 \/ a + n <= ELines)
    BY <1>2, <1>5 DEF Grown
  <2>3. b = IF r1.ok THEN (a + n) % U8 ELSE a
    BY <1>5, <2>2 DEF Ended
  <2>4. r2.m.le = b /\ n <= m /\ (m = n \/ b + m <= ELines)
    BY <1>5, <1>7 DEF Grown, Ended
  <2>5. c = IF r2.ok THEN (b + m) % U8 ELSE b
    BY <1>7, <2>4 DEF Ended
  <2>6. r1.ok \in BOOLEAN /\ r2.ok \in BOOLEAN /\ (r2.ok => r1.ok)
    BY <1>9, <1>12
  <2>7. m = Len(q.t.el) /\ a = mgr.le
    BY <1>2, <1>7 DEF Ended
  <2> HIDE DEF a, b, c, n, m
  <2>8. n <= most
    BY <1>4, <2>1, <2>2
  <2>9. a <= c /\ (r2.ok => a + m <= c /\ (m = 0 \/ a + m <= ELines))
    <3>1. CountCase(a, n, m, b, c, r1.ok, r2.ok, ELines, most)
      BY <1>4, <2>1, <2>2, <2>3, <2>4, <2>5, <2>6, <2>8 DEF CountCase
    <3>2. QED
      BY <3>1, LinesCounted
  <2>10. QED
    BY <1>12, <2>7, <2>9 DEF c
<1>15. q.m \in CountSet /\ Sound(q.t)
  BY <1>8, StateType, FreshIsSound
<1>16. QED
  BY <1>3, <1>10, <1>11, <1>13, <1>14, <1>15

-----------------------------------------------------------------------------
(* The lists.                                                              *)

LEMMA ListFacts ==
    ASSUME ListInv
    PROVE  /\ ilist \in Seq(Patches) /\ olist \in Seq(Patches) /\ Lists \in Seq(Patches)
           /\ Loaded = ToSet(ilist) \cup ToSet(olist) /\ Loaded \in SUBSET Patches
           /\ Distinct(Lists) /\ Len(Lists) = Cardinality(Loaded)
<1>1. ilist \in Seq(Patches) /\ olist \in Seq(Patches) /\ Apart(ilist, olist)
  BY DEF ListInv, Apart
<1>2. Lists \in Seq(Patches) /\ ToSet(Lists) = ToSet(ilist) \cup ToSet(olist)
  BY <1>1, Joined DEF Lists
<1>3. Distinct(Lists)
  BY <1>1, JoinedDistinct DEF Lists
<1>4. ToSet(Lists) \in SUBSET Patches
  BY <1>2 DEF ToSet
<1>5. QED
  BY <1>1, <1>2, <1>3, <1>4, DistinctCount DEF Loaded

LEMMA NoneCovered ==
    ASSUME NEW m \in CountSet, NEW t
    PROVE  Covered(m, t, {}) /\ Fits(t, {})
<1>1. Fits(t, {})
  BY SumsOfNone, SizesAreNat DEF Fits
<1>2. 0 <= m.bi /\ 0 <= m.be /\ 0 <= m.li /\ 0 <= m.le
  BY SizesAreNat DEF CountSet
<1>3. QED
  BY <1>1, <1>2, SumsOfNone DEF Covered

\* Counted anew.
LEMMA CountedAnew ==
    ASSUME NEW t, \A p \in Patches : t[p] \in TramSet, NEW S \in SUBSET Patches, Fits(t, S)
    PROVE  /\ Counts(t, S).bi = ISize(t, S) /\ Counts(t, S).be = ESize(t, S)
           /\ Counts(t, S).li = ICount(t, S) /\ Counts(t, S).le = ECount(t, S)
           /\ Covered(Counts(t, S), t, S)
<1> DEFINE a == ISize(t, S)
           b == ESize(t, S)
           c == ICount(t, S)
           d == ECount(t, S)
<1>1. Counts(t, S) = [bi |-> a, be |-> b, li |-> c % U8, le |-> d % U8]
  BY DEF Counts, ISize, ESize, ICount, ECount
<1>2. a \in Nat /\ b \in Nat /\ c \in Nat /\ d \in Nat
  BY SumsAreNumbers
<1>3. a <= IMem /\ b <= EMem /\ c <= ILines /\ d <= ELines
  BY DEF Fits
<1> HIDE DEF a, b, c, d
<1>4. c < U8 /\ d < U8
  BY <1>2, <1>3, SizesAreNat
<1>5. c % U8 = c /\ d % U8 = d
  BY <1>2, <1>4, SizesAreNat, Modulo
<1>6. Counts(t, S) = [bi |-> a, be |-> b, li |-> c, le |-> d]
  BY <1>1, <1>5
<1>7. /\ Counts(t, S).bi = a /\ Counts(t, S).be = b
      /\ Counts(t, S).li = c /\ Counts(t, S).le = d
  BY <1>6
<1>8. Counts(t, S) \in CountSet
  BY <1>2, <1>3, <1>4, <1>6, SizesAreNat DEF CountSet
<1>9. a <= a /\ b <= b /\ c <= c /\ d <= d
  BY <1>2
<1>10. QED
  BY <1>7, <1>8, <1>9 DEF Covered, a, b, c, d

\* The driver has no part in what is done to the lists.
LEMMA DriverStays ==
    ASSUME DriverInv, LineInv, UNCHANGED <<lines, ext, driver>>
    PROVE  DriverInv' /\ LineInv'
<1>1. DriverInv'
  BY DEF DriverInv, InDriver, Held
<1>2. LineInv'
  BY DEF LineInv, NoStrayLine, ExternalFits, InDriver
<1>3. QED
  BY <1>1, <1>2

LEMMA EmptyLists ==
    /\ Apart(<<>>, <<>>) /\ ToSet(<<>> \o <<>>) = {}
<1>1. <<>> \in Seq(Patches) /\ ToSet(<<>>) = {} /\ Distinct(<<>>)
  BY DEF ToSet, Distinct
<1>2. ToSet(<<>> \o <<>>) = {}
  BY <1>1, Joined
<1>3. QED
  BY <1>1, <1>2 DEF Apart

LEMMA NoCountsYet == NoCounts \in CountSet
  BY SizesAreNat DEF NoCounts, CountSet

\* Nothing is in the lists.
LEMMA NoneListed ==
    ASSUME loads \in -1 .. MaxLoads, ilist = <<>>, olist = <<>>,
           tram = [p \in Patches |-> NoTram], mgr = NoCounts
    PROVE  ListInv
<1>1. Loaded = {} /\ Apart(ilist, olist)
  BY EmptyLists DEF Loaded, Lists
<1>2. tram \in [Patches -> TramSet] /\ \A p \in Patches : Sound(tram[p])
  BY NothingYet
<1>3. Covered(mgr, tram, Loaded)
  BY <1>1, NoCountsYet, NoneCovered
<1>4. QED
  BY <1>1, <1>2, <1>3 DEF ListInv

LEMMA InitIs == ASSUME Init PROVE ListInv /\ DriverInv /\ LineInv
<1>1. ListInv
  BY NoneListed, SizesAreNat DEF Init
<1>2. InDriver = {} /\ Apart(driver.ilist, driver.olist)
  BY EmptyLists DEF Init, InDriver
<1>3. /\ driver.tram \in [Patches -> TramSet]
      /\ \A p \in Patches : Sound(driver.tram[p])
  BY NothingYet DEF Init
<1>4. Fits(driver.tram, InDriver)
  BY <1>2, NoCountsYet, NoneCovered
<1>5. DriverInv
  BY <1>2, <1>3, <1>4 DEF DriverInv
<1>6. lines \in [Registers -> Nat] /\ ext \in 0 .. 2 * EMem /\ NoStrayLine
  BY SizesAreNat DEF Init, NoStrayLine
<1>7. LineInv
  BY <1>2, <1>6 DEF LineInv, ExternalFits
<1>8. QED
  BY <1>1, <1>5, <1>7

\* The first line of a patch and those behind it are read from the registers.
LEMMA WordsRead ==
    ASSUME NEW from \in Nat, NEW s \in Seq(Nat), from + Len(s) <= ILines + ELines,
           \A j \in 1 .. Len(s) : lines[from + j - 1] = s[j]
    PROVE  Words(from, Len(s)) = s
<1>1. Len(s) \in Nat /\ s = [k \in 1 .. Len(s) |-> s[k]]
  OBVIOUS
<1>2. ASSUME NEW k \in 1 .. Len(s) PROVE from + k - 1 \in Registers
  <2> DEFINE n == Len(s)
  <2>1. n \in Nat /\ from + n <= ILines + ELines /\ k \in 1 .. n
    BY <1>1
  <2> HIDE DEF n
  <2>2. from + k - 1 \in 0 .. ILines + ELines - 1
    BY <2>1, SizesAreNat
  <2>3. QED
    BY <2>2 DEF Registers
<1>3. Words(from, Len(s)) = [k \in 1 .. Len(s) |-> s[k]]
  BY <1>2 DEF Words
<1>4. QED
  BY <1>1, <1>3

\* What a process reads is what the driver and the DSP have.
LEMMA ReadBack ==
    ASSUME NEW t \in TramSet, Sound(t), Held(t)
    PROVE  ReadLines(t) = t
<1>1. t.il \in Seq(Nat) /\ t.el \in Seq(Nat) /\ t.li \in Nat /\ t.le \in Nat
  BY DEF TramSet
<1>2. t.li + Len(t.il) <= ILines /\ t.le + Len(t.el) <= ELines
  BY DEF Sound
<1>3. Len(t.il) \in Nat /\ Len(t.el) \in Nat /\ ILines + t.le \in Nat
  BY <1>1, SizesAreNat
<1>4. t.li + Len(t.il) <= ILines + ELines /\ (ILines + t.le) + Len(t.el) <= ILines + ELines
  <2> DEFINE a == Len(t.il)
             b == Len(t.el)
  <2>1. a \in Nat /\ b \in Nat /\ t.li + a <= ILines /\ t.le + b <= ELines
    BY <1>2, <1>3
  <2> HIDE DEF a, b
  <2>2. t.li + a <= ILines + ELines /\ (ILines + t.le) + b <= ILines + ELines
    BY <1>1, <2>1, SizesAreNat
  <2>3. QED
    BY <2>2 DEF a, b
<1>5. Words(t.li, Len(t.il)) = t.il
  <2>1. \A j \in 1 .. Len(t.il) : lines[t.li + j - 1] = t.il[j]
    BY DEF Held
  <2>2. QED
    BY <1>1, <1>4, <2>1, WordsRead
<1>6. Words(ILines + t.le, Len(t.el)) = t.el
  <2>1. \A j \in 1 .. Len(t.el) : lines[(ILines + t.le) + j - 1] = t.el[j]
    BY DEF Held
  <2>2. QED
    BY <1>1, <1>3, <1>4, <2>1, WordsRead
<1>7. ReadLines(t) = [t EXCEPT !.il = t.il, !.el = t.el]
  BY <1>5, <1>6 DEF ReadLines
<1>8. QED
  BY <1>7 DEF TramSet

LEMMA DriverFacts ==
    ASSUME DriverInv
    PROVE  /\ InDriver = ToSet(driver.ilist) \cup ToSet(driver.olist) /\ InDriver \in SUBSET Patches
           /\ \A p \in Patches : driver.tram[p] \in TramSet
<1>1. driver.ilist \in Seq(Patches) /\ driver.olist \in Seq(Patches)
  BY DEF DriverInv, Apart
<1>2. InDriver = ToSet(driver.ilist) \cup ToSet(driver.olist)
  BY <1>1, Joined DEF InDriver
<1>3. InDriver \in SUBSET Patches
  BY <1>1, <1>2 DEF ToSet
<1>4. QED
  BY <1>2, <1>3 DEF DriverInv

LEMMA FitsSame ==
    ASSUME NEW t, \A p \in Patches : t[p] \in TramSet, NEW u, \A p \in Patches : u[p] \in TramSet,
           NEW S \in SUBSET Patches, SameSizes(t, u, S), Fits(t, S)
    PROVE  Fits(u, S)
  BY SumsSame DEF Fits

LEMMA StartKeeps ==
    ASSUME ListInv, DriverInv, LineInv, Start
    PROVE  ListInv' /\ DriverInv' /\ LineInv'
<1> DEFINE L == ToSet(ilist' \o olist')
           t == driver.tram
           u == tram'
<1>1. /\ loads' = 0 /\ ilist' = driver.ilist /\ olist' = driver.olist
      /\ tram' = [p \in Patches |-> IF p \in L THEN ReadLines(driver.tram[p]) ELSE NoTram]
      /\ mgr' = Counts(tram', L)
  BY DEF Start
<1>2. L = InDriver /\ Loaded' = L
  BY <1>1 DEF InDriver, Loaded, Lists
<1>3. ASSUME NEW p \in InDriver PROVE tram'[p] = t[p]
  <2>1. p \in Patches /\ t[p] \in TramSet
    BY DriverFacts
  <2>2. Sound(t[p]) /\ Held(t[p])
    BY <2>1 DEF DriverInv
  <2>3. ReadLines(t[p]) = t[p]
    BY <2>1, <2>2, ReadBack
  <2>4. QED
    BY <1>1, <1>2, <2>1, <2>3
<1>4. ASSUME NEW p \in Patches PROVE tram'[p] \in TramSet /\ Sound(tram'[p])
  <2>1. CASE p \in InDriver
    BY <1>3, <2>1 DEF DriverInv
  <2>2. CASE p \notin InDriver
    BY <1>1, <1>2, <2>2, NothingYet
  <2>3. QED
    BY <2>1, <2>2
<1>5. tram' \in [Patches -> TramSet]
  BY <1>1, <1>4
<1>6. Fits(u, InDriver)
  <2>1. SameSizes(t, u, InDriver)
    BY <1>3 DEF SameSizes
  <2>2. InDriver \in SUBSET Patches /\ \A p \in Patches : t[p] \in TramSet
    BY DriverFacts
  <2>3. Fits(t, InDriver)
    BY DEF DriverInv
  <2> HIDE DEF t, u
  <2>4. \A p \in Patches : u[p] \in TramSet
    BY <1>4 DEF u
  <2>5. QED
    BY <2>1, <2>2, <2>3, <2>4, FitsSame
<1>7. Covered(mgr', tram', Loaded')
  <2>1. InDriver \in SUBSET Patches /\ \A p \in Patches : u[p] \in TramSet
    BY <1>4, DriverFacts
  <2>2. mgr' = Counts(u, InDriver) /\ Loaded' = InDriver
    BY <1>1, <1>2
  <2> HIDE DEF u
  <2>3. Covered(Counts(u, InDriver), u, InDriver)
    BY <1>6, <2>1, CountedAnew
  <2>4. QED
    BY <2>2, <2>3 DEF u
<1>8. Apart(ilist', olist')
  BY <1>1 DEF DriverInv
<1>9. ListInv'
  <2>1. loads' \in -1 .. MaxLoads
    BY <1>1, SizesAreNat
  <2>2. QED
    BY <1>4, <1>5, <1>7, <1>8, <2>1 DEF ListInv
<1>10. QED
  BY <1>9, DriverStays DEF Start

LEMMA ExitKeeps ==
    ASSUME ListInv, DriverInv, LineInv, Exit
    PROVE  ListInv' /\ DriverInv' /\ LineInv'
<1>1. loads' \in -1 .. MaxLoads
  BY SizesAreNat DEF Exit
<1>2. ListInv'
  <2>1. Loaded' = {} /\ Apart(ilist', olist')
    BY EmptyLists DEF Loaded, Lists, Exit
  <2>2. tram' \in [Patches -> TramSet] /\ \A p \in Patches : Sound(tram'[p])
    BY NothingYet DEF Exit
  <2>3. Covered(mgr', tram', Loaded')
    BY <2>1, NoCountsYet, NoneCovered DEF Exit
  <2>4. QED
    BY <1>1, <2>1, <2>2, <2>3 DEF ListInv
<1>3. QED
  BY <1>2, DriverStays DEF Exit

LEMMA UnloadAllKeeps ==
    ASSUME ListInv, DriverInv, LineInv, UnloadAll
    PROVE  ListInv' /\ DriverInv' /\ LineInv'
<1>1. loads' \in -1 .. MaxLoads
  BY DEF UnloadAll, ListInv
<1>2. ListInv'
  <2>1. Loaded' = {} /\ Apart(ilist', olist')
    BY EmptyLists DEF Loaded, Lists, UnloadAll
  <2>2. tram' \in [Patches -> TramSet] /\ \A p \in Patches : Sound(tram'[p])
    BY NothingYet DEF UnloadAll
  <2>3. Covered(mgr', tram', Loaded')
    BY <2>1, NoCountsYet, NoneCovered DEF UnloadAll
  <2>4. QED
    BY <1>1, <2>1, <2>2, <2>3 DEF ListInv
<1>3. QED
  BY <1>2, DriverStays DEF UnloadAll

\* One patch more, read in the state of the counts.
LEMMA ReadListed ==
    ASSUME ListInv, NEW p \in Patches, p \notin Loaded, Reading(p).ok,
           NEW t, t = [tram EXCEPT ![p] = Reading(p).t]
    PROVE  /\ t \in [Patches -> TramSet] /\ \A q \in Patches : Sound(t[q])
           /\ Covered(Reading(p).m, t, Loaded \cup {p})
<1> DEFINE q == Reading(p)
           m == q.m
           v == q.t
<1>1. mgr \in CountSet /\ Covered(mgr, tram, Loaded) /\ tram \in [Patches -> TramSet]
  BY DEF ListInv, Covered
<1>2. /\ m \in CountSet
      /\ Sound(v)
      /\ m.bi = mgr.bi + v.isize /\ m.be = mgr.be + v.esize
      /\ mgr.li + Len(v.il) <= m.li /\ mgr.le + Len(v.el) <= m.le
      /\ Len(v.il) = 0 \/ mgr.li + Len(v.il) <= ILines
      /\ Len(v.el) = 0 \/ mgr.le + Len(v.el) <= ELines
  BY <1>1, ReadingIs
<1> HIDE DEF q, m, v
<1>3. v \in TramSet
  BY <1>2 DEF Sound
<1>4. t = [tram EXCEPT ![p] = v]
  BY DEF q, v
<1>5. t[p] = v /\ \A r \in Patches \ {p} : t[r] = tram[r]
  BY <1>1, <1>4
<1>6. t \in [Patches -> TramSet]
  BY <1>1, <1>3, <1>4
<1>7. \A r \in Patches : Sound(t[r]) /\ t[r] \in TramSet
  BY <1>2, <1>5, <1>6 DEF ListInv
<1>8. Loaded \in SUBSET Patches /\ \A r \in Patches : tram[r] \in TramSet
  BY <1>1, ListFacts
<1> DEFINE S == Loaded
           a == ISize(tram, S)
           b == ESize(tram, S)
           c == ICount(tram, S)
           d == ECount(tram, S)
<1>9. /\ ISize(t, S \cup {p}) = a + v.isize /\ ESize(t, S \cup {p}) = b + v.esize
      /\ ICount(t, S \cup {p}) = c + Len(v.il) /\ ECount(t, S \cup {p}) = d + Len(v.el)
  <2>1. SameSizes(t, tram, S)
    BY <1>5, <1>8 DEF SameSizes
  <2>2. S \in SUBSET Patches /\ p \notin S
    BY <1>8
  <2> HIDE DEF S
  <2>3. /\ ISize(t, S) = a /\ ESize(t, S) = b /\ ICount(t, S) = c /\ ECount(t, S) = d
    BY <1>7, <1>8, <2>1, <2>2, SumsSame
  <2>4. /\ ISize(t, S \cup {p}) = ISize(t, S) + t[p].isize
        /\ ESize(t, S \cup {p}) = ESize(t, S) + t[p].esize
        /\ ICount(t, S \cup {p}) = ICount(t, S) + Len(t[p].il)
        /\ ECount(t, S \cup {p}) = ECount(t, S) + Len(t[p].el)
    BY <1>7, <2>2, SumsPlus
  <2>5. QED
    BY <1>5, <2>3, <2>4
<1>10. a \in Nat /\ b \in Nat /\ c \in Nat /\ d \in Nat
  BY <1>8, SumsAreNumbers
<1>11. /\ a <= mgr.bi /\ b <= mgr.be /\ c <= mgr.li /\ d <= mgr.le
       /\ c <= ILines /\ d <= ELines
  BY <1>1 DEF Covered, Fits
<1> HIDE DEF S, a, b, c, d
<1>12. /\ mgr.bi \in Nat /\ mgr.be \in Nat /\ mgr.li \in Nat /\ mgr.le \in Nat
       /\ m.bi \in 0 .. IMem /\ m.be \in 0 .. EMem /\ m.li \in Nat /\ m.le \in Nat
  BY <1>1, <1>2, SizesAreNat DEF CountSet
<1>13. v.isize \in Nat /\ v.esize \in Nat /\ Len(v.il) \in Nat /\ Len(v.el) \in Nat
  BY <1>3 DEF TramSet
<1>14. a + v.isize <= m.bi /\ a + v.isize <= IMem
  <2> DEFINE x == v.isize
             y == m.bi
             z == mgr.bi
  <2>1. x \in Nat /\ y \in 0 .. IMem /\ z \in Nat /\ y = z + x /\ a <= z
    BY <1>2, <1>11, <1>12, <1>13
  <2> HIDE DEF x, y, z
  <2>2. a + x <= y /\ a + x <= IMem
    BY <1>10, <2>1, SizesAreNat
  <2>3. QED
    BY <2>2 DEF x, y
<1>15. b + v.esize <= m.be /\ b + v.esize <= EMem
  <2> DEFINE x == v.esize
             y == m.be
             z == mgr.be
  <2>1. x \in Nat /\ y \in 0 .. EMem /\ z \in Nat /\ y = z + x /\ b <= z
    BY <1>2, <1>11, <1>12, <1>13
  <2> HIDE DEF x, y, z
  <2>2. b + x <= y /\ b + x <= EMem
    BY <1>10, <2>1, SizesAreNat
  <2>3. QED
    BY <2>2 DEF x, y
<1>16. c + Len(v.il) <= m.li /\ c + Len(v.il) <= ILines
  <2> DEFINE n == Len(v.il)
  <2>1. n \in Nat /\ mgr.li + n <= m.li /\ (n = 0 \/ mgr.li + n <= ILines)
    BY <1>2, <1>13
  <2> HIDE DEF n
  <2>2. c + n <= m.li /\ c + n <= ILines
    BY <1>10, <1>11, <1>12, <2>1, SizesAreNat
  <2>3. QED
    BY <2>2 DEF n
<1>17. d + Len(v.el) <= m.le /\ d + Len(v.el) <= ELines
  <2> DEFINE n == Len(v.el)
  <2>1. n \in Nat /\ mgr.le + n <= m.le /\ (n = 0 \/ mgr.le + n <= ELines)
    BY <1>2, <1>13
  <2> HIDE DEF n
  <2>2. d + n <= m.le /\ d + n <= ELines
    BY <1>10, <1>11, <1>12, <2>1, SizesAreNat
  <2>3. QED
    BY <2>2 DEF n
<1>18. Covered(m, t, S \cup {p})
  BY <1>2, <1>9, <1>14, <1>15, <1>16, <1>17 DEF Covered, Fits
<1>19. QED
  BY <1>6, <1>7, <1>18 DEF q, m, S

\* The lists with one patch more.
LEMMA ListPutIn ==
    ASSUME ListInv, NEW p \in Patches, ReadPatch(p)
    PROVE  Apart(ilist', olist') /\ Loaded' = Loaded \cup {p}
<1>1. /\ ilist \in Seq(Patches) /\ olist \in Seq(Patches) /\ Distinct(ilist) /\ Distinct(olist)
      /\ ToSet(ilist) \cap ToSet(olist) = {} /\ Loaded = ToSet(ilist) \cup ToSet(olist)
      /\ p \notin ToSet(ilist) /\ p \notin ToSet(olist)
  BY ListFacts DEF ListInv, Apart, ReadPatch
<1>2. \/ /\ ilist' \in {<<p>> \o ilist, ilist \o <<p>>} /\ olist' = olist
      \/ /\ olist' \in {<<p>> \o olist, olist \o <<p>>} /\ ilist' = ilist
  BY DEF ReadPatch
<1>3. CASE ilist' \in {<<p>> \o ilist, ilist \o <<p>>} /\ olist' = olist
  <2>1. ilist' \in Seq(Patches) /\ Distinct(ilist') /\ ToSet(ilist') = ToSet(ilist) \cup {p}
    <3>1. ASSUME NEW t \in {<<p>> \o ilist, ilist \o <<p>>}
          PROVE  t \in Seq(Patches) /\ Distinct(t) /\ ToSet(t) = ToSet(ilist) \cup {p}
      <4>1. ilist \in Seq(Patches) /\ Distinct(ilist) /\ p \notin ToSet(ilist)
        BY <1>1
      <4>2. QED
        BY <4>1, PutIn
    <3>2. QED
      BY <1>3, <3>1
  <2>2. Apart(ilist', olist')
    BY <1>1, <1>3, <2>1 DEF Apart
  <2>3. ToSet(ilist' \o olist') = ToSet(ilist') \cup ToSet(olist')
    BY <1>1, <1>3, <2>1, Joined
  <2>4. QED
    BY <1>1, <1>3, <2>1, <2>2, <2>3 DEF Loaded, Lists
<1>4. CASE olist' \in {<<p>> \o olist, olist \o <<p>>} /\ ilist' = ilist
  <2>1. olist' \in Seq(Patches) /\ Distinct(olist') /\ ToSet(olist') = ToSet(olist) \cup {p}
    <3>1. ASSUME NEW t \in {<<p>> \o olist, olist \o <<p>>}
          PROVE  t \in Seq(Patches) /\ Distinct(t) /\ ToSet(t) = ToSet(olist) \cup {p}
      <4>1. olist \in Seq(Patches) /\ Distinct(olist) /\ p \notin ToSet(olist)
        BY <1>1
      <4>2. QED
        BY <4>1, PutIn
    <3>2. QED
      BY <1>4, <3>1
  <2>2. Apart(ilist', olist')
    BY <1>1, <1>4, <2>1 DEF Apart
  <2>3. ToSet(ilist' \o olist') = ToSet(ilist') \cup ToSet(olist')
    BY <1>1, <1>4, <2>1, Joined
  <2>4. QED
    BY <1>1, <1>4, <2>1, <2>2, <2>3 DEF Loaded, Lists
<1>5. QED
  BY <1>2, <1>3, <1>4

LEMMA ReadPatchKeeps ==
    ASSUME ListInv, DriverInv, LineInv, NEW p \in Patches, ReadPatch(p)
    PROVE  ListInv' /\ DriverInv' /\ LineInv'
<1>1. /\ p \notin Loaded /\ Reading(p).ok /\ mgr' = Reading(p).m
      /\ tram' = [tram EXCEPT ![p] = Reading(p).t] /\ loads' = loads
  BY DEF ReadPatch
<1>2. /\ tram' \in [Patches -> TramSet] /\ \A q \in Patches : Sound(tram'[q])
      /\ Covered(mgr', tram', Loaded \cup {p})
  BY <1>1, ReadListed
<1>3. Apart(ilist', olist') /\ Loaded' = Loaded \cup {p}
  BY ListPutIn
<1>4. ListInv'
  <2>1. loads' \in -1 .. MaxLoads
    BY <1>1 DEF ListInv
  <2>2. QED
    BY <1>2, <1>3, <2>1 DEF ListInv
<1>5. QED
  BY <1>4, DriverStays DEF ReadPatch

LEMMA FailPatchKeeps ==
    ASSUME ListInv, DriverInv, LineInv, NEW p \in Patches, FailPatch(p)
    PROVE  ListInv' /\ DriverInv' /\ LineInv'
<1>1. mgr' = Reading(p).m /\ UNCHANGED <<loads, ilist, olist, tram>>
  BY DEF FailPatch
<1>2. mgr \in CountSet /\ Covered(mgr, tram, Loaded)
  BY DEF ListInv, Covered
<1>3. /\ mgr' \in CountSet
      /\ mgr.bi <= mgr'.bi /\ mgr.be <= mgr'.be /\ mgr.li <= mgr'.li /\ mgr.le <= mgr'.le
  BY <1>1, <1>2, ReadingIs
<1>4. Covered(mgr', tram, Loaded)
  <2> DEFINE a == ISize(tram, Loaded)
             b == ESize(tram, Loaded)
             c == ICount(tram, Loaded)
             d == ECount(tram, Loaded)
  <2>1. a \in Nat /\ b \in Nat /\ c \in Nat /\ d \in Nat
    BY ListFacts, SumsAreNumbers DEF ListInv
  <2>2. a <= mgr.bi /\ b <= mgr.be /\ c <= mgr.li /\ d <= mgr.le /\ Fits(tram, Loaded)
    BY <1>2 DEF Covered
  <2>3. /\ mgr.bi \in Int /\ mgr.be \in Int /\ mgr.li \in Int /\ mgr.le \in Int
        /\ mgr'.bi \in Int /\ mgr'.be \in Int /\ mgr'.li \in Int /\ mgr'.le \in Int
    BY <1>2, <1>3, SizesAreNat DEF CountSet
  <2> HIDE DEF a, b, c, d
  <2>4. a <= mgr'.bi /\ b <= mgr'.be /\ c <= mgr'.li /\ d <= mgr'.le
    BY <1>3, <2>1, <2>2, <2>3
  <2>5. QED
    BY <1>3, <2>2, <2>4 DEF Covered, a, b, c, d
<1>5. ListInv'
  <2>1. Loaded' = Loaded
    BY <1>1 DEF Loaded, Lists
  <2>2. QED
    BY <1>1, <1>4, <2>1 DEF ListInv
<1>6. QED
  BY <1>5, DriverStays DEF FailPatch

LEMMA ListTakenOut ==
    ASSUME NEW s, NEW u, Apart(s, u), NEW j \in DOMAIN s
    PROVE  /\ Apart(RemoveAt(s, j), u) /\ s[j] \in Patches /\ s[j] \in ToSet(s)
           /\ ToSet(RemoveAt(s, j) \o u) = (ToSet(s) \cup ToSet(u)) \ {s[j]}
           /\ ToSet(u \o RemoveAt(s, j)) = (ToSet(s) \cup ToSet(u)) \ {s[j]}
<1>1. s \in Seq(Patches) /\ Distinct(s) /\ u \in Seq(Patches) /\ ToSet(s) \cap ToSet(u) = {}
  BY DEF Apart
<1> DEFINE t == RemoveAt(s, j)
<1>2. t \in Seq(Patches) /\ Distinct(t) /\ ToSet(t) = ToSet(s) \ {s[j]}
  BY <1>1, TakenOut
<1> HIDE DEF t
<1>3. s[j] \in ToSet(s) /\ s[j] \in Patches
  BY <1>1 DEF ToSet
<1>4. ToSet(t \o u) = ToSet(t) \cup ToSet(u) /\ ToSet(u \o t) = ToSet(u) \cup ToSet(t)
  BY <1>1, <1>2, Joined
<1>5. Apart(t, u)
  BY <1>1, <1>2 DEF Apart
<1>6. QED
  BY <1>1, <1>2, <1>3, <1>4, <1>5 DEF t

\* The lists with one patch less.
LEMMA ListWithout ==
    ASSUME ListInv, NEW p \in Patches, UnloadPatch(p)
    PROVE  Loaded' = Loaded \ {p} /\ p \in Loaded /\ Apart(ilist', olist')
<1>1. Apart(ilist, olist) /\ Apart(olist, ilist) /\ Loaded = ToSet(ilist) \cup ToSet(olist)
  BY ListFacts DEF ListInv, Apart
<1>2. CASE \E j \in DOMAIN ilist : ilist[j] = p /\ ilist' = RemoveAt(ilist, j) /\ olist' = olist
  <2>1. PICK j \in DOMAIN ilist : ilist[j] = p /\ ilist' = RemoveAt(ilist, j) /\ olist' = olist
    BY <1>2
  <2>2. /\ Apart(RemoveAt(ilist, j), olist) /\ ilist[j] \in ToSet(ilist)
        /\ ToSet(RemoveAt(ilist, j) \o olist) = (ToSet(ilist) \cup ToSet(olist)) \ {ilist[j]}
    BY <1>1, ListTakenOut
  <2>3. QED
    BY <1>1, <2>1, <2>2 DEF Loaded, Lists
<1>3. CASE \E j \in DOMAIN olist : olist[j] = p /\ olist' = RemoveAt(olist, j) /\ ilist' = ilist
  <2>1. PICK j \in DOMAIN olist : olist[j] = p /\ olist' = RemoveAt(olist, j) /\ ilist' = ilist
    BY <1>3
  <2>2. /\ Apart(RemoveAt(olist, j), ilist) /\ olist[j] \in ToSet(olist)
        /\ ToSet(ilist \o RemoveAt(olist, j)) = (ToSet(olist) \cup ToSet(ilist)) \ {olist[j]}
    BY <1>1, ListTakenOut
  <2>3. Apart(ilist, RemoveAt(olist, j))
    BY <2>2 DEF Apart
  <2>4. QED
    BY <1>1, <2>1, <2>2, <2>3 DEF Loaded, Lists
<1>4. QED
  BY <1>2, <1>3 DEF UnloadPatch

LEMMA UnloadPatchKeeps ==
    ASSUME ListInv, DriverInv, LineInv, NEW p \in Patches, UnloadPatch(p)
    PROVE  ListInv' /\ DriverInv' /\ LineInv'
<1>1. mgr' = CountOff(mgr, tram[p]) /\ tram' = [tram EXCEPT ![p] = NoTram] /\ loads' = loads
  BY DEF UnloadPatch
<1>2. /\ mgr \in CountSet /\ Covered(mgr, tram, Loaded) /\ tram \in [Patches -> TramSet]
      /\ \A q \in Patches : Sound(tram[q])
  BY DEF ListInv, Covered
<1>3. Loaded' = Loaded \ {p} /\ p \in Loaded /\ Apart(ilist', olist')
  BY ListWithout
<1> DEFINE S == Loaded \ {p}
           t == tram[p]
           u == tram'
<1>4. u[p] = NoTram /\ \A q \in Patches \ {p} : u[q] = tram[q]
  BY <1>1, <1>2
<1>5. u \in [Patches -> TramSet] /\ \A q \in Patches : Sound(u[q]) /\ u[q] \in TramSet
  <2>1. u \in [Patches -> TramSet]
    BY <1>1, <1>2, NothingYet
  <2>2. \A q \in Patches : Sound(u[q])
    BY <1>2, <1>4, NothingYet
  <2>3. QED
    BY <2>1, <2>2
<1>6. /\ S \in SUBSET Patches /\ p \notin S /\ Loaded = S \cup {p}
      /\ \A q \in Patches : tram[q] \in TramSet
  BY <1>2, <1>3, ListFacts
<1> DEFINE a == ISize(u, S)
           b == ESize(u, S)
           c == ICount(u, S)
           d == ECount(u, S)
<1>7. /\ ISize(tram, Loaded) = a + t.isize /\ ESize(tram, Loaded) = b + t.esize
      /\ ICount(tram, Loaded) = c + Len(t.il) /\ ECount(tram, Loaded) = d + Len(t.el)
  <2>1. SameSizes(u, tram, S)
    BY <1>4, <1>6 DEF SameSizes
  <2> HIDE DEF S, u
  <2>2. /\ ISize(tram, S) = a /\ ESize(tram, S) = b /\ ICount(tram, S) = c /\ ECount(tram, S) = d
    BY <1>5, <1>6, <2>1, SumsSame
  <2>3. /\ ISize(tram, S \cup {p}) = ISize(tram, S) + tram[p].isize
        /\ ESize(tram, S \cup {p}) = ESize(tram, S) + tram[p].esize
        /\ ICount(tram, S \cup {p}) = ICount(tram, S) + Len(tram[p].il)
        /\ ECount(tram, S \cup {p}) = ECount(tram, S) + Len(tram[p].el)
    BY <1>6, SumsPlus
  <2>4. QED
    BY <1>6, <2>2, <2>3
<1>8. a \in Nat /\ b \in Nat /\ c \in Nat /\ d \in Nat
  <2> HIDE DEF S, u
  <2>1. QED
    BY <1>5, <1>6, SumsAreNumbers
<1>9. /\ a + t.isize <= mgr.bi /\ b + t.esize <= mgr.be
      /\ c + Len(t.il) <= mgr.li /\ d + Len(t.el) <= mgr.le
      /\ a + t.isize <= IMem /\ b + t.esize <= EMem
      /\ c + Len(t.il) <= ILines /\ d + Len(t.el) <= ELines
  BY <1>2, <1>7 DEF Covered, Fits
<1>10. t.isize \in Nat /\ t.esize \in Nat /\ Len(t.il) \in Nat /\ Len(t.el) \in Nat
  <2>1. t \in TramSet
    BY <1>6
  <2> HIDE DEF t
  <2>2. QED
    BY <2>1 DEF TramSet
<1>11. /\ mgr.bi \in 0 .. IMem /\ mgr.be \in 0 .. EMem
       /\ mgr.li \in 0 .. U8 - 1 /\ mgr.le \in 0 .. U8 - 1
  BY <1>2 DEF CountSet
<1> DEFINE n == Len(t.il)
           k == Len(t.el)
<1>12. CountOff(mgr, t) = [bi |-> mgr.bi - t.isize, be |-> mgr.be - t.esize,
                           li |-> (mgr.li - n) % U8, le |-> (mgr.le - k) % U8]
  BY DEF CountOff
<1>13. n \in Nat /\ k \in Nat /\ c + n <= mgr.li /\ d + k <= mgr.le /\ c + n <= ILines /\ d + k <= ELines
  BY <1>9, <1>10
<1> HIDE DEF S, t, u, a, b, c, d, n, k
<1>14. (mgr.li - n) % U8 = mgr.li - n /\ (mgr.le - k) % U8 = mgr.le - k
  <2>1. mgr.li - n \in Nat /\ mgr.li - n < U8 /\ mgr.le - k \in Nat /\ mgr.le - k < U8
    BY <1>8, <1>11, <1>13, SizesAreNat
  <2>2. QED
    BY <2>1, SizesAreNat, Modulo
<1>15. /\ mgr'.bi = mgr.bi - t.isize /\ mgr'.be = mgr.be - t.esize
       /\ mgr'.li = mgr.li - n /\ mgr'.le = mgr.le - k
       /\ mgr' = [bi |-> mgr.bi - t.isize, be |-> mgr.be - t.esize, li |-> mgr.li - n, le |-> mgr.le - k]
  BY <1>1, <1>12, <1>14 DEF t
<1>16. /\ mgr.bi - t.isize \in 0 .. IMem /\ a <= mgr.bi - t.isize /\ a <= IMem
       /\ mgr.be - t.esize \in 0 .. EMem /\ b <= mgr.be - t.esize /\ b <= EMem
       /\ mgr.li - n \in 0 .. U8 - 1 /\ c <= mgr.li - n /\ c <= ILines
       /\ mgr.le - k \in 0 .. U8 - 1 /\ d <= mgr.le - k /\ d <= ELines
  <2> DEFINE x == t.isize
             y == t.esize
             xx == mgr.bi
             yy == mgr.be
             nn == mgr.li
             kk == mgr.le
  <2>1. /\ x \in Nat /\ xx \in 0 .. IMem /\ a + x <= xx /\ y \in Nat /\ yy \in 0 .. EMem /\ b + y <= yy
        /\ nn \in 0 .. U8 - 1 /\ c + n <= nn /\ kk \in 0 .. U8 - 1 /\ d + k <= kk
    BY <1>9, <1>10, <1>11, <1>13
  <2> HIDE DEF x, y, xx, yy, nn, kk
  <2>2. xx - x \in 0 .. IMem /\ a <= xx - x /\ a <= IMem
    BY <1>8, <2>1, SizesAreNat
  <2>3. yy - y \in 0 .. EMem /\ b <= yy - y /\ b <= EMem
    BY <1>8, <2>1, SizesAreNat
  <2>4. nn - n \in 0 .. U8 - 1 /\ c <= nn - n /\ c <= ILines
    BY <1>8, <1>13, <2>1, SizesAreNat
  <2>5. kk - k \in 0 .. U8 - 1 /\ d <= kk - k /\ d <= ELines
    BY <1>8, <1>13, <2>1, SizesAreNat
  <2>6. QED
    BY <2>2, <2>3, <2>4, <2>5 DEF x, y, xx, yy, nn, kk
<1>17. mgr' \in CountSet
  BY <1>15, <1>16 DEF CountSet
<1>18. Covered(mgr', u, S)
  BY <1>15, <1>16, <1>17 DEF Covered, Fits, a, b, c, d
<1>19. ListInv'
  <2>1. loads' \in -1 .. MaxLoads
    BY <1>1 DEF ListInv
  <2>2. QED
    BY <1>3, <1>5, <1>18, <2>1 DEF ListInv, S, u
<1>20. QED
  BY <1>19, DriverStays DEF UnloadPatch

-----------------------------------------------------------------------------
(* The layout of a load.                                                   *)

\* The first k patches of the lists.
Upto(k) == {Lists[j] : j \in 1 .. k}

LEMMA Positions ==
    ASSUME ListInv
    PROVE  /\ Len(Lists) \in Nat /\ DOMAIN Lists = 1 .. Len(Lists)
           /\ Upto(0) = {} /\ Upto(Len(Lists)) = Loaded
           /\ \A k \in 1 .. Len(Lists) : /\ Lists[k] \in Loaded /\ Lists[k] \notin Upto(k - 1)
                                         /\ Ahead(Lists[k]) = Upto(k - 1)
                                         /\ Upto(k) = Upto(k - 1) \cup {Lists[k]}
           /\ \A p \in Loaded : \E k \in 1 .. Len(Lists) : Lists[k] = p
<1> DEFINE n == Len(Lists)
<1>1. n \in Nat /\ DOMAIN Lists = 1 .. n /\ Distinct(Lists)
  BY ListFacts
<1>2. Loaded = {Lists[k] : k \in 1 .. n}
  BY <1>1 DEF Loaded, ToSet
<1> HIDE DEF n
<1>3. Upto(0) = {} /\ Upto(n) = Loaded
  <2>1. 1 .. 0 = {}
    OBVIOUS
  <2>2. QED
    BY <1>2, <2>1 DEF Upto
<1>4. \A j, k \in 1 .. n : Lists[j] = Lists[k] => j = k
  BY <1>1 DEF Distinct
<1>5. ASSUME NEW k \in 1 .. n
      PROVE  /\ Lists[k] \in Loaded /\ Lists[k] \notin Upto(k - 1)
             /\ Ahead(Lists[k]) = Upto(k - 1)
             /\ Upto(k) = Upto(k - 1) \cup {Lists[k]}
  <2>1. Lists[k] \in Loaded
    BY <1>2
  <2>2. \A j \in 1 .. k - 1 : j \in 1 .. n /\ j < k
    BY <1>1
  <2>3. Lists[k] \notin Upto(k - 1)
    BY <1>4, <2>2 DEF Upto
  <2>4. Ahead(Lists[k]) = Upto(k - 1)
    <3>1. ASSUME NEW q \in Ahead(Lists[k]) PROVE q \in Upto(k - 1)
      <4>1. PICK i \in 1 .. n, j \in 1 .. n : i < j /\ Lists[i] = q /\ Lists[j] = Lists[k]
        BY <1>1, <3>1 DEF Ahead
      <4>2. j = k
        BY <1>4, <4>1
      <4>3. i \in 1 .. k - 1
        BY <1>1, <4>1, <4>2
      <4>4. QED
        BY <4>1, <4>3 DEF Upto
    <3>2. ASSUME NEW q \in Upto(k - 1) PROVE q \in Ahead(Lists[k])
      <4>1. PICK j \in 1 .. k - 1 : q = Lists[j]
        BY <3>2 DEF Upto
      <4>2. j \in 1 .. n /\ j < k /\ Lists[j] \in Loaded
        BY <1>2, <2>2
      <4>3. QED
        BY <1>1, <4>1, <4>2 DEF Ahead
    <3>3. QED
      BY <3>1, <3>2
  <2>5. Upto(k) = Upto(k - 1) \cup {Lists[k]}
    <3>1. 1 .. k = 1 .. k - 1 \cup {k}
      BY <1>1
    <3>2. QED
      BY <3>1 DEF Upto
  <2>6. QED
    BY <2>1, <2>3, <2>4, <2>5
<1>6. \A p \in Loaded : \E k \in 1 .. n : Lists[k] = p
  BY <1>2
<1>7. QED
  BY <1>1, <1>3, <1>5, <1>6 DEF n

\* Where a patch goes, and that it finds room there.
Room(p, m) ==
    LET t == tram[p]
    IN /\ m \in CountSet
       /\ m.bi = ISize(tram, Ahead(p)) /\ m.be = ESize(tram, Ahead(p))
       /\ m.li = ICount(tram, Ahead(p)) /\ m.le = ECount(tram, Ahead(p))
       /\ m.bi + t.isize = ISize(tram, Ahead(p) \cup {p})
       /\ m.be + t.esize = ESize(tram, Ahead(p) \cup {p})
       /\ m.li + Len(t.il) = ICount(tram, Ahead(p) \cup {p})
       /\ m.le + Len(t.el) = ECount(tram, Ahead(p) \cup {p})
       /\ m.bi + t.isize <= ISize(tram, Loaded) /\ m.be + t.esize <= ESize(tram, Loaded)
       /\ m.li + Len(t.il) <= ICount(tram, Loaded) /\ m.le + Len(t.el) <= ECount(tram, Loaded)

LEMMA RoomAhead ==
    ASSUME ListInv, NEW p \in Loaded
    PROVE  Room(p, Counts(tram, Ahead(p)))
<1> DEFINE A == Ahead(p)
           m == Counts(tram, A)
<1>1. PICK k \in 1 .. Len(Lists) : Lists[k] = p
  BY Positions
<1>2. p \notin A /\ A \in SUBSET Loaded
  <2>1. p \notin A
    BY <1>1, Positions
  <2>2. A \in SUBSET Loaded
    BY DEF Ahead
  <2>3. QED
    BY <2>1, <2>2
<1>3. Loaded \in SUBSET Patches /\ \A q \in Patches : tram[q] \in TramSet
  BY ListFacts DEF ListInv
<1>4. p \in Patches /\ A \in SUBSET Patches /\ A \cup {p} \in SUBSET Loaded
  BY <1>2, <1>3
<1> HIDE DEF A
<1>5. /\ ISize(tram, A \cup {p}) = ISize(tram, A) + tram[p].isize
      /\ ESize(tram, A \cup {p}) = ESize(tram, A) + tram[p].esize
      /\ ICount(tram, A \cup {p}) = ICount(tram, A) + Len(tram[p].il)
      /\ ECount(tram, A \cup {p}) = ECount(tram, A) + Len(tram[p].el)
  BY <1>2, <1>3, <1>4, SumsPlus
<1>6. /\ ISize(tram, A \cup {p}) <= ISize(tram, Loaded) /\ ESize(tram, A \cup {p}) <= ESize(tram, Loaded)
      /\ ICount(tram, A \cup {p}) <= ICount(tram, Loaded) /\ ECount(tram, A \cup {p}) <= ECount(tram, Loaded)
  BY <1>3, <1>4, SumsPart
<1>7. Fits(tram, A)
  <2>1. /\ ISize(tram, A) <= ISize(tram, Loaded) /\ ESize(tram, A) <= ESize(tram, Loaded)
        /\ ICount(tram, A) <= ICount(tram, Loaded) /\ ECount(tram, A) <= ECount(tram, Loaded)
    BY <1>2, <1>3, SumsPart
  <2>2. Fits(tram, Loaded)
    BY DEF ListInv, Covered
  <2> DEFINE a == ISize(tram, A)
             b == ESize(tram, A)
             c == ICount(tram, A)
             d == ECount(tram, A)
             aa == ISize(tram, Loaded)
             bb == ESize(tram, Loaded)
             cc == ICount(tram, Loaded)
             dd == ECount(tram, Loaded)
  <2>3. /\ a \in Nat /\ b \in Nat /\ c \in Nat /\ d \in Nat
        /\ aa \in Nat /\ bb \in Nat /\ cc \in Nat /\ dd \in Nat
    BY <1>3, <1>4, SumsAreNumbers
  <2>4. aa <= IMem /\ bb <= EMem /\ cc <= ILines /\ dd <= ELines
    BY <2>2 DEF Fits
  <2>5. a <= aa /\ b <= bb /\ c <= cc /\ d <= dd
    BY <2>1
  <2> HIDE DEF a, b, c, d, aa, bb, cc, dd
  <2>6. a <= IMem /\ b <= EMem /\ c <= ILines /\ d <= ELines
    BY <2>3, <2>4, <2>5, SizesAreNat
  <2>7. QED
    BY <2>6 DEF Fits, a, b, c, d
<1>8. /\ m.bi = ISize(tram, A) /\ m.be = ESize(tram, A)
      /\ m.li = ICount(tram, A) /\ m.le = ECount(tram, A)
      /\ m \in CountSet
  BY <1>3, <1>4, <1>7, CountedAnew DEF Covered
<1> HIDE DEF m
<1>9. Room(p, m)
  BY <1>5, <1>6, <1>8 DEF Room, A
<1>10. QED
  BY <1>9 DEF m, A

LEMMA Shift ==
    ASSUME NEW m \in Nat, NEW k \in Nat, NEW w \in Nat, k <= w
    PROVE  w + (m - k) \in Nat /\ m <= w + (m - k)
  OBVIOUS

LEMMA SoundFacts ==
    ASSUME NEW t, Sound(t)
    PROVE  /\ t.bi \in Nat /\ t.isize \in Nat /\ t.be \in Nat /\ t.esize \in Nat
           /\ t.li \in Nat /\ t.le \in Nat
           /\ t.il \in Seq(Nat) /\ t.el \in Seq(Nat) /\ t.refs \in Seq(Nat)
           /\ Len(t.il) \in Nat /\ Len(t.el) \in Nat /\ Len(t.refs) \in Nat
           /\ t \in TramSet
<1>1. t \in TramSet
  BY DEF Sound
<1>2. /\ t.bi \in Nat /\ t.isize \in Nat /\ t.be \in Nat /\ t.esize \in Nat
      /\ t.li \in Nat /\ t.le \in Nat
      /\ t.il \in Seq(Nat) /\ t.el \in Seq(Nat) /\ t.refs \in Seq(Nat)
  BY <1>1 DEF TramSet
<1>3. Len(t.il) \in Nat /\ Len(t.el) \in Nat /\ Len(t.refs) \in Nat
  BY <1>2
<1>4. QED
  BY <1>1, <1>2, <1>3

\* The registers of the code name the lines where they are now.
LEMMA NewRefIs ==
    ASSUME NEW m \in CountSet, NEW t, Sound(t)
    PROVE  /\ \A r \in InternalAt(t) : NewRef(m, t, r) = m.li + (r - t.li)
           /\ \A r \in ExternalAt(t) : NewRef(m, t, r) = ILines + m.le + (r - ILines - t.le)
<1> DEFINE n == Len(t.il)
           k == Len(t.el)
<1>1. t.li \in Nat /\ t.le \in Nat /\ n \in Nat /\ k \in Nat /\ ILines \in Nat
  BY SoundFacts, SizesAreNat
<1>2. t.li + n <= ILines
  BY DEF Sound
<1>3. InternalAt(t) = t.li .. t.li + n - 1 /\ ExternalAt(t) = ILines + t.le .. ILines + t.le + k - 1
  BY DEF InternalAt, ExternalAt
<1>4. \A r : NewRef(m, t, r) = IF r - ILines - t.le \in 0 .. k - 1 THEN ILines + m.le + (r - ILines - t.le)
                               ELSE IF r - t.li \in 0 .. n - 1 THEN m.li + (r - t.li) ELSE r
  BY DEF NewRef
<1> HIDE DEF n, k
<1>5. ASSUME NEW r \in InternalAt(t) PROVE NewRef(m, t, r) = m.li + (r - t.li)
  <2>1. r \in t.li .. t.li + n - 1
    BY <1>3
  <2>2. r - ILines - t.le \notin 0 .. k - 1 /\ r - t.li \in 0 .. n - 1
    BY <1>1, <1>2, <2>1
  <2>3. QED
    BY <1>4, <2>2
<1>6. ASSUME NEW r \in ExternalAt(t) PROVE NewRef(m, t, r) = ILines + m.le + (r - ILines - t.le)
  <2>1. r \in ILines + t.le .. ILines + t.le + k - 1
    BY <1>3
  <2>2. r - ILines - t.le \in 0 .. k - 1
    BY <1>1, <2>1
  <2>3. QED
    BY <1>4, <2>2
<1>7. QED
  BY <1>5, <1>6

LEMMA ReplacedIs ==
    ASSUME NEW m \in CountSet, NEW t, Sound(t),
           m.li + Len(t.il) <= ILines, m.le + Len(t.el) <= ELines,
           NEW u, u = Replaced(m, t)
    PROVE  /\ Sound(u)
           /\ u.bi = m.bi /\ u.be = m.be /\ u.li = m.li /\ u.le = m.le
           /\ u.isize = t.isize /\ u.esize = t.esize
           /\ Len(u.il) = Len(t.il) /\ Len(u.el) = Len(t.el)
<1> DEFINE il == [j \in 1 .. Len(t.il) |-> t.il[j] + (m.bi - t.bi)]
           el == [j \in 1 .. Len(t.el) |-> t.el[j] + (m.be - t.be)]
           refs == [j \in 1 .. Len(t.refs) |-> NewRef(m, t, t.refs[j])]
<1>1. /\ t.bi \in Nat /\ t.isize \in Nat /\ t.be \in Nat /\ t.esize \in Nat
      /\ t.li \in Nat /\ t.le \in Nat
      /\ t.il \in Seq(Nat) /\ t.el \in Seq(Nat) /\ t.refs \in Seq(Nat)
      /\ Len(t.il) \in Nat /\ Len(t.el) \in Nat /\ Len(t.refs) \in Nat
  BY SoundFacts
<1>2. m.bi \in Nat /\ m.be \in Nat /\ m.li \in Nat /\ m.le \in Nat /\ ILines \in Nat
  BY SizesAreNat DEF CountSet
<1>3. il \in Seq(Nat) /\ Len(il) = Len(t.il) /\ \A j \in DOMAIN il : m.bi <= il[j]
  <2>1. \A j \in DOMAIN t.il : t.bi <= t.il[j]
    BY DEF Sound
  <2>2. DOMAIN t.il = 1 .. Len(t.il) /\ \A j \in 1 .. Len(t.il) : t.il[j] \in Nat
    <3>1. t.il \in Seq(Nat)
      BY <1>1
    <3>2. QED
      BY <3>1
  <2>3. ASSUME NEW j \in 1 .. Len(t.il) PROVE il[j] \in Nat /\ m.bi <= il[j]
    <3>1. il[j] = t.il[j] + (m.bi - t.bi)
      OBVIOUS
    <3>2. QED
      BY <1>1, <1>2, <2>1, <2>2, <3>1, Shift
  <2>4. il \in Seq(Nat) /\ Len(il) = Len(t.il) /\ DOMAIN il = 1 .. Len(t.il)
    <3>1. il = [j \in 1 .. Len(t.il) |-> il[j]] /\ DOMAIN il = 1 .. Len(t.il)
      OBVIOUS
    <3> DEFINE n == Len(t.il)
    <3>2. n \in Nat /\ (\A j \in 1 .. n : il[j] \in Nat) /\ il = [j \in 1 .. n |-> il[j]]
      BY <1>1, <2>3, <3>1
    <3> HIDE DEF il, n
    <3>3. il \in Seq(Nat) /\ Len(il) = n
      BY <3>2
    <3>4. QED
      BY <3>1, <3>3 DEF n
  <2>5. QED
    BY <2>3, <2>4
<1>4. el \in Seq(Nat) /\ Len(el) = Len(t.el) /\ \A j \in DOMAIN el : m.be <= el[j]
  <2>1. \A j \in DOMAIN t.el : t.be <= t.el[j]
    BY DEF Sound
  <2>2. DOMAIN t.el = 1 .. Len(t.el) /\ \A j \in 1 .. Len(t.el) : t.el[j] \in Nat
    <3>1. t.el \in Seq(Nat)
      BY <1>1
    <3>2. QED
      BY <3>1
  <2>3. ASSUME NEW j \in 1 .. Len(t.el) PROVE el[j] \in Nat /\ m.be <= el[j]
    <3>1. el[j] = t.el[j] + (m.be - t.be)
      OBVIOUS
    <3>2. QED
      BY <1>1, <1>2, <2>1, <2>2, <3>1, Shift
  <2>4. el \in Seq(Nat) /\ Len(el) = Len(t.el) /\ DOMAIN el = 1 .. Len(t.el)
    <3>1. el = [j \in 1 .. Len(t.el) |-> el[j]] /\ DOMAIN el = 1 .. Len(t.el)
      OBVIOUS
    <3> DEFINE n == Len(t.el)
    <3>2. n \in Nat /\ (\A j \in 1 .. n : el[j] \in Nat) /\ el = [j \in 1 .. n |-> el[j]]
      BY <1>1, <2>3, <3>1
    <3> HIDE DEF el, n
    <3>3. el \in Seq(Nat) /\ Len(el) = n
      BY <3>2
    <3>4. QED
      BY <3>1, <3>3 DEF n
  <2>5. QED
    BY <2>3, <2>4
<1>5. u = [bi |-> m.bi, isize |-> t.isize, be |-> m.be, esize |-> t.esize, li |-> m.li, le |-> m.le,
           il |-> il, el |-> el, refs |-> refs]
  BY DEF Replaced
<1> DEFINE I == m.li .. m.li + Len(t.il) - 1
           E == ILines + m.le .. ILines + m.le + Len(t.el) - 1
<1>6. /\ \A r \in InternalAt(t) : NewRef(m, t, r) \in I
      /\ \A x \in I : \E r \in InternalAt(t) : NewRef(m, t, r) = x
  <2> DEFINE n == Len(t.il)
             a == t.li
             b == m.li
  <2>1. a \in Nat /\ b \in Nat /\ n \in Nat
    BY <1>1, <1>2
  <2>2. InternalAt(t) = a .. a + n - 1 /\ I = b .. b + n - 1
    BY DEF InternalAt
  <2>3. \A r \in InternalAt(t) : NewRef(m, t, r) = b + (r - a)
    BY NewRefIs
  <2> HIDE DEF n, a, b, I
  <2>4. \A r \in a .. a + n - 1 : b + (r - a) \in b .. b + n - 1
    BY <2>1
  <2>5. ASSUME NEW x \in b .. b + n - 1
        PROVE  a + (x - b) \in a .. a + n - 1 /\ b + ((a + (x - b)) - a) = x
    BY <2>1
  <2>6. QED
    BY <2>2, <2>3, <2>4, <2>5
<1>7. /\ \A r \in ExternalAt(t) : NewRef(m, t, r) \in E
      /\ \A x \in E : \E r \in ExternalAt(t) : NewRef(m, t, r) = x
  <2> DEFINE n == Len(t.el)
             a == ILines + t.le
             b == ILines + m.le
  <2>1. a \in Nat /\ b \in Nat /\ n \in Nat
    <3>1. t.le \in Nat /\ m.le \in Nat /\ ILines \in Nat
      BY <1>1, <1>2
    <3>2. a \in Nat /\ b \in Nat
      BY <3>1
    <3>3. QED
      BY <1>1, <3>2
  <2>2. ExternalAt(t) = a .. a + n - 1 /\ E = b .. b + n - 1
    BY DEF ExternalAt
  <2>3. \A r \in ExternalAt(t) : NewRef(m, t, r) = b + (r - a)
    <3>1. ASSUME NEW r \in ExternalAt(t) PROVE NewRef(m, t, r) = b + (r - a)
      <4>1. r \in Int
        BY <2>1, <2>2
      <4>2. r - ILines - t.le = r - a
        BY <1>1, <1>2, <4>1
      <4>3. NewRef(m, t, r) = ILines + m.le + (r - ILines - t.le)
        BY NewRefIs
      <4>4. QED
        BY <4>2, <4>3
    <3>2. QED
      BY <3>1
  <2> HIDE DEF n, a, b, E
  <2>4. \A r \in a .. a + n - 1 : b + (r - a) \in b .. b + n - 1
    BY <2>1
  <2>5. ASSUME NEW x \in b .. b + n - 1
        PROVE  a + (x - b) \in a .. a + n - 1 /\ b + ((a + (x - b)) - a) = x
    BY <2>1
  <2>6. QED
    BY <2>2, <2>3, <2>4, <2>5
<1>8. /\ \A x \in I \cup E : x \in Nat
      /\ \A r \in ToSet(t.refs) : NewRef(m, t, r) \in I \cup E
  <2>1. \A x \in I \cup E : x \in Nat
    BY <1>1, <1>2
  <2>2. ToSet(t.refs) = InternalAt(t) \cup ExternalAt(t)
    BY DEF Sound
  <2> HIDE DEF I, E
  <2>3. QED
    BY <1>6, <1>7, <2>1, <2>2
<1>9. refs \in Seq(Nat) /\ ToSet(refs) = I \cup E
  <2> HIDE DEF I, E
  <2>1. DOMAIN t.refs = 1 .. Len(t.refs)
    BY <1>1
  <2>2. \A j \in 1 .. Len(t.refs) : NewRef(m, t, t.refs[j]) \in I \cup E
    BY <1>8, <2>1 DEF ToSet
  <2>3. refs \in Seq(Nat)
    BY <1>1, <1>8, <2>2
  <2>4. DOMAIN refs = 1 .. Len(t.refs) /\ \A j \in 1 .. Len(t.refs) : refs[j] = NewRef(m, t, t.refs[j])
    OBVIOUS
  <2> HIDE DEF refs
  <2>5. ASSUME NEW x \in I \cup E PROVE x \in ToSet(refs)
    <3>1. PICK r \in InternalAt(t) \cup ExternalAt(t) : NewRef(m, t, r) = x
      BY <1>6, <1>7
    <3>2. r \in ToSet(t.refs)
      BY DEF Sound
    <3>3. PICK j \in 1 .. Len(t.refs) : t.refs[j] = r
      BY <2>1, <3>2 DEF ToSet
    <3>4. QED
      BY <2>4, <3>1, <3>3 DEF ToSet
  <2>6. ASSUME NEW x \in ToSet(refs) PROVE x \in I \cup E
    BY <2>2, <2>4 DEF ToSet
  <2>7. QED
    BY <2>3, <2>5, <2>6
<1> HIDE DEF il, el, refs
<1>10. /\ u.bi = m.bi /\ u.be = m.be /\ u.li = m.li /\ u.le = m.le
       /\ u.isize = t.isize /\ u.esize = t.esize /\ u.il = il /\ u.el = el /\ u.refs = refs
       /\ u \in TramSet
  <2>1. /\ u.bi = m.bi /\ u.be = m.be /\ u.li = m.li /\ u.le = m.le
        /\ u.isize = t.isize /\ u.esize = t.esize /\ u.il = il /\ u.el = el /\ u.refs = refs
    BY <1>5
  <2>2. u \in TramSet
    BY <1>1, <1>2, <1>3, <1>4, <1>5, <1>9 DEF TramSet
  <2>3. QED
    BY <2>1, <2>2
<1>11. InternalAt(u) = I /\ ExternalAt(u) = E
  BY <1>3, <1>4, <1>10 DEF InternalAt, ExternalAt
<1> HIDE DEF I, E
<1>12. u.li + Len(u.il) <= ILines /\ u.le + Len(u.el) <= ELines
  BY <1>3, <1>4, <1>10
<1>13. /\ ToSet(u.refs) = InternalAt(u) \cup ExternalAt(u)
       /\ \A j \in DOMAIN u.il : u.bi <= u.il[j]
       /\ \A j \in DOMAIN u.el : u.be <= u.el[j]
  BY <1>3, <1>4, <1>9, <1>10, <1>11
<1>14. QED
  BY <1>3, <1>4, <1>10, <1>12, <1>13 DEF Sound

LEMMA RoomForLines ==
    ASSUME ListInv, NEW p \in Loaded, NEW m, Room(p, m), NEW t, t = tram[p], Sound(t)
    PROVE  m.li + Len(t.il) <= ILines /\ m.le + Len(t.el) <= ELines
<1> DEFINE a == ICount(tram, Loaded)
           b == ECount(tram, Loaded)
           n == Len(t.il)
           k == Len(t.el)
           l == m.li
           e == m.le
<1>1. l + n <= a /\ e + k <= b
  BY DEF Room
<1>2. a <= ILines /\ b <= ELines
  BY DEF ListInv, Covered, Fits
<1>3. a \in Nat /\ b \in Nat
  BY ListFacts, SumsAreNumbers DEF ListInv
<1>4. n \in Nat /\ k \in Nat /\ l \in Nat /\ e \in Nat
  BY SoundFacts, SizesAreNat DEF CountSet, Room
<1> HIDE DEF a, b, n, k, l, e
<1>5. l + n <= ILines /\ e + k <= ELines
  BY <1>1, <1>2, <1>3, <1>4, SizesAreNat
<1>6. QED
  BY <1>5 DEF l, n, e, k

\* All patches, after the layout t of the lists.
LaidOut(t) ==
    /\ t \in [Patches -> TramSet]
    /\ \A p \in Patches : Sound(t[p])
    /\ SameSizes(t, tram, Loaded)
    /\ \A p \in Loaded : /\ t[p].bi = ISize(tram, Ahead(p)) /\ t[p].be = ESize(tram, Ahead(p))
                         /\ t[p].li = ICount(tram, Ahead(p)) /\ t[p].le = ECount(tram, Ahead(p))

LEMMA LayoutIs == ASSUME ListInv PROVE LaidOut(SetTram)
<1>1. /\ tram \in [Patches -> TramSet] /\ Loaded \in SUBSET Patches
      /\ \A p \in Patches : Sound(tram[p])
  BY ListFacts DEF ListInv
<1>2. ASSUME NEW p \in Loaded
      PROVE  LET t == tram[p]
                 u == SetTram[p]
             IN /\ Sound(u) /\ u.isize = t.isize /\ u.esize = t.esize
                /\ Len(u.il) = Len(t.il) /\ Len(u.el) = Len(t.el)
                /\ u.bi = ISize(tram, Ahead(p)) /\ u.be = ESize(tram, Ahead(p))
                /\ u.li = ICount(tram, Ahead(p)) /\ u.le = ECount(tram, Ahead(p))
  <2> DEFINE t == tram[p]
             m == Counts(tram, Ahead(p))
             u == SetTram[p]
  <2>1. p \in Patches /\ Sound(t)
    BY <1>1
  <2>2. u = Replaced(m, t)
    BY <2>1 DEF SetTram
  <2>3. Room(p, m)
    BY RoomAhead
  <2> HIDE DEF m
  <2>4. m \in CountSet
    BY <2>3 DEF Room
  <2>5. m.li + Len(t.il) <= ILines /\ m.le + Len(t.el) <= ELines
    <3>1. t = tram[p]
      OBVIOUS
    <3> HIDE DEF t
    <3>2. QED
      BY <2>1, <2>3, <3>1, RoomForLines
  <2> HIDE DEF t, u
  <2>6. /\ Sound(u) /\ u.isize = t.isize /\ u.esize = t.esize
        /\ Len(u.il) = Len(t.il) /\ Len(u.el) = Len(t.el)
        /\ u.bi = m.bi /\ u.be = m.be /\ u.li = m.li /\ u.le = m.le
    BY <2>1, <2>2, <2>4, <2>5, ReplacedIs
  <2>7. QED
    BY <2>3, <2>6 DEF Room, t, u
<1>3. ASSUME NEW p \in Patches \ Loaded PROVE SetTram[p] = tram[p]
  BY <1>3 DEF SetTram
<1>4. \A p \in Patches : Sound(SetTram[p])
  BY <1>1, <1>2, <1>3
<1>5. SetTram \in [Patches -> TramSet]
  <2>1. \A p \in Patches : SetTram[p] \in TramSet
    BY <1>4 DEF Sound
  <2>2. SetTram = [p \in Patches |-> SetTram[p]]
    BY DEF SetTram
  <2>3. QED
    BY <2>1, <2>2
<1>6. SameSizes(SetTram, tram, Loaded)
  BY <1>2 DEF SameSizes
<1>7. QED
  BY <1>2, <1>4, <1>5, <1>6 DEF LaidOut

\* Of two patches in the lists, one lies behind the other and all before it.
LEMMA InOrder ==
    ASSUME ListInv, NEW p \in Loaded, NEW q \in Loaded, p # q
    PROVE  Ahead(p) \cup {p} \in SUBSET Ahead(q) \/ Ahead(q) \cup {q} \in SUBSET Ahead(p)
<1>1. PICK j \in 1 .. Len(Lists) : Lists[j] = p
  BY Positions
<1>2. PICK k \in 1 .. Len(Lists) : Lists[k] = q
  BY Positions
<1>3. /\ Ahead(p) = Upto(j - 1) /\ Ahead(p) \cup {p} = Upto(j)
      /\ Ahead(q) = Upto(k - 1) /\ Ahead(q) \cup {q} = Upto(k)
  BY <1>1, <1>2, Positions
<1>4. j # k /\ j \in Int /\ k \in Int
  BY <1>1, <1>2, Positions
<1>5. ASSUME NEW a \in Int, NEW b \in Int, a < b PROVE Upto(a) \in SUBSET Upto(b - 1)
  BY <1>5 DEF Upto
<1>6. QED
  BY <1>3, <1>4, <1>5

\* What a patch of a layout has ends within what it and those ahead of it need.
LEMMA LaidFacts ==
    ASSUME ListInv, NEW t, LaidOut(t), NEW p \in Loaded
    PROVE  /\ t[p].bi + t[p].isize = ISize(tram, Ahead(p) \cup {p})
           /\ t[p].be + t[p].esize = ESize(tram, Ahead(p) \cup {p})
           /\ t[p].li + Len(t[p].il) = ICount(tram, Ahead(p) \cup {p})
           /\ t[p].le + Len(t[p].el) = ECount(tram, Ahead(p) \cup {p})
           /\ t[p].bi + t[p].isize <= ISize(tram, Loaded) /\ t[p].be + t[p].esize <= ESize(tram, Loaded)
           /\ t[p].li + Len(t[p].il) <= ICount(tram, Loaded)
           /\ t[p].le + Len(t[p].el) <= ECount(tram, Loaded)
<1>1. Room(p, Counts(tram, Ahead(p)))
  BY RoomAhead
<1>2. /\ t[p].bi = ISize(tram, Ahead(p)) /\ t[p].be = ESize(tram, Ahead(p))
      /\ t[p].li = ICount(tram, Ahead(p)) /\ t[p].le = ECount(tram, Ahead(p))
      /\ t[p].isize = tram[p].isize /\ t[p].esize = tram[p].esize
      /\ Len(t[p].il) = Len(tram[p].il) /\ Len(t[p].el) = Len(tram[p].el)
  BY DEF LaidOut, SameSizes
<1>3. QED
  BY <1>1, <1>2 DEF Room

LEMMA LaidApart ==
    ASSUME ListInv, NEW t, LaidOut(t), NEW p \in Loaded, NEW q \in Loaded, p # q
    PROVE  Disjoint(t[p], t[q])
<1>1. Loaded \in SUBSET Patches /\ \A r \in Patches : tram[r] \in TramSet
  BY ListFacts DEF ListInv
<1>2. ASSUME NEW a \in Loaded, NEW b \in Loaded, Ahead(a) \cup {a} \in SUBSET Ahead(b)
      PROVE  /\ t[a].bi + t[a].isize <= t[b].bi /\ t[a].be + t[a].esize <= t[b].be
             /\ t[a].li + Len(t[a].il) <= t[b].li /\ t[a].le + Len(t[a].el) <= t[b].le
  <2> DEFINE A == Ahead(a) \cup {a}
             B == Ahead(b)
  <2>1. B \in SUBSET Patches
    BY <1>1 DEF Ahead
  <2>2. A \in SUBSET B
    BY <1>2
  <2> HIDE DEF A, B
  <2>3. /\ ISize(tram, A) <= ISize(tram, B) /\ ESize(tram, A) <= ESize(tram, B)
        /\ ICount(tram, A) <= ICount(tram, B) /\ ECount(tram, A) <= ECount(tram, B)
    BY <1>1, <2>1, <2>2, SumsPart
  <2>4. /\ t[b].bi = ISize(tram, B) /\ t[b].be = ESize(tram, B)
        /\ t[b].li = ICount(tram, B) /\ t[b].le = ECount(tram, B)
    BY DEF LaidOut, B
  <2>5. /\ t[a].bi + t[a].isize = ISize(tram, A) /\ t[a].be + t[a].esize = ESize(tram, A)
        /\ t[a].li + Len(t[a].il) = ICount(tram, A) /\ t[a].le + Len(t[a].el) = ECount(tram, A)
    BY LaidFacts DEF A
  <2>6. QED
    BY <2>3, <2>4, <2>5
<1>3. QED
  BY <1>2, InOrder DEF Disjoint

LEMMA LinesOf ==
    ASSUME NEW t, Sound(t)
    PROVE  /\ ToSet(t.refs) = InternalAt(t) \cup ExternalAt(t)
           /\ \A r : r \in InternalAt(t) <=> r \in t.li .. t.li + Len(t.il) - 1
           /\ \A r : r \in ExternalAt(t) <=> r \in ILines + t.le .. ILines + t.le + Len(t.el) - 1
           /\ \A r \in InternalAt(t) : r \in 0 .. ILines - 1
           /\ \A r \in ExternalAt(t) : r \in ILines .. ILines + ELines - 1
<1>1. t.li \in Nat /\ t.le \in Nat /\ Len(t.il) \in Nat /\ Len(t.el) \in Nat
  BY SoundFacts
<1>2. t.li + Len(t.il) <= ILines /\ t.le + Len(t.el) <= ELines
  BY DEF Sound
<1> DEFINE n == Len(t.il)
           k == Len(t.el)
           a == t.li
           b == t.le
<1>3. InternalAt(t) = a .. a + n - 1 /\ ExternalAt(t) = ILines + b .. ILines + b + k - 1
  BY DEF InternalAt, ExternalAt
<1>4. a \in Nat /\ b \in Nat /\ n \in Nat /\ k \in Nat /\ a + n <= ILines /\ b + k <= ELines
  BY <1>1, <1>2
<1> HIDE DEF n, k, a, b
<1>5. \A r \in a .. a + n - 1 : r \in 0 .. ILines - 1
  BY <1>4, SizesAreNat
<1>6. \A r \in ILines + b .. ILines + b + k - 1 : r \in ILines .. ILines + ELines - 1
  BY <1>4, SizesAreNat
<1>7. QED
  BY <1>3, <1>5, <1>6 DEF Sound, n, k, a, b

LEMMA LinesApart ==
    ASSUME NEW t, Sound(t), NEW u, Sound(u), Disjoint(t, u)
    PROVE  ToSet(t.refs) \cap ToSet(u.refs) = {}
<1>1. InternalAt(t) \cap InternalAt(u) = {}
  <2> DEFINE a == t.li
             n == Len(t.il)
             c == u.li
             k == Len(u.il)
  <2>1. a \in Nat /\ n \in Nat /\ c \in Nat /\ k \in Nat
    BY SoundFacts
  <2>2. a + n <= c \/ c + k <= a
    BY DEF Disjoint
  <2>3. InternalAt(t) = a .. a + n - 1 /\ InternalAt(u) = c .. c + k - 1
    BY DEF InternalAt
  <2> HIDE DEF a, n, c, k
  <2>4. (a .. a + n - 1) \cap (c .. c + k - 1) = {}
    BY <2>1, <2>2
  <2>5. QED
    BY <2>3, <2>4
<1>2. ExternalAt(t) \cap ExternalAt(u) = {}
  <2> DEFINE a == t.le
             n == Len(t.el)
             c == u.le
             k == Len(u.el)
  <2>1. a \in Nat /\ n \in Nat /\ c \in Nat /\ k \in Nat
    BY SoundFacts
  <2>2. a + n <= c \/ c + k <= a
    BY DEF Disjoint
  <2>3. ExternalAt(t) = ILines + a .. ILines + a + n - 1 /\ ExternalAt(u) = ILines + c .. ILines + c + k - 1
    BY DEF ExternalAt
  <2> HIDE DEF a, n, c, k
  <2>4. (ILines + a .. ILines + a + n - 1) \cap (ILines + c .. ILines + c + k - 1) = {}
    BY <2>1, <2>2, SizesAreNat
  <2>5. QED
    BY <2>3, <2>4
<1>3. ASSUME NEW v, Sound(v), NEW w, Sound(w) PROVE InternalAt(v) \cap ExternalAt(w) = {}
  <2>1. \A r \in InternalAt(v) : r \in 0 .. ILines - 1
    BY <1>3, LinesOf
  <2>2. \A r \in ExternalAt(w) : r \in ILines .. ILines + ELines - 1
    BY <1>3, LinesOf
  <2>3. \A r : ~(r \in 0 .. ILines - 1 /\ r \in ILines .. ILines + ELines - 1)
    BY SizesAreNat
  <2>4. QED
    BY <2>1, <2>2, <2>3
<1>4. ToSet(t.refs) = InternalAt(t) \cup ExternalAt(t) /\ ToSet(u.refs) = InternalAt(u) \cup ExternalAt(u)
  BY LinesOf
<1>5. InternalAt(t) \cap ExternalAt(u) = {} /\ InternalAt(u) \cap ExternalAt(t) = {}
  BY <1>3
<1>6. QED
  BY <1>1, <1>2, <1>4, <1>5

\* The patches S ahead of p and p itself share the numbers up to the sum: v says
\* how many each has.
LEMMA OneHas ==
    ASSUME ListInv, NEW v, Numbers(v), NEW n \in 0 .. SumOf(v, Loaded) - 1
    PROVE  \E p \in Loaded : SumOf(v, Ahead(p)) <= n /\ n < SumOf(v, Ahead(p)) + v[p]
<1> DEFINE Has(p) == SumOf(v, Ahead(p)) <= n /\ n < SumOf(v, Ahead(p)) + v[p]
           J == {k \in 0 .. Len(Lists) : n < SumOf(v, Upto(k)) => \E p \in Loaded : Has(p)}
<1>1. /\ Len(Lists) \in Nat /\ Upto(0) = {} /\ Upto(Len(Lists)) = Loaded /\ Loaded \in SUBSET Patches
      /\ \A k \in 1 .. Len(Lists) : /\ Lists[k] \in Loaded /\ Lists[k] \notin Upto(k - 1)
                                    /\ Ahead(Lists[k]) = Upto(k - 1)
                                    /\ Upto(k) = Upto(k - 1) \cup {Lists[k]}
  BY Positions, ListFacts
<1>2. SumOf(v, Loaded) \in Nat
  BY <1>1, PatchSum
<1>3. n \in Nat /\ n < SumOf(v, Loaded)
  BY <1>2
<1>4. 0 \in J
  <2>1. SumOf(v, {}) = 0
    <3>1. SumOf(v, {}) = SumOver(v, {})
      BY DEF SumOf, SumOver
    <3>2. QED
      BY <3>1, SumEmpty
  <2>2. ~(n < SumOf(v, Upto(0)))
    BY <1>1, <1>3, <2>1
  <2>3. QED
    BY <1>1, <2>2
<1>5. ASSUME NEW k \in 0 .. Len(Lists) - 1, k \in J PROVE k + 1 \in J
  <2> DEFINE p == Lists[k + 1]
             S == Upto(k)
  <2>1. k + 1 \in 1 .. Len(Lists) /\ k + 1 \in 0 .. Len(Lists) /\ (k + 1) - 1 = k
    BY <1>1
  <2>2. /\ p \in Loaded /\ p \notin S /\ Ahead(p) = S /\ Upto(k + 1) = S \cup {p}
    BY <1>1, <2>1
  <2>3. S \in SUBSET Patches /\ p \in Patches
    BY <1>1, <2>2 DEF Ahead
  <2>4. n < SumOf(v, S) => \E q \in Loaded : Has(q)
    BY <1>5
  <2> HIDE DEF p, S
  <2>5. SumOf(v, S \cup {p}) = SumOf(v, S) + v[p] /\ SumOf(v, S) \in Nat
    BY <2>2, <2>3, PatchSum, PatchSumPlus
  <2>6. n < SumOf(v, Upto(k + 1)) => n < SumOf(v, S) \/ Has(p)
    <3> DEFINE x == SumOf(v, S)
               y == v[p]
    <3>1. x \in Nat /\ y \in Nat /\ SumOf(v, Upto(k + 1)) = x + y
      BY <2>2, <2>3, <2>5 DEF Numbers
    <3>2. Has(p) <=> x <= n /\ n < x + y
      BY <2>2
    <3> HIDE DEF x, y, Has
    <3>3. n < x + y => n < x \/ Has(p)
      BY <1>3, <3>1, <3>2
    <3>4. QED
      BY <3>1, <3>3 DEF x
  <2> HIDE DEF Has
  <2>7. n < SumOf(v, Upto(k + 1)) => \E q \in Loaded : Has(q)
    BY <2>2, <2>4, <2>6
  <2>8. QED
    BY <2>1, <2>7
<1> HIDE DEF J
<1>6. Len(Lists) \in J
  <2>1. \A k \in 0 .. Len(Lists) - 1 : k \in J => k + 1 \in J
    BY <1>5
  <2>2. \A k \in 0 .. Len(Lists) : k \in J
    BY <1>1, <1>4, <2>1, Induction
  <2>3. QED
    BY <1>1, <2>2
<1>7. QED
  BY <1>1, <1>3, <1>6 DEF J

-----------------------------------------------------------------------------
(* The lines of a load.                                                    *)

LEMMA SumsLaid ==
    ASSUME ListInv, NEW t, LaidOut(t)
    PROVE  /\ ISize(t, Loaded) = ISize(tram, Loaded) /\ ESize(t, Loaded) = ESize(tram, Loaded)
           /\ ICount(t, Loaded) = ICount(tram, Loaded) /\ ECount(t, Loaded) = ECount(tram, Loaded)
           /\ Fits(t, Loaded)
           /\ Counts(t, Loaded).li = ICount(tram, Loaded) /\ Counts(t, Loaded).le = ECount(tram, Loaded)
           /\ Covered(Counts(t, Loaded), t, Loaded)
<1>1. /\ Loaded \in SUBSET Patches /\ SameSizes(t, tram, Loaded)
      /\ \A p \in Patches : tram[p] \in TramSet
      /\ \A p \in Patches : t[p] \in TramSet
  BY ListFacts DEF ListInv, LaidOut
<1>2. /\ ISize(t, Loaded) = ISize(tram, Loaded) /\ ESize(t, Loaded) = ESize(tram, Loaded)
      /\ ICount(t, Loaded) = ICount(tram, Loaded) /\ ECount(t, Loaded) = ECount(tram, Loaded)
  BY <1>1, SumsSame
<1>3. Fits(t, Loaded)
  BY <1>2 DEF Fits, ListInv, Covered
<1>4. /\ Counts(t, Loaded).li = ICount(t, Loaded) /\ Counts(t, Loaded).le = ECount(t, Loaded)
      /\ Covered(Counts(t, Loaded), t, Loaded)
  BY <1>1, <1>3, CountedAnew
<1>5. QED
  BY <1>2, <1>3, <1>4

\* A register either is cleaned or has a patch.
LEMMA CleanOrOwned ==
    ASSUME ListInv, NEW t, LaidOut(t), NEW r \in Registers
    PROVE  Clean(Counts(t, Loaded), r) <=> ~ \E p \in Loaded : r \in ToSet(t[p].refs)
<1> DEFINE c == ICount(tram, Loaded)
           d == ECount(tram, Loaded)
           m == Counts(t, Loaded)
           v == Counted4(tram)[3]
           w == Counted4(tram)[4]
<1>1. m.li = c /\ m.le = d
  BY SumsLaid
<1>2. Loaded \in SUBSET Patches /\ \A p \in Patches : tram[p] \in TramSet
  BY ListFacts DEF ListInv
<1>3. c \in Nat /\ d \in Nat
  BY <1>2, SumsAreNumbers
<1>4. r \in 0 .. ILines + ELines - 1
  BY DEF Registers
<1>5. Clean(m, r) <=> r \in c .. ILines - 1 \/ r - ILines \in d .. ELines - 1
  BY <1>1 DEF Clean
<1>6. /\ Numbers(v) /\ Numbers(w)
      /\ \A S : SumOf(v, S) = ICount(tram, S) /\ SumOf(w, S) = ECount(tram, S)
  <2>1. Numbers(v) /\ Numbers(w)
    BY <1>2, FourNumbers
  <2>2. \A S : SumOf(v, S) = ICount(tram, S) /\ SumOf(w, S) = ECount(tram, S)
    BY FourSums
  <2>3. QED
    BY <2>1, <2>2
<1>7. \A p \in Loaded : /\ v[p] = Len(tram[p].il) /\ w[p] = Len(tram[p].el)
                        /\ Len(t[p].il) = Len(tram[p].il) /\ Len(t[p].el) = Len(tram[p].el)
                        /\ t[p].li = ICount(tram, Ahead(p)) /\ t[p].le = ECount(tram, Ahead(p))
                        /\ Sound(t[p])
  BY <1>2 DEF LaidOut, SameSizes, Counted4
<1> HIDE DEF m, v, w
<1>8. ASSUME NEW p \in Loaded, r \in ToSet(t[p].refs) PROVE ~Clean(m, r)
  <2> DEFINE n == Len(t[p].il)
             k == Len(t[p].el)
             a == t[p].li
             b == t[p].le
  <2>1. a \in Nat /\ b \in Nat /\ n \in Nat /\ k \in Nat
    BY <1>7, SoundFacts
  <2>2. a + n <= c /\ b + k <= d
    BY LaidFacts
  <2>3. r \in a .. a + n - 1 \/ r \in ILines + b .. ILines + b + k - 1
    BY <1>7, <1>8, LinesOf
  <2>4. a + n <= ILines
    BY <1>7 DEF Sound
  <2> HIDE DEF a, b, n, k, c, d
  <2>5. QED
    BY <1>3, <1>5, <2>1, <2>2, <2>3, <2>4, SizesAreNat
<1>9. ASSUME ~Clean(m, r) PROVE \E p \in Loaded : r \in ToSet(t[p].refs)
  <2>1. CASE r < ILines
    <3>1. r \in 0 .. c - 1
      <4> HIDE DEF c, d
      <4>1. QED
        BY <1>3, <1>4, <1>5, <1>9, <2>1, SizesAreNat
    <3>2. c = SumOf(v, Loaded)
      BY <1>6
    <3>3. PICK p \in Loaded : SumOf(v, Ahead(p)) <= r /\ r < SumOf(v, Ahead(p)) + v[p]
      BY <1>6, <3>1, <3>2, OneHas
    <3> DEFINE a == t[p].li
               n == Len(t[p].il)
    <3>4. a <= r /\ r < a + n
      BY <1>6, <1>7, <3>3
    <3>5. a \in Nat /\ n \in Nat /\ r \in Int
      BY <1>4, <1>7, SoundFacts
    <3>6. r \in a .. a + n - 1
      <4> HIDE DEF a, n
      <4>1. QED
        BY <3>4, <3>5
    <3>7. QED
      BY <1>7, <3>6, LinesOf
  <2>2. CASE ~(r < ILines)
    <3>1. r - ILines \in 0 .. d - 1
      <4> HIDE DEF c, d
      <4>1. QED
        BY <1>3, <1>4, <1>5, <1>9, <2>2, SizesAreNat
    <3>2. d = SumOf(w, Loaded)
      BY <1>6
    <3>3. PICK p \in Loaded : /\ SumOf(w, Ahead(p)) <= r - ILines
                              /\ r - ILines < SumOf(w, Ahead(p)) + w[p]
      BY <1>6, <3>1, <3>2, OneHas
    <3> DEFINE b == t[p].le
               k == Len(t[p].el)
    <3>4. b <= r - ILines /\ r - ILines < b + k
      BY <1>6, <1>7, <3>3
    <3>5. b \in Nat /\ k \in Nat /\ r \in Int
      BY <1>4, <1>7, SoundFacts
    <3>6. r \in ILines + b .. ILines + b + k - 1
      <4> HIDE DEF b, k
      <4>1. QED
        BY <3>4, <3>5, SizesAreNat
    <3>7. QED
      BY <1>7, <3>6, LinesOf
  <2>3. QED
    BY <2>1, <2>2
<1>10. QED
  BY <1>8, <1>9 DEF m

\* The words of a patch and where they are.
LEMMA WordIs ==
    ASSUME NEW t, Sound(t), NEW r \in Registers
    PROVE  /\ HasWord(t, r) <=> r \in ToSet(t.refs)
           /\ r \in ToSet(t.refs) => WordAt(t, r) \in Nat
           /\ \A j \in 1 .. Len(t.il) : r = t.li + j - 1 => WordAt(t, r) = t.il[j]
           /\ \A j \in 1 .. Len(t.el) : r = ILines + t.le + j - 1 => WordAt(t, r) = t.el[j]
<1> DEFINE n == Len(t.il)
           k == Len(t.el)
           a == t.li
           b == t.le
<1>1. a \in Nat /\ b \in Nat /\ n \in Nat /\ k \in Nat /\ r \in Nat
  BY SoundFacts, SizesAreNat DEF Registers
<1>2. a + n <= ILines /\ b + k <= ELines
  BY DEF Sound
<1>3. r \in ToSet(t.refs) <=> r \in a .. a + n - 1 \/ r \in ILines + b .. ILines + b + k - 1
  BY LinesOf
<1>4. HasWord(t, r) <=> r - ILines - b \in 0 .. k - 1 \/ r - a \in 0 .. n - 1
  BY DEF HasWord
<1>5. WordAt(t, r) = IF r - ILines - b \in 0 .. k - 1 THEN t.el[r - ILines - b + 1] ELSE t.il[r - a + 1]
  BY DEF WordAt
<1>6. (\A j \in 1 .. n : t.il[j] \in Nat) /\ (\A j \in 1 .. k : t.el[j] \in Nat)
  BY SoundFacts
<1> HIDE DEF n, k, a, b
<1>7. HasWord(t, r) <=> r \in ToSet(t.refs)
  BY <1>1, <1>2, <1>3, <1>4, SizesAreNat
<1>8. ASSUME r \in ToSet(t.refs) PROVE WordAt(t, r) \in Nat
  <2>1. CASE r - ILines - b \in 0 .. k - 1
    <3>1. r - ILines - b + 1 \in 1 .. k
      BY <1>1, <2>1, SizesAreNat
    <3>2. QED
      BY <1>5, <1>6, <2>1, <3>1
  <2>2. CASE r - ILines - b \notin 0 .. k - 1
    <3>1. r - a + 1 \in 1 .. n
      BY <1>1, <1>4, <1>7, <1>8, <2>2
    <3>2. QED
      BY <1>5, <1>6, <2>2, <3>1
  <2>3. QED
    BY <2>1, <2>2
<1>9. ASSUME NEW j \in 1 .. n, r = a + j - 1 PROVE WordAt(t, r) = t.il[j]
  <2>1. r - ILines - b \notin 0 .. k - 1 /\ r - a + 1 = j
    BY <1>1, <1>2, <1>9, SizesAreNat
  <2>2. QED
    BY <1>5, <2>1
<1>10. ASSUME NEW j \in 1 .. k, r = ILines + b + j - 1 PROVE WordAt(t, r) = t.el[j]
  <2>1. r - ILines - b \in 0 .. k - 1 /\ r - ILines - b + 1 = j
    BY <1>1, <1>10, SizesAreNat
  <2>2. QED
    BY <1>5, <2>1
<1>11. QED
  BY <1>7, <1>8, <1>9, <1>10 DEF n, k, a, b

LEMMA MaxOfOne == ASSUME NEW k \in Nat PROVE Max({k}) = k
  BY DEF Max

\* One patch alone writes to a line.
LEMMA SentIs ==
    ASSUME ListInv, NEW t, LaidOut(t), NEW p \in Loaded, NEW r \in Registers, r \in ToSet(t[p].refs)
    PROVE  Sent(t, r) = WordAt(t[p], r)
<1> DEFINE writers == {k \in DOMAIN Lists : HasWord(t[Lists[k]], r)}
<1>1. /\ Len(Lists) \in Nat /\ DOMAIN Lists = 1 .. Len(Lists) /\ Distinct(Lists)
      /\ \A k \in 1 .. Len(Lists) : Lists[k] \in Loaded
      /\ Loaded \in SUBSET Patches
  BY Positions, ListFacts
<1>2. PICK k \in 1 .. Len(Lists) : Lists[k] = p
  BY Positions
<1>3. \A q \in Loaded : Sound(t[q])
  BY <1>1 DEF LaidOut
<1>4. ASSUME NEW j \in 1 .. Len(Lists), HasWord(t[Lists[j]], r) PROVE j = k
  <2> DEFINE q == Lists[j]
  <2>1. q \in Loaded /\ Sound(t[q]) /\ Sound(t[p])
    BY <1>1, <1>3
  <2>2. r \in ToSet(t[q].refs)
    BY <1>4, <2>1, WordIs
  <2>3. q = p
    <3>1. SUFFICES ASSUME q # p PROVE FALSE
      OBVIOUS
    <3> HIDE DEF q
    <3>2. Disjoint(t[q], t[p])
      BY <2>1, <3>1, LaidApart
    <3>3. ToSet(t[q].refs) \cap ToSet(t[p].refs) = {}
      BY <2>1, <3>2, LinesApart
    <3>4. QED
      BY <2>2, <3>3
  <2>4. QED
    BY <1>1, <1>2, <2>3 DEF Distinct
<1>5. HasWord(t[Lists[k]], r)
  BY <1>2, <1>3, WordIs
<1>6. writers = {k}
  BY <1>1, <1>4, <1>5
<1>7. Sent(t, r) = IF writers = {} THEN lines[r] ELSE WordAt(t[Lists[Max(writers)]], r)
  BY DEF Sent
<1> HIDE DEF writers
<1>8. Max(writers) = k
  BY <1>1, <1>6, MaxOfOne
<1>9. QED
  BY <1>2, <1>6, <1>7, <1>8

-----------------------------------------------------------------------------
(* A load.                                                                 *)

LEMMA LinesSent ==
    ASSUME ListInv, lines \in [Registers -> Nat], NEW t, LaidOut(t),
           NEW l, l = [r \in Registers |-> IF Clean(Counts(t, Loaded), r) THEN 0 ELSE Sent(t, r)]
    PROVE  /\ l \in [Registers -> Nat]
           /\ \A r \in Registers : l[r] # 0 => \E p \in Loaded : r \in ToSet(t[p].refs)
           /\ \A p \in Loaded : \A r \in ToSet(t[p].refs) : r \in Registers /\ l[r] = WordAt(t[p], r)
<1>1. \A p \in Loaded : Sound(t[p])
  BY ListFacts DEF LaidOut
<1>2. ASSUME NEW p \in Loaded, NEW r \in ToSet(t[p].refs) PROVE r \in Registers /\ l[r] = WordAt(t[p], r)
  <2>1. r \in Registers
    <3>1. r \in 0 .. ILines - 1 \/ r \in ILines .. ILines + ELines - 1
      BY <1>1, LinesOf
    <3>2. QED
      BY <3>1, SizesAreNat DEF Registers
  <2>2. ~Clean(Counts(t, Loaded), r)
    BY <2>1, CleanOrOwned
  <2>3. Sent(t, r) = WordAt(t[p], r)
    BY <2>1, SentIs
  <2>4. QED
    BY <2>1, <2>2, <2>3
<1>3. ASSUME NEW r \in Registers, l[r] # 0 PROVE \E p \in Loaded : r \in ToSet(t[p].refs)
  <2>1. ~Clean(Counts(t, Loaded), r)
    BY <1>3
  <2>2. QED
    BY <2>1, CleanOrOwned
<1>4. ASSUME NEW r \in Registers PROVE l[r] \in Nat
  <2>1. CASE l[r] = 0
    BY <2>1
  <2>2. CASE l[r] # 0
    <3>1. PICK p \in Loaded : r \in ToSet(t[p].refs)
      BY <1>3, <2>2
    <3>2. l[r] = WordAt(t[p], r) /\ Sound(t[p])
      BY <1>1, <1>2, <3>1
    <3>3. QED
      BY <3>1, <3>2, WordIs
  <2>3. QED
    BY <2>1, <2>2
<1>5. l \in [Registers -> Nat]
  <2>1. l = [r \in Registers |-> l[r]]
    OBVIOUS
  <2>2. QED
    BY <1>4, <2>1
<1>6. QED
  BY <1>2, <1>3, <1>5

\* The words are where they are read back.
HeldIn(l, t) == /\ \A j \in 1 .. Len(t.il) : l[t.li + j - 1] = t.il[j]
                /\ \A j \in 1 .. Len(t.el) : l[ILines + t.le + j - 1] = t.el[j]

LEMMA SentIsHeld ==
    ASSUME NEW t, Sound(t), NEW l, \A r \in ToSet(t.refs) : r \in Registers /\ l[r] = WordAt(t, r)
    PROVE  HeldIn(l, t)
<1> DEFINE n == Len(t.il)
           k == Len(t.el)
           a == t.li
           b == t.le
<1>1. a \in Nat /\ b \in Nat /\ n \in Nat /\ k \in Nat
  BY SoundFacts
<1>2. \A r : (r \in a .. a + n - 1 \/ r \in ILines + b .. ILines + b + k - 1) => r \in ToSet(t.refs)
  BY LinesOf
<1>3. ASSUME NEW j \in 1 .. n PROVE l[a + j - 1] = t.il[j]
  <2> DEFINE r == a + j - 1
  <2>1. r \in a .. a + n - 1
    <3> HIDE DEF a, n
    <3>1. QED
      BY <1>1
  <2>2. r \in ToSet(t.refs) /\ r = t.li + j - 1
    BY <1>2, <2>1
  <2> HIDE DEF r, a
  <2>3. r \in Registers /\ l[r] = WordAt(t, r)
    BY <2>2
  <2>4. WordAt(t, r) = t.il[j]
    BY <2>2, <2>3, WordIs
  <2>5. QED
    BY <2>3, <2>4 DEF r
<1>4. ASSUME NEW j \in 1 .. k PROVE l[ILines + b + j - 1] = t.el[j]
  <2> DEFINE r == ILines + b + j - 1
  <2>1. r \in ILines + b .. ILines + b + k - 1
    <3> HIDE DEF b, k
    <3>1. QED
      BY <1>1, SizesAreNat
  <2>2. r \in ToSet(t.refs) /\ r = ILines + t.le + j - 1
    BY <1>2, <2>1
  <2> HIDE DEF r, b
  <2>3. r \in Registers /\ l[r] = WordAt(t, r)
    BY <2>2
  <2>4. WordAt(t, r) = t.el[j]
    BY <2>2, <2>3, WordIs
  <2>5. QED
    BY <2>3, <2>4 DEF r
<1>5. QED
  BY <1>3, <1>4 DEF HeldIn

LEMMA LoadKeeps ==
    ASSUME ListInv, DriverInv, LineInv, Load
    PROVE  ListInv' /\ DriverInv' /\ LineInv'
<1> DEFINE t == SetTram
<1>1. /\ loads' = loads + 1 /\ loads >= 0 /\ loads < MaxLoads
      /\ ext' = (IF mgr.be = 0 THEN ext ELSE 2 * mgr.be)
      /\ tram' = t
      /\ mgr' = Counts(tram', Loaded)
      /\ lines' = [r \in Registers |-> IF Clean(mgr', r) THEN 0 ELSE Sent(tram', r)]
      /\ driver' = [ilist |-> ilist, olist |-> olist, tram |-> tram']
      /\ ilist' = ilist /\ olist' = olist
  BY DEF Load, Editing, SizeAsked
<1>2. LaidOut(t)
  BY LayoutIs
<1> HIDE DEF t
<1>3. /\ driver'.ilist = ilist /\ driver'.olist = olist /\ driver'.tram = t
      /\ InDriver' = Loaded /\ Loaded' = Loaded
  <2>1. driver'.ilist = ilist /\ driver'.olist = olist /\ driver'.tram = t
    BY <1>1
  <2>2. QED
    BY <1>1, <2>1 DEF InDriver, Loaded, Lists
<1>4. t \in [Patches -> TramSet] /\ (\A p \in Patches : Sound(t[p])) /\ Loaded \in SUBSET Patches
  BY <1>2, ListFacts DEF LaidOut
<1>5. Fits(t, Loaded) /\ Covered(Counts(t, Loaded), t, Loaded)
  BY <1>2, SumsLaid
<1>6. Apart(ilist, olist) /\ Covered(mgr, tram, Loaded) /\ Fits(tram, Loaded) /\ mgr \in CountSet
  BY DEF ListInv, Covered
<1>7. ListInv'
  <2>1. loads' \in -1 .. MaxLoads
    BY <1>1, SizesAreNat DEF ListInv
  <2>2. QED
    BY <1>1, <1>3, <1>4, <1>5, <1>6, <2>1 DEF ListInv
<1>8. /\ lines' \in [Registers -> Nat]
      /\ \A r \in Registers : lines'[r] # 0 => \E p \in Loaded : r \in ToSet(t[p].refs)
      /\ \A p \in Loaded : \A r \in ToSet(t[p].refs) : r \in Registers /\ lines'[r] = WordAt(t[p], r)
  <2>1. lines' = [r \in Registers |-> IF Clean(Counts(t, Loaded), r) THEN 0 ELSE Sent(t, r)]
    BY <1>1
  <2>2. lines \in [Registers -> Nat]
    BY DEF LineInv
  <2>3. PICK l : l = [r \in Registers |-> IF Clean(Counts(t, Loaded), r) THEN 0 ELSE Sent(t, r)]
    OBVIOUS
  <2>4. /\ l \in [Registers -> Nat]
        /\ \A r \in Registers : l[r] # 0 => \E p \in Loaded : r \in ToSet(t[p].refs)
        /\ \A p \in Loaded : \A r \in ToSet(t[p].refs) : r \in Registers /\ l[r] = WordAt(t[p], r)
    BY <1>2, <2>2, <2>3, LinesSent
  <2>5. lines' = l
    BY <2>1, <2>3
  <2>6. QED
    BY <2>4, <2>5
<1>9. ASSUME NEW p \in Loaded
      PROVE  /\ t[p].bi + t[p].isize <= IMem /\ t[p].be + t[p].esize <= EMem
             /\ t[p].be + t[p].esize <= mgr.be
  <2> DEFINE a == ISize(tram, Loaded)
             b == ESize(tram, Loaded)
             x == t[p].bi + t[p].isize
             y == t[p].be + t[p].esize
             z == mgr.be
  <2>1. x <= a /\ y <= b
    BY <1>2, LaidFacts
  <2>2. a <= IMem /\ b <= EMem /\ b <= z
    BY <1>6 DEF Covered, Fits
  <2>3. a \in Int /\ b \in Int
    BY <1>4, SumsAreNumbers DEF ListInv
  <2>4. x \in Int /\ y \in Int /\ z \in Int
    BY <1>4, <1>6, SoundFacts, SizesAreNat DEF CountSet
  <2> HIDE DEF a, b, x, y, z
  <2>5. x <= IMem /\ y <= EMem /\ y <= z
    BY <2>1, <2>2, <2>3, <2>4, SizesAreNat
  <2>6. QED
    BY <2>5 DEF x, y, z
<1>10. DriverInv'
  <2>1. \A p \in Loaded : HeldIn(lines', t[p])
    BY <1>4, <1>8, SentIsHeld
  <2>2. \A p \in Loaded : \A q \in Loaded \ {p} : Disjoint(t[p], t[q])
    BY <1>2, LaidApart
  <2>3. QED
    BY <1>1, <1>3, <1>4, <1>5, <1>6, <1>9, <2>1, <2>2 DEF DriverInv, Held, HeldIn
<1>11. NoStrayLine'
  BY <1>3, <1>8 DEF NoStrayLine
<1>12. ext' \in 0 .. 2 * EMem
  <2>1. mgr.be \in 0 .. EMem
    BY <1>6 DEF CountSet
  <2>2. 2 * mgr.be \in 0 .. 2 * EMem
    BY <2>1, SizesAreNat
  <2>3. QED
    BY <1>1, <2>2 DEF LineInv
<1>13. ExternalFits'
  <2>1. ASSUME NEW p \in Loaded, t[p].esize > 0 PROVE 2 * (t[p].be + t[p].esize) <= ext'
    <3> DEFINE a == t[p].be
               b == t[p].esize
               z == mgr.be
    <3>1. a \in Nat /\ b \in Nat /\ z \in Nat
      BY <1>4, <1>6, SoundFacts, SizesAreNat DEF CountSet
    <3>2. a + b <= z /\ b > 0
      BY <1>9, <2>1
    <3> HIDE DEF a, b, z
    <3>3. 2 * (a + b) <= 2 * z /\ z # 0
      BY <3>1, <3>2
    <3>4. ext' = 2 * z
      BY <1>1, <3>3 DEF z
    <3>5. QED
      BY <3>3, <3>4 DEF a, b
  <2>2. QED
    BY <1>3, <2>1 DEF ExternalFits
<1>14. QED
  BY <1>7, <1>8, <1>10, <1>11, <1>12, <1>13 DEF LineInv

-----------------------------------------------------------------------------
(* The blocks of a file.                                                   *)

LEMMA IndexSum ==
    ASSUME NEW n \in Nat, NEW v, \A k \in 1 .. n : v[k] \in Nat, NEW S \in SUBSET (1 .. n)
    PROVE  /\ IsFiniteSet(S) /\ SumOf(v, S) = SumOver(v, S)
           /\ SumOf(v, S) \in Nat /\ \A k \in S : v[k] \in Nat
<1>1. IsFiniteSet(1 .. n)
  BY FS_Interval
<1>2. IsFiniteSet(S) /\ \A k \in S : v[k] \in Nat
  BY <1>1, FS_Subset
<1>3. SumOf(v, S) = SumOver(v, S)
  BY DEF SumOf, SumOver
<1>4. QED
  BY <1>2, <1>3, SumType

LEMMA IndexSumPlus ==
    ASSUME NEW n \in Nat, NEW v, \A k \in 1 .. n : v[k] \in Nat, NEW S \in SUBSET (1 .. n),
           NEW i \in (1 .. n) \ S
    PROVE  SumOf(v, S \cup {i}) = SumOf(v, S) + v[i]
<1>1. IsFiniteSet(S) /\ (\A k \in S : v[k] \in Nat) /\ v[i] \in Nat
  BY IndexSum
<1>2. SumOver(v, S \cup {i}) = SumOver(v, S) + v[i]
  BY <1>1, SumAdd
<1>3. S \cup {i} \in SUBSET (1 .. n)
  OBVIOUS
<1>4. SumOf(v, S \cup {i}) = SumOver(v, S \cup {i}) /\ SumOf(v, S) = SumOver(v, S)
  BY <1>3, IndexSum
<1>5. QED
  BY <1>2, <1>4

LEMMA IndexSumPart ==
    ASSUME NEW n \in Nat, NEW v, \A k \in 1 .. n : v[k] \in Nat, NEW S \in SUBSET (1 .. n),
           NEW T \in SUBSET S
    PROVE  SumOf(v, T) <= SumOf(v, S)
<1>1. T \in SUBSET (1 .. n) /\ IsFiniteSet(S) /\ \A k \in S : v[k] \in Nat
  BY IndexSum
<1>2. SumOver(v, T) <= SumOver(v, S)
  BY <1>1, SumPart
<1>3. QED
  BY <1>1, <1>2, IndexSum

LEMMA IndexSumNone == ASSUME NEW v PROVE SumOf(v, {}) = 0
<1>1. SumOf(v, {}) = SumOver(v, {})
  BY DEF SumOf, SumOver
<1>2. QED
  BY <1>1, SumEmpty

BlockCount(p) == Len(FileBlocks(p))

LEMMA FileFacts ==
    ASSUME NEW p \in Patches
    PROVE  /\ BlockCount(p) \in Nat /\ DOMAIN FileBlocks(p) = 1 .. BlockCount(p)
           /\ Len(Tables[p]) \in Nat /\ Len(Delays[p]) \in Nat
           /\ BlockCount(p) = Len(Tables[p]) + Len(Delays[p])
           /\ \A k \in 1 .. Len(Tables[p]) : FileBlocks(p)[k] = Tables[p][k]
           /\ \A k \in 1 .. Len(Delays[p]) : FileBlocks(p)[Len(Tables[p]) + k] = Delays[p][k]
           /\ \A i \in 1 .. BlockCount(p) : FileBlocks(p)[i] \in Blocks
<1> DEFINE a == Tables[p]
           b == Delays[p]
<1> HIDE DEF Blocks
<1>1. a \in Seq(Blocks) /\ b \in Seq(Blocks)
  BY FileAssumption
<1> HIDE DEF a, b
<1>2. /\ Len(a) \in Nat /\ Len(b) \in Nat /\ Len(a \o b) = Len(a) + Len(b) /\ a \o b \in Seq(Blocks)
      /\ \A k \in 1 .. Len(a) : (a \o b)[k] = a[k]
      /\ \A k \in 1 .. Len(b) : (a \o b)[Len(a) + k] = b[k]
  BY <1>1
<1>3. FileBlocks(p) = a \o b
  BY DEF FileBlocks, a, b
<1> DEFINE f == a \o b
<1>4. f \in Seq(Blocks)
  BY <1>2
<1> HIDE DEF f
<1>5. DOMAIN f = 1 .. Len(f) /\ \A i \in 1 .. Len(f) : f[i] \in Blocks
  BY <1>4
<1>6. FileBlocks(p) = f /\ BlockCount(p) = Len(f)
  BY <1>3 DEF BlockCount, f
<1>7. /\ BlockCount(p) \in Nat /\ DOMAIN FileBlocks(p) = 1 .. BlockCount(p)
      /\ \A i \in 1 .. BlockCount(p) : FileBlocks(p)[i] \in Blocks
  BY <1>4, <1>5, <1>6
<1>8. /\ BlockCount(p) = Len(a) + Len(b) /\ Len(a) \in Nat /\ Len(b) \in Nat
      /\ \A k \in 1 .. Len(a) : FileBlocks(p)[k] = a[k]
      /\ \A k \in 1 .. Len(b) : FileBlocks(p)[Len(a) + k] = b[k]
  BY <1>2, <1>6 DEF f
<1>9. QED
  BY <1>7, <1>8 DEF a, b

LEMMA BlockFacts ==
    ASSUME NEW p \in Patches, NEW i \in 1 .. BlockCount(p)
    PROVE  /\ FileBlocks(p)[i].size \in Nat /\ Sizes(p)[i] = FileBlocks(p)[i].size
           /\ Len(FileBlocks(p)[i].lines) \in Nat
           /\ LineCounts(p)[i] = Len(FileBlocks(p)[i].lines)
           /\ DOMAIN FileBlocks(p)[i].lines = 1 .. Len(FileBlocks(p)[i].lines)
           /\ \A j \in 1 .. Len(FileBlocks(p)[i].lines) :
                 FileBlocks(p)[i].lines[j].at \in Nat /\ FileBlocks(p)[i].lines[j].op \in {1, 2}
<1> DEFINE b == FileBlocks(p)[i]
           L == [op : {READ, WRITE}, at : Nat]
<1>1. i \in DOMAIN FileBlocks(p) /\ b \in Blocks
  BY FileFacts
<1>2. Sizes(p)[i] = b.size /\ LineCounts(p)[i] = Len(b.lines)
  BY <1>1 DEF Sizes, LineCounts
<1> HIDE DEF b
<1>3. b.lines \in Seq(L) /\ b.size \in Nat
  BY <1>1 DEF Blocks
<1> HIDE DEF L
<1>4. Len(b.lines) \in Nat /\ DOMAIN b.lines = 1 .. Len(b.lines) /\ \A j \in 1 .. Len(b.lines) : b.lines[j] \in L
  BY <1>3
<1>5. ASSUME NEW j \in 1 .. Len(b.lines) PROVE b.lines[j].at \in Nat /\ b.lines[j].op \in {1, 2}
  BY <1>4 DEF L, READ, WRITE
<1>6. QED
  BY <1>2, <1>3, <1>4, <1>5 DEF b

LEMMA LinesCount ==
    ASSUME NEW p \in Patches
    PROVE  /\ LinesBefore(p, 1) = 0
           /\ \A i \in 1 .. BlockCount(p) + 1 : LinesBefore(p, i) \in Nat
           /\ \A i \in 1 .. BlockCount(p) :
                 LinesBefore(p, i + 1) = LinesBefore(p, i) + Len(FileBlocks(p)[i].lines)
           /\ \A i, k \in 1 .. BlockCount(p) + 1 : i <= k => LinesBefore(p, i) <= LinesBefore(p, k)
<1> DEFINE n == BlockCount(p)
           v == LineCounts(p)
<1>1. n \in Nat /\ \A k \in 1 .. n : v[k] \in Nat
  BY FileFacts, BlockFacts
<1>2. \A i \in 1 .. n : v[i] = Len(FileBlocks(p)[i].lines)
  BY BlockFacts
<1>3. \A i : LinesBefore(p, i) = SumOf(v, 1 .. i - 1)
  BY DEF LinesBefore
<1> HIDE DEF n, v
<1>4. LinesBefore(p, 1) = 0
  <2>1. 1 .. 1 - 1 = {}
    OBVIOUS
  <2>2. QED
    BY <1>3, <2>1, IndexSumNone
<1>5. \A i \in 1 .. n + 1 : LinesBefore(p, i) \in Nat
  <2>1. ASSUME NEW i \in 1 .. n + 1 PROVE LinesBefore(p, i) \in Nat
    <3>1. 1 .. i - 1 \in SUBSET (1 .. n)
      BY <1>1
    <3>2. QED
      BY <1>1, <1>3, <3>1, IndexSum
  <2>2. QED
    BY <2>1
<1>6. ASSUME NEW i \in 1 .. n PROVE LinesBefore(p, i + 1) = LinesBefore(p, i) + v[i]
  <2> DEFINE S == 1 .. i - 1
  <2>1. S \in SUBSET (1 .. n) /\ i \in (1 .. n) \ S /\ 1 .. (i + 1) - 1 = S \cup {i}
    BY <1>1
  <2> HIDE DEF S
  <2>2. SumOf(v, S \cup {i}) = SumOf(v, S) + v[i]
    BY <1>1, <2>1, IndexSumPlus
  <2>3. QED
    BY <1>3, <2>1, <2>2 DEF S
<1>7. ASSUME NEW i \in 1 .. n + 1, NEW k \in 1 .. n + 1, i <= k PROVE LinesBefore(p, i) <= LinesBefore(p, k)
  <2> DEFINE S == 1 .. k - 1
             T == 1 .. i - 1
  <2>1. S \in SUBSET (1 .. n) /\ T \in SUBSET S
    BY <1>1, <1>7
  <2> HIDE DEF S, T
  <2>2. SumOf(v, T) <= SumOf(v, S)
    BY <1>1, <2>1, IndexSumPart
  <2>3. QED
    BY <1>3, <2>2 DEF S, T
<1>8. QED
  BY <1>2, <1>4, <1>5, <1>6, <1>7 DEF n

-----------------------------------------------------------------------------
(* Blocks and lines in their places.                                       *)

Base(t, r) == IF r < ILines THEN t.bi ELSE t.be

\* The memory before block i, when the blocks I are internal.
BeforeIn(p, I, i) == SumOf(Sizes(p), {k \in 1 .. i - 1 : k \in I <=> i \in I})

\* Line j of block i is in the right memory, and its word has the operation and the
\* offset of the line.
LineKept(p, t, I, i, j) ==
    LET r == RegisterOf(p, t.refs, i, j)
        l == FileBlocks(p)[i].lines[j]
    IN /\ r < ILines <=> i \in I
       /\ WordAt(t, r) = Base(t, r) + BeforeIn(p, I, i) + l.at + l.op * AddrSpace

\* The first n blocks of p are where t has them, those of I internally.
Kept(p, n, t, I) ==
    /\ I \in SUBSET (1 .. n)
    /\ Len(t.refs) = LinesBefore(p, n + 1)
    /\ t.isize = SumOf(Sizes(p), I) /\ t.esize = SumOf(Sizes(p), (1 .. n) \ I)
    /\ \A i \in 1 .. n : FileBlocks(p)[i].lines # <<>>
    /\ \A i \in 1 .. n : \A j \in 1 .. Len(FileBlocks(p)[i].lines) : LineKept(p, t, I, i, j)

LEMMA RefAt ==
    ASSUME NEW p \in Patches, NEW n \in 0 .. BlockCount(p), NEW i \in 1 .. n,
           NEW j \in 1 .. Len(FileBlocks(p)[i].lines)
    PROVE  LinesBefore(p, i) + j \in 1 .. LinesBefore(p, n + 1)
<1> DEFINE a == LinesBefore(p, i)
           b == LinesBefore(p, i + 1)
           c == LinesBefore(p, n + 1)
           m == Len(FileBlocks(p)[i].lines)
<1>1. BlockCount(p) \in Nat
  BY FileFacts
<1>2. /\ i \in 1 .. BlockCount(p) /\ i \in 1 .. BlockCount(p) + 1 /\ i + 1 \in 1 .. BlockCount(p) + 1
      /\ n + 1 \in 1 .. BlockCount(p) + 1 /\ i + 1 <= n + 1
  BY <1>1
<1>3. a \in Nat /\ b \in Nat /\ c \in Nat /\ b = a + m /\ b <= c
  BY <1>2, LinesCount
<1>4. m \in Nat /\ j \in 1 .. m
  BY <1>2, BlockFacts
<1> HIDE DEF a, b, c, m
<1>5. a + j \in 1 .. c
  BY <1>3, <1>4
<1>6. QED
  BY <1>5 DEF a, c

\* What one block more has to do: u has the lines of t where they were, and the new
\* ones behind them, in one of the memories.
LEMMA KeptLonger ==
    ASSUME NEW p \in Patches, NEW n \in Nat, n < BlockCount(p), NEW t, NEW I, Kept(p, n, t, I),
           NEW u, NEW internal \in BOOLEAN,
           FileBlocks(p)[n + 1].lines # <<>>,
           Len(u.refs) = Len(t.refs) + Len(FileBlocks(p)[n + 1].lines),
           u.isize = t.isize + (IF internal THEN FileBlocks(p)[n + 1].size ELSE 0),
           u.esize = t.esize + (IF internal THEN 0 ELSE FileBlocks(p)[n + 1].size),
           \A k \in 1 .. Len(t.refs) : /\ u.refs[k] = t.refs[k]
                                       /\ WordAt(u, t.refs[k]) = WordAt(t, t.refs[k])
                                       /\ Base(u, t.refs[k]) = Base(t, t.refs[k]),
           \A j \in 1 .. Len(FileBlocks(p)[n + 1].lines) :
              LET r == u.refs[Len(t.refs) + j]
                  l == FileBlocks(p)[n + 1].lines[j]
              IN /\ r < ILines <=> internal
                 /\ WordAt(u, r) = Base(u, r) + (IF internal THEN t.isize ELSE t.esize)
                                   + l.at + l.op * AddrSpace
    PROVE  \E J : Kept(p, n + 1, u, J)
<1> DEFINE J == IF internal THEN I \cup {n + 1} ELSE I
           c == n + 1
           b == FileBlocks(p)[c]
           v == Sizes(p)
           N == BlockCount(p)
<1>1. /\ I \in SUBSET (1 .. n) /\ Len(t.refs) = LinesBefore(p, n + 1)
      /\ t.isize = SumOf(v, I) /\ t.esize = SumOf(v, (1 .. n) \ I)
  BY DEF Kept
<1>2. /\ N \in Nat /\ \A k \in 1 .. N : v[k] \in Nat
      /\ c \in 1 .. N /\ c \notin 1 .. n /\ v[c] = b.size
      /\ n \in 0 .. N /\ 1 .. n \in SUBSET (1 .. N) /\ 1 .. c = 1 .. n \cup {c}
  <2>1. N \in Nat /\ c \in 1 .. N /\ c \notin 1 .. n /\ n \in 0 .. N
        /\ 1 .. n \in SUBSET (1 .. N) /\ 1 .. c = 1 .. n \cup {c}
    <3>1. N \in Nat
      BY FileFacts
    <3> HIDE DEF N
    <3>2. n < N
      BY DEF N
    <3>3. QED
      BY <3>1, <3>2
  <2>2. QED
    BY <2>1, BlockFacts
<1>3. Len(u.refs) = LinesBefore(p, c + 1)
  BY <1>1, <1>2, LinesCount
<1>4. J \in SUBSET (1 .. c) /\ (c \in J <=> internal) /\ \A k \in 1 .. n : k \in J <=> k \in I
  BY <1>1, <1>2
<1>5. u.isize = SumOf(v, J) /\ u.esize = SumOf(v, (1 .. c) \ J)
  <2> DEFINE S == (1 .. n) \ I
  <2>1. /\ I \in SUBSET (1 .. N) /\ S \in SUBSET (1 .. N)
        /\ c \in (1 .. N) \ I /\ c \in (1 .. N) \ S
    BY <1>1, <1>2
  <2>2. (1 .. c) \ J = IF internal THEN S ELSE S \cup {c}
    BY <1>1, <1>2
  <2>3. SumOf(v, I) \in Nat /\ SumOf(v, S) \in Nat
    <3> HIDE DEF S, v, N
    <3>1. QED
      BY <1>2, <2>1, IndexSum
  <2>4. SumOf(v, I \cup {c}) = SumOf(v, I) + v[c] /\ SumOf(v, S \cup {c}) = SumOf(v, S) + v[c]
    <3> HIDE DEF S, v, N, c
    <3>1. N \in Nat /\ (\A k \in 1 .. N : v[k] \in Nat) /\ I \in SUBSET (1 .. N) /\ S \in SUBSET (1 .. N)
      BY <1>2, <2>1
    <3>2. SumOf(v, I \cup {c}) = SumOf(v, I) + v[c]
      BY <2>1, <3>1, IndexSumPlus
    <3>3. SumOf(v, S \cup {c}) = SumOf(v, S) + v[c]
      BY <2>1, <3>1, IndexSumPlus
    <3>4. QED
      BY <3>2, <3>3
  <2>5. v[c] \in Nat /\ v[c] = b.size /\ c = n + 1
    BY <1>2
  <2> HIDE DEF S, v, N, c, b
  <2>6. CASE internal
    <3>1. J = I \cup {c} /\ (1 .. c) \ J = S
      BY <2>2, <2>6 DEF c
    <3>2. u.isize = SumOf(v, I) + v[c] /\ u.esize = SumOf(v, S) + 0
      BY <1>1, <2>5, <2>6 DEF S, b, c
    <3>3. SumOf(v, J) = SumOf(v, I \cup {c}) /\ SumOf(v, (1 .. c) \ J) = SumOf(v, S)
      BY <3>1, Zenon
    <3> HIDE DEF J
    <3>4. QED
      BY <2>3, <2>4, <3>2, <3>3
  <2>7. CASE ~internal
    <3>1. J = I /\ (1 .. c) \ J = S \cup {c}
      BY <2>2, <2>7
    <3>2. u.isize = SumOf(v, I) + 0 /\ u.esize = SumOf(v, S) + v[c]
      BY <1>1, <2>5, <2>7 DEF S, b, c
    <3>3. SumOf(v, J) = SumOf(v, I) /\ SumOf(v, (1 .. c) \ J) = SumOf(v, S \cup {c})
      BY <3>1, Zenon
    <3> HIDE DEF J
    <3>4. QED
      BY <2>3, <2>4, <3>2, <3>3
  <2>8. QED
    BY <2>6, <2>7
<1> HIDE DEF J
<1>6. ASSUME NEW i \in 1 .. n, NEW j \in 1 .. Len(FileBlocks(p)[i].lines) PROVE LineKept(p, u, J, i, j)
  <2>1. LineKept(p, t, I, i, j)
    BY DEF Kept
  <2>2. LinesBefore(p, i) + j \in 1 .. Len(t.refs)
    BY <1>1, <1>2, RefAt
  <2> DEFINE r == RegisterOf(p, t.refs, i, j)
  <2>3. RegisterOf(p, u.refs, i, j) = r /\ WordAt(u, r) = WordAt(t, r) /\ Base(u, r) = Base(t, r)
    BY <2>2 DEF RegisterOf
  <2>4. BeforeIn(p, J, i) = BeforeIn(p, I, i) /\ (i \in J <=> i \in I)
    <3>1. \A k \in 1 .. i - 1 : k \in 1 .. n
      BY <1>2
    <3>2. \A k \in 1 .. i - 1 : (k \in J <=> i \in J) <=> (k \in I <=> i \in I)
      BY <1>4, <3>1
    <3>3. {k \in 1 .. i - 1 : k \in J <=> i \in J} = {k \in 1 .. i - 1 : k \in I <=> i \in I}
      BY <3>2
    <3>4. QED
      BY <1>4, <3>3 DEF BeforeIn
  <2>5. QED
    BY <2>1, <2>3, <2>4 DEF LineKept
<1>7. ASSUME NEW j \in 1 .. Len(b.lines) PROVE LineKept(p, u, J, c, j)
  <2> DEFINE r == RegisterOf(p, u.refs, c, j)
  <2>1. r = u.refs[Len(t.refs) + j]
    BY <1>1 DEF RegisterOf
  <2>2. /\ r < ILines <=> internal
        /\ WordAt(u, r) = Base(u, r) + (IF internal THEN t.isize ELSE t.esize)
                          + b.lines[j].at + b.lines[j].op * AddrSpace
    BY <2>1
  <2>3. BeforeIn(p, J, c) = IF internal THEN t.isize ELSE t.esize
    <3>1. c - 1 = n
      OBVIOUS
    <3>2. {k \in 1 .. c - 1 : k \in J <=> c \in J} = IF internal THEN I ELSE (1 .. n) \ I
      BY <1>1, <1>4, <3>1
    <3>3. QED
      BY <1>1, <3>2 DEF BeforeIn
  <2> HIDE DEF r, c, b
  <2>4. QED
    BY <1>4, <2>2, <2>3 DEF LineKept, r, b
<1>8. \A i \in 1 .. c : FileBlocks(p)[i].lines # <<>>
  BY <1>2 DEF Kept
<1>9. \A i \in 1 .. c : \A j \in 1 .. Len(FileBlocks(p)[i].lines) : LineKept(p, u, J, i, j)
  BY <1>2, <1>6, <1>7
<1>10. Kept(p, c, u, J)
  BY <1>3, <1>4, <1>5, <1>8, <1>9 DEF Kept
<1>11. QED
  BY <1>10

AllMemory == SumOf([q \in Patches |-> Memory(q)], Patches)

LEMMA MemoryFacts ==
    /\ \A p \in Patches : Memory(p) \in Nat /\ Memory(p) = SumOf(Sizes(p), 1 .. BlockCount(p))
    /\ \A p \in Patches : Memory(p) <= AllMemory
    /\ AllMemory \in Nat /\ Numbers([q \in Patches |-> Memory(q)])
<1> DEFINE v == [q \in Patches |-> Memory(q)]
<1>1. ASSUME NEW p \in Patches
      PROVE  Memory(p) \in Nat /\ Memory(p) = SumOf(Sizes(p), 1 .. BlockCount(p))
  <2> DEFINE n == BlockCount(p)
             w == Sizes(p)
  <2>1. n \in Nat /\ (\A k \in 1 .. n : w[k] \in Nat) /\ Memory(p) = SumOf(w, 1 .. n)
    BY FileFacts, BlockFacts DEF Memory
  <2>2. 1 .. n \in SUBSET (1 .. n)
    OBVIOUS
  <2> HIDE DEF n, w
  <2>3. SumOf(w, 1 .. n) \in Nat
    BY <2>1, <2>2, IndexSum
  <2>4. QED
    BY <2>1, <2>3 DEF n, w
<1>2. Numbers(v) /\ \A p \in Patches : v[p] = Memory(p)
  BY <1>1 DEF Numbers
<1> HIDE DEF v
<1>3. SumOf(v, Patches) \in Nat
  <2>1. Patches \in SUBSET Patches
    OBVIOUS
  <2>2. QED
    BY <1>2, <2>1, PatchSum
<1>4. ASSUME NEW p \in Patches PROVE Memory(p) <= SumOf(v, Patches)
  <2> DEFINE S == Patches \ {p}
  <2>1. S \in SUBSET Patches /\ p \notin S /\ Patches = S \cup {p}
    OBVIOUS
  <2> HIDE DEF S
  <2>2. SumOf(v, S \cup {p}) = SumOf(v, S) + v[p] /\ SumOf(v, S) \in Nat
    BY <1>2, <2>1, PatchSum, PatchSumPlus
  <2>3. SumOf(v, Patches) = SumOf(v, S) + Memory(p) /\ SumOf(v, S) \in Nat /\ Memory(p) \in Nat
    BY <1>1, <1>2, <2>1, <2>2
  <2>4. QED
    BY <2>3
<1>5. QED
  BY <1>1, <1>2, <1>3, <1>4 DEF AllMemory, v

\* Block i and some others of p.
LEMMA PartOfMemory ==
    ASSUME NEW p \in Patches, NEW i \in 1 .. BlockCount(p), NEW S \in SUBSET (1 .. BlockCount(p)), i \notin S
    PROVE  /\ SumOf(Sizes(p), S) \in Nat
           /\ SumOf(Sizes(p), S \cup {i}) = SumOf(Sizes(p), S) + FileBlocks(p)[i].size
           /\ SumOf(Sizes(p), S) + FileBlocks(p)[i].size <= Memory(p)
<1> DEFINE n == BlockCount(p)
           v == Sizes(p)
<1>1. n \in Nat /\ \A k \in 1 .. n : v[k] \in Nat
  BY FileFacts, BlockFacts
<1>2. v[i] = FileBlocks(p)[i].size /\ Memory(p) = SumOf(v, 1 .. n)
  BY BlockFacts, MemoryFacts
<1>3. S \in SUBSET (1 .. n) /\ i \in (1 .. n) \ S /\ S \cup {i} \in SUBSET (1 .. n) /\ 1 .. n \in SUBSET (1 .. n)
  OBVIOUS
<1> HIDE DEF n, v
<1>4. SumOf(v, S \cup {i}) = SumOf(v, S) + v[i]
  BY <1>1, <1>3, IndexSumPlus
<1>5. SumOf(v, S \cup {i}) <= SumOf(v, 1 .. n)
  BY <1>1, <1>3, IndexSumPart
<1>6. SumOf(v, S) \in Nat
  BY <1>1, <1>3, IndexSum
<1>7. QED
  BY <1>2, <1>4, <1>5, <1>6 DEF v

\* A line of block i lies within what can be addressed, wherever block i is: behind
\* others of its patch, and all of them behind other patches.
LEMMA AddressFits ==
    ASSUME NEW p \in Patches, NEW i \in 1 .. BlockCount(p), NEW j \in 1 .. Len(FileBlocks(p)[i].lines),
           NEW a \in Nat, a + FileBlocks(p)[i].size <= AllMemory
    PROVE  a + FileBlocks(p)[i].lines[j].at \in 0 .. AddrSpace - 1
<1> DEFINE m == FileBlocks(p)[i].size
           x == FileBlocks(p)[i].lines[j].at
<1>1. /\ i \in DOMAIN FileBlocks(p) /\ j \in DOMAIN FileBlocks(p)[i].lines
      /\ m \in Nat /\ x \in Nat
  BY FileFacts, BlockFacts
<1>2. AllMemory - m + x < AddrSpace
  BY <1>1, AddressAssumption DEF AllMemory
<1> HIDE DEF m, x
<1>3. a + m <= AllMemory /\ AllMemory \in Nat /\ AddrSpace \in Nat
  BY MemoryFacts, SizesAreNat DEF m
<1>4. a + x \in 0 .. AddrSpace - 1
  BY <1>1, <1>2, <1>3
<1>5. QED
  BY <1>4 DEF x

\* The word of a line of a new block.
LEMMA WordPlaced ==
    ASSUME NEW p \in Patches, NEW i \in 1 .. BlockCount(p), NEW S \in SUBSET (1 .. i - 1),
           NEW j \in 1 .. Len(FileBlocks(p)[i].lines)
    PROVE  LET l == FileBlocks(p)[i].lines[j]
               a == SumOf(Sizes(p), S)
           IN LineWord(a, l) = a + l.at + l.op * AddrSpace
<1> DEFINE l == FileBlocks(p)[i].lines[j]
           a == SumOf(Sizes(p), S)
           m == FileBlocks(p)[i].size
<1>1. S \in SUBSET (1 .. BlockCount(p)) /\ i \notin S
  <2> DEFINE n == BlockCount(p)
  <2>1. n \in Nat /\ i \in 1 .. n
    BY FileFacts
  <2> HIDE DEF n
  <2>2. 1 .. i - 1 \in SUBSET (1 .. n) /\ i \notin 1 .. i - 1
    BY <2>1
  <2>3. QED
    BY <2>2 DEF n
<1>2. a \in Nat /\ a + m <= Memory(p) /\ m \in Nat
  BY <1>1, PartOfMemory, BlockFacts
<1> HIDE DEF a, m
<1>3. a + m <= AllMemory
  BY <1>2, MemoryFacts
<1>4. a + l.at \in 0 .. AddrSpace - 1
  BY <1>2, <1>3, AddressFits DEF m
<1>5. (a + l.at) % AddrSpace = a + l.at
  <2> DEFINE y == a + l.at
  <2>1. y \in 0 .. AddrSpace - 1
    BY <1>4
  <2> HIDE DEF y
  <2>2. y \in Nat /\ y < AddrSpace /\ AddrSpace \in Nat \ {0}
    BY <2>1, SizesAreNat
  <2>3. y % AddrSpace = y
    BY <2>2, Modulo
  <2>4. QED
    BY <2>3 DEF y
<1>6. QED
  BY <1>5 DEF LineWord, a, l

\* A word of a patch that is being read.
LEMMA FreshWord ==
    ASSUME NEW t \in TramSet, Fresh(t)
    PROVE  /\ \A k \in 0 .. Len(t.il) - 1 : WordAt(t, k) = t.il[k + 1] /\ k < ILines
           /\ \A k \in 0 .. Len(t.el) - 1 : WordAt(t, ILines + k) = t.el[k + 1] /\ ~(ILines + k < ILines)
           /\ \A r : Base(t, r) = 0
           /\ Len(t.il) \in Nat /\ Len(t.el) \in Nat /\ Len(t.refs) \in Nat
           /\ \A k \in 1 .. Len(t.refs) : \/ t.refs[k] \in 0 .. Len(t.il) - 1
                                          \/ t.refs[k] - ILines \in 0 .. Len(t.el) - 1 /\ t.refs[k] \in Nat
<1> DEFINE n == Len(t.il)
           m == Len(t.el)
<1>1. t.il \in Seq(Nat) /\ t.el \in Seq(Nat) /\ t.refs \in Seq(Nat)
  BY DEF TramSet
<1>2. n \in Nat /\ m \in Nat /\ Len(t.refs) \in Nat /\ DOMAIN t.refs = 1 .. Len(t.refs)
  BY <1>1
<1>3. t.bi = 0 /\ t.be = 0 /\ t.li = 0 /\ t.le = 0 /\ n <= ILines
      /\ ToSet(t.refs) = 0 .. n - 1 \cup ILines .. ILines + m - 1
  BY DEF Fresh
<1>4. \A r : WordAt(t, r) = IF r - ILines - 0 \in 0 .. m - 1 THEN t.el[r - ILines - 0 + 1] ELSE t.il[r - 0 + 1]
  BY <1>3 DEF WordAt
<1>5. \A r : Base(t, r) = 0
  BY <1>3 DEF Base
<1> HIDE DEF n, m
<1>6. ASSUME NEW k \in 0 .. n - 1 PROVE WordAt(t, k) = t.il[k + 1] /\ k < ILines
  <2>1. k < ILines /\ k - ILines - 0 \notin 0 .. m - 1 /\ k - 0 + 1 = k + 1
    BY <1>2, <1>3, SizesAreNat
  <2>2. QED
    BY <1>4, <2>1
<1>7. ASSUME NEW k \in 0 .. m - 1 PROVE WordAt(t, ILines + k) = t.el[k + 1] /\ ~(ILines + k < ILines)
  <2>1. ~(ILines + k < ILines) /\ (ILines + k) - ILines - 0 \in 0 .. m - 1 /\ (ILines + k) - ILines - 0 + 1 = k + 1
    BY <1>2, <1>3, SizesAreNat
  <2>2. QED
    BY <1>4, <2>1
<1>8. ASSUME NEW k \in 1 .. Len(t.refs)
      PROVE  t.refs[k] \in 0 .. n - 1 \/ (t.refs[k] - ILines \in 0 .. m - 1 /\ t.refs[k] \in Nat)
  <2> DEFINE r == t.refs[k]
  <2>1. r \in ToSet(t.refs)
    BY <1>2 DEF ToSet
  <2>2. r \in 0 .. n - 1 \/ r \in ILines .. ILines + m - 1
    BY <1>3, <2>1
  <2> HIDE DEF r
  <2>3. r \in 0 .. n - 1 \/ (r - ILines \in 0 .. m - 1 /\ r \in Nat)
    BY <1>2, <2>2, SizesAreNat
  <2>4. QED
    BY <2>3 DEF r
<1>9. QED
  BY <1>2, <1>5, <1>6, <1>7, <1>8 DEF n, m

\* Words are added to the end of the lines of t: those it has stay.
LEMMA FreshLonger ==
    ASSUME NEW t \in TramSet, Fresh(t), NEW u \in TramSet, Fresh(u),
           Len(t.il) <= Len(u.il), Len(t.el) <= Len(u.el),
           \A k \in 1 .. Len(t.il) : u.il[k] = t.il[k],
           \A k \in 1 .. Len(t.el) : u.el[k] = t.el[k],
           NEW k \in 1 .. Len(t.refs)
    PROVE  WordAt(u, t.refs[k]) = WordAt(t, t.refs[k]) /\ Base(u, t.refs[k]) = Base(t, t.refs[k])
<1> DEFINE r == t.refs[k]
           n == Len(t.il)
           m == Len(t.el)
           nn == Len(u.il)
           mm == Len(u.el)
<1>1. n \in Nat /\ m \in Nat /\ nn \in Nat /\ mm \in Nat /\ n <= nn /\ m <= mm
  BY FreshWord
<1>2. Base(u, r) = Base(t, r)
  BY FreshWord
<1>3. CASE r \in 0 .. n - 1
  <2> HIDE DEF r
  <2>1. WordAt(t, r) = t.il[r + 1]
    BY <1>3, FreshWord
  <2>2. r \in 0 .. nn - 1 /\ r + 1 \in 1 .. n
    <3> HIDE DEF n, nn
    <3>1. QED
      BY <1>1, <1>3
  <2>3. WordAt(u, r) = u.il[r + 1]
    BY <2>2, FreshWord
  <2>4. QED
    BY <1>2, <2>1, <2>2, <2>3 DEF r
<1>4. CASE r - ILines \in 0 .. m - 1 /\ r \in Nat
  <2> DEFINE j == r - ILines
  <2> HIDE DEF r
  <2>1. r = ILines + j /\ j \in 0 .. m - 1
    BY <1>4, SizesAreNat
  <2> HIDE DEF j
  <2>2. WordAt(t, ILines + j) = t.el[j + 1]
    BY <2>1, FreshWord
  <2>3. j \in 0 .. mm - 1 /\ j + 1 \in 1 .. m
    <3> HIDE DEF m, mm
    <3>1. QED
      BY <1>1, <2>1
  <2>4. WordAt(u, ILines + j) = u.el[j + 1]
    BY <2>3, FreshWord
  <2>5. QED
    BY <1>2, <2>1, <2>2, <2>3, <2>4 DEF r
<1>5. QED
  BY <1>2, <1>3, <1>4, FreshWord

LEMMA InternalKept ==
    ASSUME NEW p \in Patches, NEW n \in Nat, n < BlockCount(p), NEW s, ReadState(s), s.ok,
           NEW I, Kept(p, n, s.t, I), NEW b, b = FileBlocks(p)[n + 1], b.size <= IMem - s.m.bi,
           PlaceInternal(s, b).ok
    PROVE  \E J : Kept(p, n + 1, PlaceInternal(s, b).t, J)
<1> DEFINE k == Len(b.lines)
           new == LineWords(s.t.isize, b)
           il == s.t.il \o new
           refs == s.t.refs \o NewRefs(Len(s.t.il), b)
           u == PlaceInternal(s, b)
<1>1. b \in Blocks /\ n + 1 \in 1 .. BlockCount(p) /\ k \in Nat
  <2> DEFINE N == BlockCount(p)
  <2>1. N \in Nat /\ n < N
    BY FileFacts
  <2> HIDE DEF N
  <2>2. n + 1 \in 1 .. N
    BY <2>1
  <2>3. n + 1 \in 1 .. BlockCount(p)
    BY <2>2 DEF N
  <2>4. QED
    BY <2>3, FileFacts, BlockFacts
<1>2. ReadState(u)
  BY <1>1, InternalGrows
<1>3. /\ s.t \in TramSet /\ Fresh(s.t) /\ u.t \in TramSet /\ Fresh(u.t)
      /\ s.t.isize \in Nat /\ s.t.esize \in Nat /\ s.t.il \in Seq(Nat) /\ s.t.refs \in Seq(Nat)
      /\ Len(s.t.il) \in Nat /\ Len(s.t.el) \in Nat /\ Len(s.t.refs) \in Nat
  BY <1>2, StateType
<1>4. new \in Seq(Nat) /\ Len(new) = k
  BY <1>1, <1>3, WordsAreNat
<1>5. Len(il) = Len(s.t.il) + k /\ (\A j \in 1 .. Len(s.t.il) : il[j] = s.t.il[j])
      /\ \A j \in 1 .. k : il[Len(s.t.il) + j] = new[j]
  <2> DEFINE old == s.t.il
  <2>1. old \in Seq(Nat) /\ new \in Seq(Nat) /\ Len(new) = k
    BY <1>3, <1>4
  <2> HIDE DEF new, old, k
  <2>2. /\ Len(old \o new) = Len(old) + Len(new)
        /\ \A j \in 1 .. Len(old) : (old \o new)[j] = old[j]
        /\ \A j \in 1 .. Len(new) : (old \o new)[Len(old) + j] = new[j]
    BY <2>1, SeqGlue
  <2>3. QED
    BY <2>1, <2>2 DEF old
<1>6. /\ Len(refs) = Len(s.t.refs) + k /\ (\A j \in 1 .. Len(s.t.refs) : refs[j] = s.t.refs[j])
      /\ \A j \in 1 .. k : refs[Len(s.t.refs) + j] = Len(s.t.il) + j - 1
  <2> DEFINE r == NewRefs(Len(s.t.il), b)
             a == Len(s.t.il)
  <2>1. r = [j \in 1 .. k |-> a + j - 1]
    BY DEF NewRefs
  <2>2. r \in Seq(Nat) /\ Len(r) = k /\ \A j \in 1 .. k : r[j] = a + j - 1
    <3>1. a \in Nat
      BY <1>3
    <3> HIDE DEF r, a, k
    <3>2. QED
      BY <1>1, <2>1, <3>1
  <2> HIDE DEF r, k
  <2>3. QED
    BY <1>3, <2>2, SeqGlue DEF r
<1> HIDE DEF new, il, refs, k
<1>7. b.lines # <<>> /\ u = [s EXCEPT !.m.bi = @ + b.size, !.t.isize = @ + b.size, !.t.il = il, !.t.refs = refs]
  <2>1. ~Refused(s).ok
    BY RefusedGrows
  <2>2. ~(b.lines = <<>> \/ s.m.li + Len(il) > ILines)
    BY <2>1 DEF PlaceInternal, il, new
  <2>3. QED
    BY <2>2 DEF PlaceInternal, il, new, refs
<1>8. /\ u.t.isize = s.t.isize + b.size /\ u.t.esize = s.t.esize
      /\ u.t.il = il /\ u.t.el = s.t.el /\ u.t.refs = refs
  <2> DEFINE w == [s EXCEPT !.m.bi = @ + b.size, !.t.isize = @ + b.size, !.t.il = il, !.t.refs = refs]
  <2>1. s \in [ok : BOOLEAN, m : CountSet, t : TramSet]
    BY DEF ReadState, StateSet
  <2>2. /\ w.t.isize = s.t.isize + b.size /\ w.t.esize = s.t.esize
        /\ w.t.il = il /\ w.t.el = s.t.el /\ w.t.refs = refs
    BY <2>1 DEF CountSet, TramSet
  <2>3. u = w
    BY <1>7
  <2> HIDE DEF u, w
  <2>4. QED
    BY <2>2, <2>3
<1> HIDE DEF u
<1>9. \A i \in 1 .. Len(s.t.refs) : /\ u.t.refs[i] = s.t.refs[i]
                                    /\ WordAt(u.t, s.t.refs[i]) = WordAt(s.t, s.t.refs[i])
                                    /\ Base(u.t, s.t.refs[i]) = Base(s.t, s.t.refs[i])
  <2> DEFINE a == Len(s.t.il)
             z == Len(u.t.il)
  <2>1. z = a + k /\ a \in Nat
    BY <1>3, <1>5, <1>8
  <2> HIDE DEF a, z
  <2>2. a <= z
    BY <1>1, <2>1
  <2>3. Len(s.t.el) <= Len(u.t.el)
    BY <1>3, <1>8
  <2>4. (\A j \in 1 .. Len(s.t.il) : u.t.il[j] = s.t.il[j]) /\ (\A j \in 1 .. Len(s.t.el) : u.t.el[j] = s.t.el[j])
    BY <1>5, <1>8
  <2>5. Len(s.t.il) <= Len(u.t.il)
    BY <2>2 DEF a, z
  <2>6. QED
    BY <1>3, <1>6, <1>8, <2>3, <2>4, <2>5, FreshLonger
<1>10. ASSUME NEW j \in 1 .. k
       PROVE  LET r == u.t.refs[Len(s.t.refs) + j]
                  l == b.lines[j]
              IN r < ILines /\ WordAt(u.t, r) = Base(u.t, r) + s.t.isize + l.at + l.op * AddrSpace
  <2> DEFINE a == Len(s.t.il)
             l == b.lines[j]
             r == a + j - 1
  <2>1. u.t.refs[Len(s.t.refs) + j] = r
    BY <1>6, <1>8
  <2>2. r \in 0 .. Len(u.t.il) - 1 /\ r + 1 = a + j
    <3> DEFINE z == Len(u.t.il)
    <3>1. z = a + k /\ a \in Nat
      BY <1>3, <1>5, <1>8
    <3> HIDE DEF a, z
    <3>2. r \in 0 .. z - 1 /\ r + 1 = a + j
      BY <1>1, <3>1
    <3>3. QED
      BY <3>2 DEF z
  <2> HIDE DEF r
  <2>3. WordAt(u.t, r) = u.t.il[r + 1] /\ r < ILines /\ Base(u.t, r) = 0
    BY <1>3, <2>2, FreshWord
  <2>4. u.t.il[r + 1] = new[j]
    BY <1>5, <1>8, <2>2
  <2>5. new[j] = LineWord(s.t.isize, l)
    BY DEF new, LineWords, k
  <2>6. LineWord(s.t.isize, l) = s.t.isize + l.at + l.op * AddrSpace
    <3>1. s.t.isize = SumOf(Sizes(p), I) /\ I \in SUBSET (1 .. (n + 1) - 1)
      BY DEF Kept
    <3>2. j \in 1 .. Len(FileBlocks(p)[n + 1].lines)
      BY DEF k
    <3>3. QED
      BY <1>1, <3>1, <3>2, WordPlaced
  <2>7. l.at \in Nat /\ l.op \in {1, 2}
    BY <1>1, BlockFacts DEF k
  <2>8. 0 + s.t.isize + l.at + l.op * AddrSpace = s.t.isize + l.at + l.op * AddrSpace
    <3> DEFINE x == s.t.isize
               y == l.at
               o == l.op
    <3>1. x \in Nat /\ y \in Nat /\ (o = 1 \/ o = 2)
      BY <1>3, <2>7
    <3> HIDE DEF x, y, o
    <3>2. 0 + x + y + o * AddrSpace = x + y + o * AddrSpace
      BY <3>1, SizesAreNat
    <3>3. QED
      BY <3>2 DEF x, y, o
  <2> HIDE DEF l
  <2>9. WordAt(u.t, r) = Base(u.t, r) + s.t.isize + l.at + l.op * AddrSpace
    BY <2>3, <2>4, <2>5, <2>6, <2>8
  <2>10. QED
    BY <2>1, <2>3, <2>9 DEF l
<1>11. TRUE \in BOOLEAN /\ Len(u.t.refs) = Len(s.t.refs) + Len(FileBlocks(p)[n + 1].lines)
  BY <1>6, <1>8 DEF k
<1>12. u.t.esize = s.t.esize + 0
  BY <1>3, <1>8
<1> DEFINE t0 == s.t
           u0 == u.t
<1>13. \E J : Kept(p, n + 1, u0, J)
  <2>1. /\ FileBlocks(p)[n + 1].lines # <<>>
        /\ Len(u0.refs) = Len(t0.refs) + Len(FileBlocks(p)[n + 1].lines)
        /\ u0.isize = t0.isize + (IF TRUE THEN FileBlocks(p)[n + 1].size ELSE 0)
        /\ u0.esize = t0.esize + (IF TRUE THEN 0 ELSE FileBlocks(p)[n + 1].size)
    BY <1>7, <1>8, <1>11, <1>12
  <2>2. \A i \in 1 .. Len(t0.refs) : /\ u0.refs[i] = t0.refs[i]
                                     /\ WordAt(u0, t0.refs[i]) = WordAt(t0, t0.refs[i])
                                     /\ Base(u0, t0.refs[i]) = Base(t0, t0.refs[i])
    BY <1>9
  <2>3. \A j \in 1 .. Len(FileBlocks(p)[n + 1].lines) :
              LET r == u0.refs[Len(t0.refs) + j]
                  l == FileBlocks(p)[n + 1].lines[j]
              IN /\ r < ILines <=> TRUE
                 /\ WordAt(u0, r) = Base(u0, r) + (IF TRUE THEN t0.isize ELSE t0.esize)
                                   + l.at + l.op * AddrSpace
    BY <1>10 DEF k
  <2>4. Kept(p, n, t0, I)
    OBVIOUS
  <2> HIDE DEF t0, u0
  <2>5. QED
    BY <2>1, <2>2, <2>3, <2>4, KeptLonger
<1>14. QED
  BY <1>13 DEF u

LEMMA ExternalKept ==
    ASSUME NEW p \in Patches, NEW n \in Nat, n < BlockCount(p), NEW s, ReadState(s), s.ok,
           NEW I, Kept(p, n, s.t, I), NEW b, b = FileBlocks(p)[n + 1], b.size <= EMem - s.m.be,
           PlaceExternal(s, b).ok
    PROVE  \E J : Kept(p, n + 1, PlaceExternal(s, b).t, J)
<1> DEFINE k == Len(b.lines)
           new == LineWords(s.t.esize, b)
           el == s.t.el \o new
           refs == s.t.refs \o NewRefs(ILines + Len(s.t.el), b)
           u == PlaceExternal(s, b)
<1>1. b \in Blocks /\ n + 1 \in 1 .. BlockCount(p) /\ k \in Nat
  <2> DEFINE N == BlockCount(p)
  <2>1. N \in Nat /\ n < N
    BY FileFacts
  <2> HIDE DEF N
  <2>2. n + 1 \in 1 .. N
    BY <2>1
  <2>3. n + 1 \in 1 .. BlockCount(p)
    BY <2>2 DEF N
  <2>4. QED
    BY <2>3, FileFacts, BlockFacts
<1>2. ReadState(u)
  BY <1>1, ExternalGrows
<1>3. /\ s.t \in TramSet /\ Fresh(s.t) /\ u.t \in TramSet /\ Fresh(u.t)
      /\ s.t.esize \in Nat /\ s.t.isize \in Nat /\ s.t.el \in Seq(Nat) /\ s.t.refs \in Seq(Nat)
      /\ Len(s.t.el) \in Nat /\ Len(s.t.il) \in Nat /\ Len(s.t.refs) \in Nat
  BY <1>2, StateType
<1>4. new \in Seq(Nat) /\ Len(new) = k
  BY <1>1, <1>3, WordsAreNat
<1>5. Len(el) = Len(s.t.el) + k /\ (\A j \in 1 .. Len(s.t.el) : el[j] = s.t.el[j])
      /\ \A j \in 1 .. k : el[Len(s.t.el) + j] = new[j]
  <2> DEFINE old == s.t.el
  <2>1. old \in Seq(Nat) /\ new \in Seq(Nat) /\ Len(new) = k
    BY <1>3, <1>4
  <2> HIDE DEF new, old, k
  <2>2. /\ Len(old \o new) = Len(old) + Len(new)
        /\ \A j \in 1 .. Len(old) : (old \o new)[j] = old[j]
        /\ \A j \in 1 .. Len(new) : (old \o new)[Len(old) + j] = new[j]
    BY <2>1, SeqGlue
  <2>3. QED
    BY <2>1, <2>2 DEF old
<1>6. /\ Len(refs) = Len(s.t.refs) + k /\ (\A j \in 1 .. Len(s.t.refs) : refs[j] = s.t.refs[j])
      /\ \A j \in 1 .. k : refs[Len(s.t.refs) + j] = ILines + Len(s.t.el) + j - 1
  <2> DEFINE r == NewRefs(ILines + Len(s.t.el), b)
             a == ILines + Len(s.t.el)
  <2>1. r = [j \in 1 .. k |-> a + j - 1]
    BY DEF NewRefs
  <2>2. r \in Seq(Nat) /\ Len(r) = k /\ \A j \in 1 .. k : r[j] = a + j - 1
    <3>1. a \in Nat
      BY <1>3, SizesAreNat
    <3> HIDE DEF r, a, k
    <3>2. QED
      BY <1>1, <2>1, <3>1
  <2>3. ILines + Len(s.t.el) = a
    OBVIOUS
  <2> HIDE DEF r, k, a
  <2>4. QED
    BY <1>3, <2>2, <2>3, SeqGlue DEF r
<1> HIDE DEF new, el, refs, k
<1>7. b.lines # <<>> /\ u = [s EXCEPT !.m.be = @ + b.size, !.t.esize = @ + b.size, !.t.el = el, !.t.refs = refs]
  <2>1. ~Refused(s).ok
    BY RefusedGrows
  <2>2. ~(b.lines = <<>> \/ s.m.le + Len(el) > ELines)
    BY <2>1 DEF PlaceExternal, el, new
  <2>3. QED
    BY <2>2 DEF PlaceExternal, el, new, refs
<1>8. /\ u.t.esize = s.t.esize + b.size /\ u.t.isize = s.t.isize
      /\ u.t.el = el /\ u.t.il = s.t.il /\ u.t.refs = refs
  <2> DEFINE w == [s EXCEPT !.m.be = @ + b.size, !.t.esize = @ + b.size, !.t.el = el, !.t.refs = refs]
  <2>1. s \in [ok : BOOLEAN, m : CountSet, t : TramSet]
    BY DEF ReadState, StateSet
  <2>2. /\ w.t.esize = s.t.esize + b.size /\ w.t.isize = s.t.isize
        /\ w.t.el = el /\ w.t.il = s.t.il /\ w.t.refs = refs
    BY <2>1 DEF CountSet, TramSet
  <2>3. u = w
    BY <1>7
  <2> HIDE DEF u, w
  <2>4. QED
    BY <2>2, <2>3
<1> HIDE DEF u
<1>9. \A i \in 1 .. Len(s.t.refs) : /\ u.t.refs[i] = s.t.refs[i]
                                    /\ WordAt(u.t, s.t.refs[i]) = WordAt(s.t, s.t.refs[i])
                                    /\ Base(u.t, s.t.refs[i]) = Base(s.t, s.t.refs[i])
  <2> DEFINE a == Len(s.t.el)
             z == Len(u.t.el)
  <2>1. z = a + k /\ a \in Nat
    BY <1>3, <1>5, <1>8
  <2> HIDE DEF a, z
  <2>2. a <= z
    BY <1>1, <2>1
  <2>3. Len(s.t.il) <= Len(u.t.il)
    BY <1>3, <1>8
  <2>4. (\A j \in 1 .. Len(s.t.el) : u.t.el[j] = s.t.el[j]) /\ (\A j \in 1 .. Len(s.t.il) : u.t.il[j] = s.t.il[j])
    BY <1>5, <1>8
  <2>5. Len(s.t.el) <= Len(u.t.el)
    BY <2>2 DEF a, z
  <2>6. QED
    BY <1>3, <1>6, <1>8, <2>3, <2>4, <2>5, FreshLonger
<1>10. ASSUME NEW j \in 1 .. k
       PROVE  LET r == u.t.refs[Len(s.t.refs) + j]
                  l == b.lines[j]
              IN ~(r < ILines) /\ WordAt(u.t, r) = Base(u.t, r) + s.t.esize + l.at + l.op * AddrSpace
  <2> DEFINE a == Len(s.t.el)
             l == b.lines[j]
             r == a + j - 1
  <2>1. u.t.refs[Len(s.t.refs) + j] = ILines + r
    <3>1. u.t.refs[Len(s.t.refs) + j] = ILines + a + j - 1
      BY <1>6, <1>8
    <3>2. a \in Int /\ j \in Int /\ ILines \in Int
      BY <1>1, <1>3, SizesAreNat
    <3> HIDE DEF a
    <3>3. ILines + a + j - 1 = ILines + (a + j - 1)
      BY <3>2
    <3>4. QED
      BY <3>1, <3>3
  <2>2. r \in 0 .. Len(u.t.el) - 1 /\ r + 1 = a + j
    <3> DEFINE z == Len(u.t.el)
    <3>1. z = a + k /\ a \in Nat
      BY <1>3, <1>5, <1>8
    <3> HIDE DEF a, z
    <3>2. r \in 0 .. z - 1 /\ r + 1 = a + j
      BY <1>1, <3>1
    <3>3. QED
      BY <3>2 DEF z
  <2> HIDE DEF r
  <2>3. WordAt(u.t, ILines + r) = u.t.el[r + 1] /\ ~(ILines + r < ILines) /\ Base(u.t, ILines + r) = 0
    BY <1>3, <2>2, FreshWord
  <2>4. u.t.el[r + 1] = new[j]
    BY <1>5, <1>8, <2>2
  <2>5. new[j] = LineWord(s.t.esize, l)
    BY DEF new, LineWords, k
  <2>6. LineWord(s.t.esize, l) = s.t.esize + l.at + l.op * AddrSpace
    <3>1. s.t.esize = SumOf(Sizes(p), (1 .. n) \ I) /\ (1 .. n) \ I \in SUBSET (1 .. (n + 1) - 1)
      BY DEF Kept
    <3>2. j \in 1 .. Len(FileBlocks(p)[n + 1].lines)
      BY DEF k
    <3>3. QED
      BY <1>1, <3>1, <3>2, WordPlaced
  <2>7. l.at \in Nat /\ l.op \in {1, 2}
    BY <1>1, BlockFacts DEF k
  <2>8. 0 + s.t.esize + l.at + l.op * AddrSpace = s.t.esize + l.at + l.op * AddrSpace
    <3> DEFINE x == s.t.esize
               y == l.at
               o == l.op
    <3>1. x \in Nat /\ y \in Nat /\ (o = 1 \/ o = 2)
      BY <1>3, <2>7
    <3> HIDE DEF x, y, o
    <3>2. 0 + x + y + o * AddrSpace = x + y + o * AddrSpace
      BY <3>1, SizesAreNat
    <3>3. QED
      BY <3>2 DEF x, y, o
  <2> HIDE DEF l
  <2>9. WordAt(u.t, ILines + r) = Base(u.t, ILines + r) + s.t.esize + l.at + l.op * AddrSpace
    BY <2>3, <2>4, <2>5, <2>6, <2>8
  <2>10. QED
    BY <2>1, <2>3, <2>9 DEF l
<1>11. FALSE \in BOOLEAN /\ Len(u.t.refs) = Len(s.t.refs) + Len(FileBlocks(p)[n + 1].lines)
  BY <1>6, <1>8 DEF k
<1>12. u.t.isize = s.t.isize + 0
  BY <1>3, <1>8
<1> DEFINE t0 == s.t
           u0 == u.t
<1>13. \E J : Kept(p, n + 1, u0, J)
  <2>1. /\ FileBlocks(p)[n + 1].lines # <<>>
        /\ Len(u0.refs) = Len(t0.refs) + Len(FileBlocks(p)[n + 1].lines)
        /\ u0.esize = t0.esize + (IF FALSE THEN 0 ELSE FileBlocks(p)[n + 1].size)
        /\ u0.isize = t0.isize + (IF FALSE THEN FileBlocks(p)[n + 1].size ELSE 0)
    BY <1>7, <1>8, <1>11, <1>12
  <2>2. \A i \in 1 .. Len(t0.refs) : /\ u0.refs[i] = t0.refs[i]
                                     /\ WordAt(u0, t0.refs[i]) = WordAt(t0, t0.refs[i])
                                     /\ Base(u0, t0.refs[i]) = Base(t0, t0.refs[i])
    BY <1>9
  <2>3. \A j \in 1 .. Len(FileBlocks(p)[n + 1].lines) :
              LET r == u0.refs[Len(t0.refs) + j]
                  l == FileBlocks(p)[n + 1].lines[j]
              IN /\ r < ILines <=> FALSE
                 /\ WordAt(u0, r) = Base(u0, r) + (IF FALSE THEN t0.isize ELSE t0.esize)
                                   + l.at + l.op * AddrSpace
    BY <1>10 DEF k
  <2>4. Kept(p, n, t0, I)
    OBVIOUS
  <2> HIDE DEF t0, u0
  <2>5. QED
    BY <2>1, <2>2, <2>3, <2>4, KeptLonger
<1>14. QED
  BY <1>13 DEF u

LEMMA PlaceKept ==
    ASSUME NEW p \in Patches, NEW n \in Nat, n < BlockCount(p), NEW s, ReadState(s),
           s.ok => \E I : Kept(p, n, s.t, I), NEW u, u = Place(s, FileBlocks(p)[n + 1]), u.ok
    PROVE  \E I : Kept(p, n + 1, u.t, I)
<1> DEFINE b == FileBlocks(p)[n + 1]
<1>1. ~Refused(s).ok
  BY RefusedGrows
<1>2. s.ok
  BY <1>1 DEF Place
<1>3. PICK I : Kept(p, n, s.t, I)
  BY <1>2
<1>4. CASE u = PlaceInternal(s, b) /\ b.size <= IMem - s.m.bi
  BY <1>2, <1>3, <1>4, InternalKept
<1>5. CASE u = PlaceExternal(s, b) /\ b.size <= EMem - s.m.be
  BY <1>2, <1>3, <1>5, ExternalKept
<1>6. QED
  BY <1>1, <1>4, <1>5 DEF Place

\* A list of blocks behind d others.
LEMMA ListKept ==
    ASSUME NEW p \in Patches, NEW d \in Nat, NEW list \in Seq(Blocks), d + Len(list) <= BlockCount(p),
           \A k \in 1 .. Len(list) : FileBlocks(p)[d + k] = list[k],
           NEW s, ReadState(s), s.ok => \E I : Kept(p, d, s.t, I)
    PROVE  LET r == Placed(s, list)[Len(list)]
           IN r.ok => \E I : Kept(p, d + Len(list), r.t, I)
<1> DEFINE after == Placed(s, list)
           m == Len(list)
           J == {k \in 0 .. m : ReadState(after[k]) /\ (after[k].ok => \E I : Kept(p, d + k, after[k].t, I))}
<1>1. m \in Nat /\ \A k \in 1 .. m : list[k] \in Blocks
  <2> HIDE DEF Blocks
  <2>1. QED
    OBVIOUS
<1>2. after[0] = s /\ \A k \in 1 .. m : after[k] = Place(after[k - 1], list[k])
  BY <1>1, PlacedIs
<1>3. d + m <= BlockCount(p) /\ \A k \in 1 .. m : FileBlocks(p)[d + k] = list[k]
  OBVIOUS
<1> HIDE DEF after, m
<1>4. 0 \in J
  BY <1>1, <1>2
<1>5. ASSUME NEW k \in 0 .. m - 1, k \in J PROVE k + 1 \in J
  <2> DEFINE u == after[k]
             w == after[k + 1]
             N == BlockCount(p)
  <2>1. ReadState(u) /\ (u.ok => \E I : Kept(p, d + k, u.t, I))
    BY <1>5
  <2>2. k + 1 \in 1 .. m /\ k + 1 \in 0 .. m /\ (k + 1) - 1 = k
    BY <1>1
  <2>3. w = Place(u, list[k + 1]) /\ list[k + 1] \in Blocks
    BY <1>1, <1>2, <2>2
  <2>4. d + k \in Nat /\ d + k < N /\ d + (k + 1) = (d + k) + 1
    <3>1. N \in Nat /\ d + m <= N
      BY <1>3, FileFacts
    <3> HIDE DEF N
    <3>2. QED
      BY <1>1, <3>1
  <2>5. list[k + 1] = FileBlocks(p)[(d + k) + 1]
    BY <1>3, <2>2, <2>4
  <2> HIDE DEF u, w, N
  <2>6. ReadState(w)
    BY <2>1, <2>3, PlaceGrows
  <2>7. w.ok => \E I : Kept(p, (d + k) + 1, w.t, I)
    BY <2>1, <2>3, <2>4, <2>5, PlaceKept DEF N
  <2>8. QED
    BY <2>2, <2>4, <2>6, <2>7 DEF w
<1> HIDE DEF J
<1>6. m \in J
  <2>1. \A k \in 0 .. m - 1 : k \in J => k + 1 \in J
    BY <1>5
  <2>2. \A k \in 0 .. m : k \in J
    BY <1>1, <1>4, <2>1, Induction
  <2>3. QED
    BY <1>1, <2>2
<1>7. QED
  BY <1>6 DEF J, after, m

\* All blocks of p are where t has them.
Reached(p, t) == \E I : Kept(p, BlockCount(p), t, I)

LEMMA NoneKept == ASSUME NEW p \in Patches PROVE Kept(p, 0, NoTram, {})
<1>1. 1 .. 0 = {} /\ 0 + 1 = 1
  OBVIOUS
<1>2. NoTram.refs = <<>> /\ NoTram.isize = 0 /\ NoTram.esize = 0 /\ Len(<<>>) = 0
  BY DEF NoTram
<1>3. SumOf(Sizes(p), {}) = 0 /\ LinesBefore(p, 1) = 0
  BY IndexSumNone, LinesCount
<1>4. {} \ {} = {}
  OBVIOUS
<1>5. QED
  BY <1>1, <1>2, <1>3, <1>4 DEF Kept

\* A patch that could be read has all its blocks in place.
LEMMA ReadingReached ==
    ASSUME mgr \in CountSet, NEW p \in Patches, Reading(p).ok
    PROVE  Reached(p, Reading(p).t)
<1> DEFINE s == NoneYet
           a == Tables[p]
           b == Delays[p]
           r1 == Placed(s, a)[Len(a)]
           q1 == ReadList(s, a)
           r2 == Placed(q1, b)[Len(b)]
           q == ReadList(q1, b)
<1>1. a \in Seq(Blocks) /\ b \in Seq(Blocks)
  <2> HIDE DEF Blocks
  <2>1. QED
    BY FileAssumption
<1> HIDE DEF Blocks
<1>2. ReadState(s) /\ Kept(p, 0, s.t, {})
  BY NoneRead, NoneKept
<1>3. Reading(p) = q
  BY DEF Reading, NoneYet
<1>4. /\ Len(a) \in Nat /\ Len(b) \in Nat /\ BlockCount(p) = Len(a) + Len(b)
      /\ \A k \in 1 .. Len(a) : FileBlocks(p)[k] = a[k]
      /\ \A k \in 1 .. Len(b) : FileBlocks(p)[Len(a) + k] = b[k]
  BY FileFacts
<1> HIDE DEF s, a, b
<1>5. r1.ok => \E I : Kept(p, Len(a), r1.t, I)
  <2>1. 0 + Len(a) = Len(a) /\ Len(a) <= BlockCount(p) /\ \A k \in 1 .. Len(a) : 0 + k = k
    BY <1>4
  <2>2. 0 + Len(a) <= BlockCount(p) /\ \A k \in 1 .. Len(a) : FileBlocks(p)[0 + k] = a[k]
    BY <1>4, <2>1
  <2>3. r1.ok => \E I : Kept(p, 0 + Len(a), r1.t, I)
    BY <1>1, <1>2, <2>2, ListKept
  <2>4. QED
    BY <2>1, <2>3
<1>6. ReadState(r1) /\ Ended(r1, q1)
  BY <1>1, <1>2, ListEnds
<1> HIDE DEF r1, q1
<1>7. ReadState(q1) /\ (q1.ok => \E I : Kept(p, Len(a), q1.t, I))
  BY <1>5, <1>6 DEF Ended
<1>8. r2.ok => \E I : Kept(p, Len(a) + Len(b), r2.t, I)
  <2>1. Len(a) + Len(b) <= BlockCount(p)
    BY <1>4
  <2>2. QED
    BY <1>1, <1>4, <1>7, <2>1, ListKept
<1>9. Ended(r2, q)
  BY <1>1, <1>7, ListEnds
<1> HIDE DEF r2, q
<1>10. q.ok => \E I : Kept(p, Len(a) + Len(b), q.t, I)
  BY <1>8, <1>9 DEF Ended
<1>11. QED
  BY <1>3, <1>4, <1>10 DEF Reached

\* A line of the code after set_tram_addr(): in the same memory, and its word is
\* shifted as the memory is.
LEMMA WordShifted ==
    ASSUME NEW m \in CountSet, NEW t, Sound(t),
           m.li + Len(t.il) <= ILines, m.le + Len(t.el) <= ELines,
           NEW u, u = Replaced(m, t), NEW k \in 1 .. Len(t.refs)
    PROVE  LET r == t.refs[k]
               q == u.refs[k]
           IN /\ q < ILines <=> r < ILines
              /\ WordAt(u, q) = WordAt(t, r) + (Base(u, q) - Base(t, r))
              /\ WordAt(t, r) \in Nat /\ Base(t, r) \in Nat /\ Base(u, q) \in Nat
<1> DEFINE r == t.refs[k]
           q == u.refs[k]
<1>1. /\ t.bi \in Nat /\ t.be \in Nat /\ t.li \in Nat /\ t.le \in Nat
      /\ Len(t.il) \in Nat /\ Len(t.el) \in Nat /\ Len(t.refs) \in Nat
      /\ t.refs \in Seq(Nat)
  BY SoundFacts
<1>2. /\ Sound(u) /\ u.bi = m.bi /\ u.be = m.be /\ u.li = m.li /\ u.le = m.le
      /\ Len(u.il) = Len(t.il) /\ Len(u.el) = Len(t.el)
  BY ReplacedIs
<1>3. /\ q = NewRef(m, t, r)
      /\ \A j \in 1 .. Len(t.il) : u.il[j] = t.il[j] + (m.bi - t.bi)
      /\ \A j \in 1 .. Len(t.el) : u.el[j] = t.el[j] + (m.be - t.be)
  BY DEF Replaced
<1>4. m.bi \in Nat /\ m.be \in Nat /\ m.li \in Nat /\ m.le \in Nat
  BY SizesAreNat DEF CountSet
<1>5. r \in ToSet(t.refs)
  BY <1>1 DEF ToSet
<1>6. r \in InternalAt(t) \cup ExternalAt(t) /\ r \in Registers
  <2>1. r \in InternalAt(t) \cup ExternalAt(t)
    BY <1>5, LinesOf
  <2>2. r \in 0 .. ILines - 1 \/ r \in ILines .. ILines + ELines - 1
    BY <2>1, LinesOf
  <2> HIDE DEF r
  <2>3. r \in Registers
    BY <2>2, SizesAreNat DEF Registers
  <2>4. QED
    BY <2>1, <2>3
<1> HIDE DEF r, q
<1>7. CASE r \in InternalAt(t)
  <2> DEFINE n == Len(t.il)
             j == r - t.li + 1
  <2>1. r \in t.li .. t.li + n - 1 /\ n \in Nat /\ t.li + n <= ILines /\ m.li + n <= ILines
    BY <1>1, <1>7, LinesOf DEF Sound
  <2>2. q = m.li + (r - t.li)
    BY <1>3, <1>7, NewRefIs
  <2> HIDE DEF n
  <2>3. /\ j \in 1 .. n /\ r = t.li + j - 1 /\ q = m.li + j - 1 /\ r < ILines /\ q < ILines
        /\ q \in 0 .. ILines + ELines - 1
    <3> DEFINE a == t.li
               b == m.li
    <3>1. a \in Nat /\ b \in Nat /\ r \in a .. a + n - 1 /\ a + n <= ILines /\ b + n <= ILines
      BY <1>1, <1>4, <2>1
    <3>2. q = b + (r - a) /\ j = r - a + 1
      BY <2>2
    <3> HIDE DEF a, b, j
    <3>3. j \in 1 .. n /\ r = a + j - 1 /\ r < ILines /\ r \in Int
      BY <2>1, <3>1, <3>2, SizesAreNat
    <3>4. q = b + j - 1 /\ q < ILines /\ q \in 0 .. ILines + ELines - 1
      BY <2>1, <3>1, <3>2, <3>3, SizesAreNat
    <3>5. QED
      BY <3>3, <3>4 DEF a, b
  <2> HIDE DEF j
  <2>4. j \in 1 .. Len(t.il) /\ j \in 1 .. Len(u.il) /\ q = u.li + j - 1 /\ q \in Registers
    BY <1>2, <2>3 DEF n, Registers
  <2>5. WordAt(t, r) = t.il[j] /\ WordAt(t, r) \in Nat
    BY <1>5, <1>6, <2>3, <2>4, WordIs
  <2>6. WordAt(u, q) = u.il[j]
    BY <1>2, <2>4, WordIs
  <2>7. u.il[j] = t.il[j] + (m.bi - t.bi)
    BY <1>3, <2>4
  <2>8. Base(t, r) = t.bi /\ Base(u, q) = m.bi
    BY <1>2, <2>3 DEF Base
  <2>9. QED
    BY <1>1, <1>4, <2>3, <2>5, <2>6, <2>7, <2>8 DEF r, q
<1>8. CASE r \in ExternalAt(t)
  <2> DEFINE n == Len(t.el)
             j == r - ILines - t.le + 1
  <2>1. r \in ILines + t.le .. ILines + t.le + n - 1 /\ n \in Nat /\ t.le + n <= ELines /\ m.le + n <= ELines
    BY <1>1, <1>8, LinesOf DEF Sound
  <2>2. q = ILines + m.le + (r - ILines - t.le)
    BY <1>3, <1>8, NewRefIs
  <2> HIDE DEF n
  <2>3. /\ j \in 1 .. n /\ r = ILines + t.le + j - 1 /\ q = ILines + m.le + j - 1
        /\ ~(r < ILines) /\ ~(q < ILines) /\ q \in 0 .. ILines + ELines - 1
    <3> DEFINE a == t.le
               b == m.le
    <3>1. /\ a \in Nat /\ b \in Nat /\ r \in ILines + a .. ILines + a + n - 1
          /\ a + n <= ELines /\ b + n <= ELines
      BY <1>1, <1>4, <2>1
    <3>2. q = ILines + b + (r - ILines - a) /\ j = r - ILines - a + 1
      BY <2>2
    <3> HIDE DEF a, b, j
    <3>3. j \in 1 .. n /\ r = ILines + a + j - 1 /\ ~(r < ILines) /\ r \in Int
      BY <2>1, <3>1, <3>2, SizesAreNat
    <3>4. q = ILines + b + j - 1 /\ ~(q < ILines) /\ q \in 0 .. ILines + ELines - 1
      BY <2>1, <3>1, <3>2, <3>3, SizesAreNat
    <3>5. QED
      BY <3>3, <3>4 DEF a, b
  <2> HIDE DEF j
  <2>4. j \in 1 .. Len(t.el) /\ j \in 1 .. Len(u.el) /\ q = ILines + u.le + j - 1 /\ q \in Registers
    BY <1>2, <2>3 DEF n, Registers
  <2>5. WordAt(t, r) = t.el[j] /\ WordAt(t, r) \in Nat
    BY <1>5, <1>6, <2>3, <2>4, WordIs
  <2>6. WordAt(u, q) = u.el[j]
    BY <1>2, <2>4, WordIs
  <2>7. u.el[j] = t.el[j] + (m.be - t.be)
    BY <1>3, <2>4
  <2>8. Base(t, r) = t.be /\ Base(u, q) = m.be
    BY <1>2, <2>3 DEF Base
  <2>9. QED
    BY <1>1, <1>4, <2>3, <2>5, <2>6, <2>7, <2>8 DEF r, q
<1>9. QED
  BY <1>6, <1>7, <1>8

LEMMA ReplacedReached ==
    ASSUME NEW m \in CountSet, NEW t, Sound(t),
           m.li + Len(t.il) <= ILines, m.le + Len(t.el) <= ELines,
           NEW u, u = Replaced(m, t), NEW p \in Patches, Reached(p, t)
    PROVE  Reached(p, u)
<1> DEFINE N == BlockCount(p)
<1>1. PICK I : Kept(p, N, t, I)
  BY DEF Reached
<1>2. N \in Nat /\ N \in 0 .. N /\ \A i \in 1 .. N : 1 .. i - 1 \in SUBSET (1 .. N) /\ i \notin 1 .. i - 1
  <2>1. N \in Nat
    BY FileFacts
  <2> HIDE DEF N
  <2>2. QED
    BY <2>1
<1>3. u.isize = t.isize /\ u.esize = t.esize /\ Len(u.refs) = Len(t.refs)
  <2>1. Len(t.refs) \in Nat
    BY SoundFacts
  <2>2. u.refs = [j \in 1 .. Len(t.refs) |-> NewRef(m, t, t.refs[j])] /\ u.isize = t.isize /\ u.esize = t.esize
    BY DEF Replaced
  <2>3. Sound(u)
    BY ReplacedIs
  <2>4. u.refs \in Seq(Nat)
    BY <2>3, SoundFacts
  <2>5. Len(u.refs) = Len(t.refs)
    <3> DEFINE x == Len(t.refs)
    <3>1. u.refs = [j \in 1 .. x |-> NewRef(m, t, t.refs[j])] /\ x \in Nat
      BY <2>1, <2>2
    <3> HIDE DEF x
    <3>2. DOMAIN u.refs = 1 .. x
      BY <3>1
    <3>3. DOMAIN u.refs = 1 .. Len(u.refs) /\ Len(u.refs) \in Nat
      BY <2>4
    <3>4. Len(u.refs) = x
      BY <3>1, <3>2, <3>3
    <3>5. QED
      BY <3>4 DEF x
  <2>6. QED
    BY <2>2, <2>5
<1>4. ASSUME NEW i \in 1 .. N, NEW j \in 1 .. Len(FileBlocks(p)[i].lines) PROVE LineKept(p, u, I, i, j)
  <2> DEFINE k == LinesBefore(p, i) + j
             r == t.refs[k]
             q == u.refs[k]
             l == FileBlocks(p)[i].lines[j]
             x == BeforeIn(p, I, i)
  <2>1. k \in 1 .. Len(t.refs)
    BY <1>1, <1>2, RefAt DEF Kept
  <2>2. RegisterOf(p, t.refs, i, j) = r /\ RegisterOf(p, u.refs, i, j) = q
    BY DEF RegisterOf
  <2>3. LineKept(p, t, I, i, j)
    BY <1>1 DEF Kept
  <2>4. (r < ILines <=> i \in I) /\ WordAt(t, r) = Base(t, r) + x + l.at + l.op * AddrSpace
    BY <2>2, <2>3 DEF LineKept
  <2> HIDE DEF k
  <2>5. /\ q < ILines <=> r < ILines
        /\ WordAt(u, q) = WordAt(t, r) + (Base(u, q) - Base(t, r))
        /\ WordAt(t, r) \in Nat /\ Base(t, r) \in Nat /\ Base(u, q) \in Nat
    BY <2>1, WordShifted
  <2>6. x \in Nat /\ l.at \in Nat /\ l.op * AddrSpace \in Nat
    <3>1. l.at \in Nat /\ l.op \in {1, 2}
      BY BlockFacts
    <3>2. l.op * AddrSpace \in Nat
      BY <3>1, SizesAreNat
    <3>3. x \in Nat
      <4> DEFINE S == {n \in 1 .. i - 1 : n \in I <=> i \in I}
      <4>1. S \in SUBSET (1 .. N) /\ i \notin S /\ i \in 1 .. N
        BY <1>2
      <4> HIDE DEF S
      <4>2. SumOf(Sizes(p), S) \in Nat
        BY <4>1, PartOfMemory
      <4>3. QED
        BY <4>2 DEF S, BeforeIn
    <3>4. QED
      BY <3>1, <3>2, <3>3
  <2> DEFINE a == WordAt(t, r)
             b == Base(t, r)
             c == Base(u, q)
             o == l.op * AddrSpace
             y == l.at
  <2>7. a = b + x + y + o /\ WordAt(u, q) = a + (c - b) /\ a \in Nat /\ b \in Nat /\ c \in Nat
        /\ x \in Nat /\ y \in Nat /\ o \in Nat
    BY <2>4, <2>5, <2>6
  <2>8. WordAt(u, q) = c + x + y + o
    <3> HIDE DEF a, b, c, x, y, o, r, q
    <3>1. QED
      BY <2>7
  <2>9. QED
    BY <2>2, <2>4, <2>5, <2>8 DEF LineKept
<1>5. Kept(p, N, u, I)
  BY <1>1, <1>3, <1>4 DEF Kept
<1>6. QED
  BY <1>5 DEF Reached

-----------------------------------------------------------------------------
(* Where the lines lead, in every state.                                   *)

\* What a process has and what the driver has is in place, and the driver's patches
\* lie within what all of them have.
ReachInv ==
    /\ \A p \in Loaded : Reached(p, tram[p])
    /\ \A p \in InDriver :
          LET t == driver.tram[p]
          IN /\ Reached(p, t)
             /\ t.bi + t.isize <= ISize(driver.tram, InDriver)
             /\ t.be + t.esize <= ESize(driver.tram, InDriver)

LEMMA DriverReached ==
    ASSUME ReachInv, driver' = driver, \A p \in Loaded' : Reached(p, tram'[p])
    PROVE  ReachInv'
<1>1. InDriver' = InDriver
  BY DEF InDriver
<1>2. QED
  BY <1>1 DEF ReachInv

LEMMA InitReached == ASSUME Init PROVE ReachInv
<1>1. Loaded = {} /\ InDriver = {}
  BY EmptyLists DEF Init, Loaded, Lists, InDriver
<1>2. QED
  BY <1>1 DEF ReachInv

LEMMA StartReached == ASSUME ListInv, DriverInv, ReachInv, Start PROVE ReachInv'
<1>1. Loaded' = InDriver
  BY DEF Start, Loaded, Lists, InDriver
<1>2. ASSUME NEW p \in InDriver PROVE tram'[p] = driver.tram[p]
  <2>1. p \in Patches /\ driver.tram[p] \in TramSet
    BY DriverFacts
  <2>2. Sound(driver.tram[p]) /\ Held(driver.tram[p])
    BY <2>1 DEF DriverInv
  <2>3. ReadLines(driver.tram[p]) = driver.tram[p]
    BY <2>1, <2>2, ReadBack
  <2>4. QED
    BY <2>1, <2>3 DEF Start, InDriver
<1>3. \A p \in Loaded' : Reached(p, tram'[p])
  BY <1>1, <1>2 DEF ReachInv
<1>4. QED
  BY <1>3, DriverReached DEF Start

LEMMA ReadPatchReached ==
    ASSUME ListInv, ReachInv, NEW p \in Patches, ReadPatch(p) PROVE ReachInv'
<1>1. Loaded' = Loaded \cup {p} /\ Loaded \in SUBSET Patches
  BY ListPutIn, ListFacts
<1>2. /\ p \notin Loaded /\ Reading(p).ok /\ tram' = [tram EXCEPT ![p] = Reading(p).t]
      /\ tram \in [Patches -> TramSet] /\ mgr \in CountSet
  BY DEF ReadPatch, ListInv, Covered
<1>3. Reached(p, Reading(p).t)
  BY <1>2, ReadingReached
<1> DEFINE t == Reading(p).t
<1>4. tram'[p] = t /\ \A q \in Loaded : tram'[q] = tram[q]
  <2>1. tram' = [tram EXCEPT ![p] = t]
    BY <1>2
  <2> HIDE DEF t
  <2>2. QED
    BY <1>1, <1>2, <2>1
<1> HIDE DEF t
<1>5. \A q \in Loaded' : Reached(q, tram'[q])
  BY <1>1, <1>3, <1>4 DEF ReachInv, t
<1>6. QED
  BY <1>5, DriverReached DEF ReadPatch

LEMMA UnloadPatchReached ==
    ASSUME ListInv, ReachInv, NEW p \in Patches, UnloadPatch(p) PROVE ReachInv'
<1>1. Loaded' = Loaded \ {p} /\ Loaded \in SUBSET Patches
  BY ListWithout, ListFacts
<1>2. tram' = [tram EXCEPT ![p] = NoTram] /\ tram \in [Patches -> TramSet]
  BY DEF UnloadPatch, ListInv
<1>3. \A q \in Loaded' : tram'[q] = tram[q]
  BY <1>1, <1>2
<1>4. \A q \in Loaded' : Reached(q, tram'[q])
  BY <1>1, <1>3 DEF ReachInv
<1>5. QED
  BY <1>4, DriverReached DEF UnloadPatch

LEMMA LoadReached == ASSUME ListInv, ReachInv, Load PROVE ReachInv'
<1> DEFINE t == SetTram
<1>1. /\ tram' = t /\ driver' = [ilist |-> ilist, olist |-> olist, tram |-> tram']
      /\ ilist' = ilist /\ olist' = olist
  BY DEF Load
<1>2. LaidOut(t)
  BY LayoutIs
<1>3. ASSUME NEW p \in Loaded PROVE Reached(p, t[p])
  <2> DEFINE m == Counts(tram, Ahead(p))
             u == tram[p]
  <2>1. p \in Patches /\ Sound(u) /\ Reached(p, u)
    BY ListFacts DEF ListInv, ReachInv
  <2>2. t[p] = Replaced(m, u)
    BY <2>1 DEF SetTram
  <2>3. Room(p, m) /\ u = tram[p]
    BY RoomAhead
  <2> HIDE DEF m, u
  <2>4. m \in CountSet /\ m.li + Len(u.il) <= ILines /\ m.le + Len(u.el) <= ELines
    BY <2>1, <2>3, RoomForLines DEF Room
  <2>5. QED
    BY <2>1, <2>2, <2>4, ReplacedReached
<1> HIDE DEF t
<1>4. ASSUME NEW p \in Loaded
      PROVE  t[p].bi + t[p].isize <= ISize(t, Loaded) /\ t[p].be + t[p].esize <= ESize(t, Loaded)
  BY <1>2, LaidFacts, SumsLaid
<1>5. driver'.tram = t /\ InDriver' = Loaded /\ Loaded' = Loaded
  <2>1. driver'.ilist = ilist /\ driver'.olist = olist /\ driver'.tram = t
    BY <1>1
  <2>2. QED
    BY <1>1, <2>1 DEF InDriver, Loaded, Lists
<1>6. QED
  BY <1>1, <1>3, <1>4, <1>5 DEF ReachInv

LEMMA StepReached ==
    ASSUME ListInv, DriverInv, ReachInv, [Next]_vars
    PROVE  ReachInv'
<1>1. CASE Start
  BY <1>1, StartReached
<1>2. CASE Exit
  <2>1. Loaded' = {}
    BY <1>2, EmptyLists DEF Exit, Loaded, Lists
  <2>2. QED
    BY <1>2, <2>1, DriverReached DEF Exit
<1>3. ASSUME NEW p \in Patches, ReadPatch(p) PROVE ReachInv'
  BY <1>3, ReadPatchReached
<1>4. ASSUME NEW p \in Patches, FailPatch(p) PROVE ReachInv'
  <2>1. Loaded' = Loaded /\ tram' = tram
    BY <1>4 DEF FailPatch, Loaded, Lists
  <2>2. QED
    BY <1>4, <2>1, DriverReached DEF FailPatch, ReachInv
<1>5. ASSUME NEW p \in Patches, UnloadPatch(p) PROVE ReachInv'
  BY <1>5, UnloadPatchReached
<1>6. CASE UnloadAll
  <2>1. Loaded' = {}
    BY <1>6, EmptyLists DEF UnloadAll, Loaded, Lists
  <2>2. QED
    BY <1>6, <2>1, DriverReached DEF UnloadAll
<1>7. CASE Load
  BY <1>7, LoadReached
<1>8. CASE UNCHANGED vars
  <2>1. Loaded' = Loaded /\ tram' = tram
    BY <1>8 DEF vars, Loaded, Lists
  <2>2. QED
    BY <1>8, <2>1, DriverReached DEF vars, ReachInv
<1>9. QED
  BY <1>1, <1>2, <1>3, <1>4, <1>5, <1>6, <1>7, <1>8 DEF Next

\* The patches S have no more memory than their files say.
LEMMA WithinFiles ==
    ASSUME NEW t, \A p \in Patches : t[p] \in TramSet, NEW S \in SUBSET Patches,
           \A p \in S : Reached(p, t[p])
    PROVE  ISize(t, S) <= AllMemory /\ ESize(t, S) <= AllMemory
<1> DEFINE v == [p \in Patches |-> t[p].isize]
           w == [p \in Patches |-> t[p].esize]
           f == [p \in Patches |-> Memory(p)]
<1>1. ASSUME NEW p \in S PROVE t[p].isize <= Memory(p) /\ t[p].esize <= Memory(p)
  <2> DEFINE n == BlockCount(p)
             z == Sizes(p)
  <2>1. PICK I : Kept(p, n, t[p], I)
    BY DEF Reached
  <2>2. /\ I \in SUBSET (1 .. n) /\ (1 .. n) \ I \in SUBSET (1 .. n) /\ 1 .. n \in SUBSET (1 .. n)
        /\ t[p].isize = SumOf(z, I) /\ t[p].esize = SumOf(z, (1 .. n) \ I)
    BY <2>1 DEF Kept
  <2>3. n \in Nat /\ (\A k \in 1 .. n : z[k] \in Nat) /\ Memory(p) = SumOf(z, 1 .. n)
    BY FileFacts, BlockFacts, MemoryFacts
  <2> HIDE DEF n, z
  <2>4. SumOf(z, I) <= SumOf(z, 1 .. n)
    BY <2>2, <2>3, IndexSumPart
  <2>5. SumOf(z, (1 .. n) \ I) <= SumOf(z, 1 .. n)
    BY <2>2, <2>3, IndexSumPart
  <2>6. QED
    BY <2>2, <2>3, <2>4, <2>5
<1>2. Numbers(v) /\ Numbers(w) /\ Numbers(f)
  BY MemoryFacts DEF Numbers, TramSet
<1>3. \A p \in S : v[p] <= f[p] /\ w[p] <= f[p]
  BY <1>1
<1>4. ISize(t, S) = SumOf(v, S) /\ ESize(t, S) = SumOf(w, S) /\ AllMemory = SumOf(f, Patches)
  BY DEF ISize, ESize, AllMemory
<1> HIDE DEF v, w, f
<1>5. Patches \in SUBSET Patches
  OBVIOUS
<1>6. SumOf(f, S) <= SumOf(f, Patches)
  BY <1>2, <1>5, PatchSumPart
<1>7. SumOf(v, S) <= SumOf(f, S) /\ SumOf(w, S) <= SumOf(f, S)
  <2>1. /\ IsFiniteSet(S) /\ SumOf(v, S) = SumOver(v, S) /\ SumOf(w, S) = SumOver(w, S)
        /\ SumOf(f, S) = SumOver(f, S) /\ \A p \in S : v[p] \in Nat /\ w[p] \in Nat /\ f[p] \in Nat
    BY <1>2, PatchSum
  <2>2. SumOver(v, S) <= SumOver(f, S)
    BY <1>3, <2>1, SumLess
  <2>3. SumOver(w, S) <= SumOver(f, S)
    BY <1>3, <2>1, SumLess
  <2>4. QED
    BY <2>1, <2>2, <2>3
<1>8. SumOf(v, S) \in Nat /\ SumOf(w, S) \in Nat /\ SumOf(f, S) \in Nat /\ SumOf(f, Patches) \in Nat
  BY <1>2, <1>5, PatchSum
<1>9. QED
  BY <1>4, <1>6, <1>7, <1>8

LEMMA WordSplit ==
    ASSUME NEW x \in Nat, NEW m \in Nat \ {0}, x < m, NEW o \in {1, 2}
    PROVE  (x + o * m) \div m = o /\ (x + o * m) % m = x
<1>1. CASE o = 1
  <2>1. (x + m) \div m = 1 /\ (x + m) % m = x
    OBVIOUS
  <2>2. QED
    BY <1>1, <2>1
<1>2. CASE o = 2
  <2>1. (x + 2 * m) \div m = 2 /\ (x + 2 * m) % m = x
    OBVIOUS
  <2>2. QED
    BY <1>2, <2>1
<1>3. QED
  BY <1>1, <1>2

\* The register of a line holds its word.
LEMMA HeldWord ==
    ASSUME NEW t, Sound(t), Held(t), NEW k \in 1 .. Len(t.refs)
    PROVE  lines[t.refs[k]] = WordAt(t, t.refs[k])
<1> DEFINE r == t.refs[k]
           n == Len(t.il)
           m == Len(t.el)
<1>1. /\ t.li \in Nat /\ t.le \in Nat /\ n \in Nat /\ m \in Nat /\ Len(t.refs) \in Nat
      /\ t.refs \in Seq(Nat)
  BY SoundFacts
<1>2. r \in ToSet(t.refs)
  BY <1>1 DEF ToSet
<1>3. /\ r \in InternalAt(t) \cup ExternalAt(t)
      /\ r \in t.li .. t.li + n - 1 \/ r \in ILines + t.le .. ILines + t.le + m - 1
      /\ r \in 0 .. ILines - 1 \/ r \in ILines .. ILines + ELines - 1
  BY <1>2, LinesOf
<1> HIDE DEF r
<1>4. r \in Registers
  BY <1>3, SizesAreNat DEF Registers
<1>5. CASE r \in t.li .. t.li + n - 1
  <2> DEFINE j == r - t.li + 1
  <2>1. j \in 1 .. n /\ r = t.li + j - 1
    <3> HIDE DEF n
    <3>1. QED
      BY <1>1, <1>5
  <2> HIDE DEF j
  <2>2. WordAt(t, r) = t.il[j] /\ lines[r] = t.il[j]
    BY <1>4, <2>1, WordIs DEF Held
  <2>3. QED
    BY <2>2 DEF r
<1>6. CASE r \in ILines + t.le .. ILines + t.le + m - 1
  <2> DEFINE j == r - ILines - t.le + 1
  <2>1. j \in 1 .. m /\ r = ILines + t.le + j - 1
    <3> DEFINE a == ILines + t.le
    <3>1. a \in Nat /\ m \in Nat /\ r \in a .. a + m - 1
      BY <1>1, <1>6, SizesAreNat
    <3>2. r - ILines - t.le = r - a
      BY <1>1, <3>1, SizesAreNat
    <3> HIDE DEF a, m
    <3>3. r - a + 1 \in 1 .. m /\ r = a + (r - a + 1) - 1
      BY <3>1
    <3>4. QED
      BY <3>2, <3>3 DEF a
  <2> HIDE DEF j
  <2>2. WordAt(t, r) = t.el[j] /\ lines[r] = t.el[j]
    BY <1>4, <2>1, WordIs DEF Held
  <2>3. QED
    BY <2>2 DEF r
<1>7. QED
  BY <1>3, <1>5, <1>6

\* The memory before a block of a patch, and the block, lie within what its file has.
LEMMA BeforeFacts ==
    ASSUME NEW p \in Patches, NEW t, NEW I, Kept(p, BlockCount(p), t, I), NEW i \in 1 .. BlockCount(p)
    PROVE  /\ BeforeIn(p, I, i) \in Nat
           /\ i \in I => BeforeIn(p, I, i) + FileBlocks(p)[i].size <= t.isize
           /\ i \notin I => BeforeIn(p, I, i) + FileBlocks(p)[i].size <= t.esize
           /\ Before(p, t.refs, i) = BeforeIn(p, I, i)
           /\ \A k \in 1 .. BlockCount(p) : FileBlocks(p)[k].lines # <<>>
<1> DEFINE n == BlockCount(p)
           v == Sizes(p)
           S == {k \in 1 .. i - 1 : k \in I <=> i \in I}
           m == FileBlocks(p)[i].size
<1>1. n \in Nat /\ (\A k \in 1 .. n : v[k] \in Nat) /\ i \in 1 .. n
  BY FileFacts, BlockFacts
<1>2. /\ I \in SUBSET (1 .. n) /\ (1 .. n) \ I \in SUBSET (1 .. n)
      /\ t.isize = SumOf(v, I) /\ t.esize = SumOf(v, (1 .. n) \ I)
      /\ \A k \in 1 .. n : FileBlocks(p)[k].lines # <<>>
  BY DEF Kept
<1>3. ASSUME NEW k \in 1 .. n PROVE BlockInternal(p, t.refs, k) <=> k \in I
  <2>1. Len(FileBlocks(p)[k].lines) \in Nat /\ FileBlocks(p)[k].lines # <<>>
    BY <1>2, BlockFacts
  <2>2. 1 \in 1 .. Len(FileBlocks(p)[k].lines)
    <3>1. k \in DOMAIN FileBlocks(p) /\ FileBlocks(p)[k] \in Blocks
      BY FileFacts
    <3>2. FileBlocks(p)[k].lines \in Seq([op : {READ, WRITE}, at : Nat])
      BY <3>1 DEF Blocks
    <3> DEFINE L == [op : {READ, WRITE}, at : Nat]
               x == FileBlocks(p)[k].lines
    <3>3. x \in Seq(L) /\ x # <<>>
      BY <2>1, <3>2
    <3> HIDE DEF L, x
    <3>4. Len(x) \in Nat /\ Len(x) # 0
      BY <3>3
    <3>5. QED
      BY <3>4 DEF x
  <2>3. LineKept(p, t, I, k, 1)
    BY <2>2 DEF Kept
  <2>4. QED
    BY <2>3 DEF LineKept, BlockInternal
<1>4. S \in SUBSET (1 .. n) /\ i \notin S
  <2> HIDE DEF n
  <2>1. QED
    BY <1>1
<1>5. /\ SumOf(v, S) \in Nat
      /\ SumOf(v, S \cup {i}) = SumOf(v, S) + m
  BY <1>4, PartOfMemory
<1>6. BeforeIn(p, I, i) = SumOf(v, S)
  BY DEF BeforeIn
<1>7. Before(p, t.refs, i) = SumOf(v, S)
  <2> DEFINE Q == {k \in 1 .. i - 1 : BlockInternal(p, t.refs, k) <=> BlockInternal(p, t.refs, i)}
  <2>1. \A k \in 1 .. i - 1 : k \in 1 .. n
    <3> HIDE DEF n
    <3>1. QED
      BY <1>1
  <2>2. Q = S
    BY <1>3, <2>1
  <2>3. Before(p, t.refs, i) = SumOf(v, Q)
    BY DEF Before
  <2>4. QED
    BY <2>2, <2>3
<1> HIDE DEF S, v, n
<1>8. ASSUME i \in I PROVE SumOf(v, S) + m <= t.isize
  <2>1. S \cup {i} \in SUBSET I
    BY <1>8 DEF S
  <2>2. SumOf(v, S \cup {i}) <= SumOf(v, I)
    BY <1>1, <1>2, <2>1, IndexSumPart
  <2>3. QED
    BY <1>2, <1>5, <2>2
<1>9. ASSUME i \notin I PROVE SumOf(v, S) + m <= t.esize
  <2> DEFINE T == (1 .. n) \ I
  <2>1. S \cup {i} \in SUBSET T
    BY <1>1, <1>4, <1>9 DEF S
  <2>2. T \in SUBSET (1 .. n) /\ t.esize = SumOf(v, T)
    BY <1>2
  <2> HIDE DEF T
  <2>3. SumOf(v, S \cup {i}) <= SumOf(v, T)
    BY <1>1, <2>1, <2>2, IndexSumPart
  <2>4. QED
    BY <1>5, <2>2, <2>3
<1>10. QED
  BY <1>2, <1>5, <1>6, <1>7, <1>8, <1>9 DEF n, v, m

\* Where the registers of a patch of the driver lead.
LEMMA LineReaches ==
    ASSUME DriverInv, ReachInv, NEW p \in InDriver, NEW i \in 1 .. BlockCount(p),
           NEW j \in 1 .. Len(FileBlocks(p)[i].lines)
    PROVE  LET t == driver.tram[p]
               l == FileBlocks(p)[i].lines[j]
               r == RegisterOf(p, t.refs, i, j)
               base == IF r < ILines THEN t.bi ELSE t.be
           IN /\ lines[r] \div AddrSpace = l.op
              /\ lines[r] % AddrSpace = base + Before(p, t.refs, i) + l.at
<1> DEFINE t == driver.tram[p]
           l == FileBlocks(p)[i].lines[j]
           r == RegisterOf(p, t.refs, i, j)
           k == LinesBefore(p, i) + j
           b == Base(t, r)
           e == Before(p, t.refs, i)
           m == FileBlocks(p)[i].size
<1>1. p \in Patches /\ Sound(t) /\ Held(t) /\ t \in TramSet
  BY DriverFacts DEF DriverInv
<1>2. PICK I : Kept(p, BlockCount(p), t, I)
  BY DEF ReachInv, Reached
<1>3. /\ \A q \in Patches : driver.tram[q] \in TramSet
      /\ InDriver \in SUBSET Patches
      /\ \A q \in InDriver : Reached(q, driver.tram[q])
  BY DriverFacts DEF DriverInv, ReachInv
<1>4. LineKept(p, t, I, i, j)
  BY <1>2 DEF Kept
<1>5. (r < ILines <=> i \in I) /\ WordAt(t, r) = b + BeforeIn(p, I, i) + l.at + l.op * AddrSpace
  BY <1>4 DEF LineKept
<1>6. lines[r] = WordAt(t, r)
  <2>1. BlockCount(p) \in 0 .. BlockCount(p)
    <3> DEFINE n == BlockCount(p)
    <3>1. n \in Nat
      BY <1>1, FileFacts
    <3> HIDE DEF n
    <3>2. n \in 0 .. n
      BY <3>1
    <3>3. QED
      BY <3>2 DEF n
  <2>2. k \in 1 .. LinesBefore(p, BlockCount(p) + 1)
    BY <1>1, <2>1, RefAt
  <2>3. k \in 1 .. Len(t.refs) /\ r = t.refs[k]
    BY <1>2, <2>2 DEF Kept, RegisterOf
  <2>4. QED
    BY <1>1, <2>3, HeldWord
<1>7. e = BeforeIn(p, I, i) /\ e \in Nat
  BY <1>1, <1>2, BeforeFacts
<1>8. t.bi \in Nat /\ t.be \in Nat /\ t.isize \in Nat /\ t.esize \in Nat
  BY <1>1 DEF TramSet
<1>9. b \in Nat
  BY <1>8 DEF Base
<1>10. m \in Nat /\ l.at \in Nat /\ l.op \in {1, 2}
  BY <1>1, BlockFacts
<1>11. b + e + m <= AllMemory
  <2> DEFINE x == ISize(driver.tram, InDriver)
             y == ESize(driver.tram, InDriver)
  <2>1. x <= AllMemory /\ y <= AllMemory
    BY <1>3, WithinFiles
  <2>2. t.bi + t.isize <= x /\ t.be + t.esize <= y
    BY DEF ReachInv
  <2>3. x \in Nat /\ y \in Nat /\ AllMemory \in Nat
    BY <1>3, SumsAreNumbers, MemoryFacts
  <2>4. (i \in I => e + m <= t.isize) /\ (i \notin I => e + m <= t.esize)
    BY <1>1, <1>2, <1>7, BeforeFacts
  <2>5. (i \in I => b = t.bi) /\ (i \notin I => b = t.be)
    BY <1>5 DEF Base
  <2> DEFINE bi == t.bi
             be == t.be
             is == t.isize
             es == t.esize
  <2>6. bi \in Nat /\ be \in Nat /\ is \in Nat /\ es \in Nat /\ e \in Nat /\ m \in Nat
    BY <1>7, <1>8, <1>10
  <2>7. bi + is <= x /\ be + es <= y
    BY <2>2
  <2>8. (i \in I => e + m <= is) /\ (i \notin I => e + m <= es)
    BY <2>4
  <2>9. (i \in I => b = bi) /\ (i \notin I => b = be)
    BY <2>5
  <2> HIDE DEF x, y, b, e, m, bi, be, is, es
  <2>10. CASE i \in I
    BY <2>1, <2>3, <2>6, <2>7, <2>8, <2>9, <2>10
  <2>11. CASE i \notin I
    BY <2>1, <2>3, <2>6, <2>7, <2>8, <2>9, <2>11
  <2>12. QED
    BY <2>10, <2>11
<1> DEFINE a == b + e
<1>12. a \in Nat /\ a + m <= AllMemory
  <2> HIDE DEF b, e, m
  <2>1. QED
    BY <1>7, <1>9, <1>11
<1> HIDE DEF a
<1>13. a + l.at \in 0 .. AddrSpace - 1
  BY <1>1, <1>12, AddressFits
<1> DEFINE x == a + l.at
<1>14. x \in Nat /\ x < AddrSpace /\ AddrSpace \in Nat \ {0}
  <2>1. AddrSpace \in Nat \ {0} /\ x \in 0 .. AddrSpace - 1
    BY <1>13, SizesAreNat
  <2> HIDE DEF x
  <2>2. QED
    BY <2>1
<1>15. lines[r] = x + l.op * AddrSpace
  BY <1>5, <1>6, <1>7 DEF a
<1> HIDE DEF x
<1>16. (x + l.op * AddrSpace) \div AddrSpace = l.op /\ (x + l.op * AddrSpace) % AddrSpace = x
  BY <1>10, <1>14, WordSplit
<1>17. lines[r] \div AddrSpace = l.op /\ lines[r] % AddrSpace = b + e + l.at
  BY <1>15, <1>16 DEF x, a
<1>18. QED
  BY <1>17 DEF Base

-----------------------------------------------------------------------------
(* What holds in every state.                                              *)

LEMMA StepKeeps ==
    ASSUME ListInv, DriverInv, LineInv, [Next]_vars
    PROVE  ListInv' /\ DriverInv' /\ LineInv'
<1>1. CASE Start
  BY <1>1, StartKeeps
<1>2. CASE Exit
  BY <1>2, ExitKeeps
<1>3. ASSUME NEW p \in Patches, ReadPatch(p) PROVE ListInv' /\ DriverInv' /\ LineInv'
  BY <1>3, ReadPatchKeeps
<1>4. ASSUME NEW p \in Patches, FailPatch(p) PROVE ListInv' /\ DriverInv' /\ LineInv'
  BY <1>4, FailPatchKeeps
<1>5. ASSUME NEW p \in Patches, UnloadPatch(p) PROVE ListInv' /\ DriverInv' /\ LineInv'
  BY <1>5, UnloadPatchKeeps
<1>6. CASE UnloadAll
  BY <1>6, UnloadAllKeeps
<1>7. CASE Load
  BY <1>7, LoadKeeps
<1>8. CASE UNCHANGED vars
  <2>1. DriverInv' /\ LineInv'
    BY <1>8, DriverStays DEF vars
  <2>2. ListInv'
    BY <1>8 DEF vars, ListInv, Loaded, Lists
  <2>3. QED
    BY <2>1, <2>2
<1>9. QED
  BY <1>1, <1>2, <1>3, <1>4, <1>5, <1>6, <1>7, <1>8 DEF Next

LEMMA Invariant == Spec => [](ListInv /\ DriverInv /\ LineInv)
<1>1. Init => ListInv /\ DriverInv /\ LineInv
  BY InitIs
<1>2. (ListInv /\ DriverInv /\ LineInv) /\ [Next]_vars => (ListInv /\ DriverInv /\ LineInv)'
  BY StepKeeps
<1>3. QED
  BY <1>1, <1>2, PTL DEF Spec

\* Whatever is read, refused, unloaded, loaded and read back: the counts of the
\* manager never exceed the memory there is nor the range of a u8, and the code of a
\* patch names no register that is not there (file.c, set_tram of driver_access.c).
THEOREM Types == Spec => []TypeOK
<1>1. ListInv /\ LineInv => TypeOK
  <2> SUFFICES ASSUME ListInv, LineInv PROVE TypeOK
    OBVIOUS
  <2>2. /\ loads \in -1 .. MaxLoads
        /\ mgr \in [bi : 0 .. IMem, be : 0 .. EMem, li : 0 .. U8 - 1, le : 0 .. U8 - 1]
    BY DEF ListInv, Covered, CountSet
  <2>3. Loaded \subseteq Patches /\ Len(Lists) = Cardinality(Loaded)
    BY ListFacts
  <2>4. ASSUME NEW p \in Loaded PROVE ToSet(tram[p].refs) \subseteq Registers
    <3>1. Sound(tram[p])
      BY <2>3 DEF ListInv
    <3>2. \A r \in ToSet(tram[p].refs) : r \in 0 .. ILines - 1 \/ r \in ILines .. ILines + ELines - 1
      BY <3>1, LinesOf
    <3>3. \A r : (r \in 0 .. ILines - 1 \/ r \in ILines .. ILines + ELines - 1) => r \in Registers
      BY SizesAreNat DEF Registers
    <3>4. QED
      BY <3>2, <3>3
  <2>5. QED
    BY <2>2, <2>3, <2>4 DEF TypeOK, LineInv
<1>2. QED
  BY <1>1, Invariant, PTL

\* Two patches in the DSP never share a word of tank memory or a line, and none
\* reaches beyond what there is: set_tram() packs them one behind the other, and what
\* was counted when they were read lets all of them in.
THEOREM PatchesApart == Spec => []MemoryApart
<1>1. DriverInv => MemoryApart
  <2> SUFFICES ASSUME DriverInv, NEW p \in InDriver
               PROVE  LET t == driver.tram[p]
                      IN /\ t.bi + t.isize <= IMem /\ t.be + t.esize <= EMem
                         /\ t.li + Len(t.il) <= ILines /\ t.le + Len(t.el) <= ELines
                         /\ \A q \in InDriver \ {p} :
                              LET u == driver.tram[q]
                              IN /\ t.bi + t.isize <= u.bi \/ u.bi + u.isize <= t.bi
                                 /\ t.be + t.esize <= u.be \/ u.be + u.esize <= t.be
                                 /\ ToSet(t.refs) \cap ToSet(u.refs) = {}
    BY DEF MemoryApart
  <2>2. \A q \in InDriver : Sound(driver.tram[q])
    BY DriverFacts DEF DriverInv
  <2>3. /\ driver.tram[p].bi + driver.tram[p].isize <= IMem
        /\ driver.tram[p].be + driver.tram[p].esize <= EMem
        /\ driver.tram[p].li + Len(driver.tram[p].il) <= ILines
        /\ driver.tram[p].le + Len(driver.tram[p].el) <= ELines
    BY <2>2 DEF DriverInv, Sound
  <2>4. ASSUME NEW q \in InDriver \ {p}
        PROVE  LET t == driver.tram[p]
                   u == driver.tram[q]
               IN /\ t.bi + t.isize <= u.bi \/ u.bi + u.isize <= t.bi
                  /\ t.be + t.esize <= u.be \/ u.be + u.esize <= t.be
                  /\ ToSet(t.refs) \cap ToSet(u.refs) = {}
    <3>1. Disjoint(driver.tram[p], driver.tram[q])
      BY DEF DriverInv
    <3>2. ToSet(driver.tram[p].refs) \cap ToSet(driver.tram[q].refs) = {}
      BY <2>2, <3>1, LinesApart
    <3>3. QED
      BY <3>1, <3>2 DEF Disjoint
  <2>5. QED
    BY <2>3, <2>4
<1>2. QED
  BY <1>1, Invariant, PTL

\* A line register of the DSP that is set is a line of a patch of the driver:
\* clean_free_tram_buffers() leaves none behind the last patch, and the lines of the
\* patches have no gap between them.
THEOREM NoLineLeft == Spec => []NoStrayLine
<1>1. LineInv => NoStrayLine
  BY DEF LineInv
<1>2. QED
  BY <1>1, Invariant, PTL

\* The driver has set apart all the external memory its patches have, although
\* set_external_tram() asks for what was counted before the layout, failed reads
\* included.
THEOREM MemoryAsked == Spec => []ExternalFits
<1>1. LineInv => ExternalFits
  BY DEF LineInv
<1>2. QED
  BY <1>1, Invariant, PTL

\* In the DSP the register that the code of a patch names for a line does the line's
\* operation at its offset in its own block: the reading places every block behind
\* those before it (file.c), and set_tram() moves the words, the registers and the code
\* together (driver_access.c), as often as a process reads the state back and loads it.
THEOREM LinesReach == Spec => []LinesReachBlocks
<1>1. DriverInv /\ ReachInv => LinesReachBlocks
  <2> SUFFICES ASSUME DriverInv, ReachInv, NEW p \in InDriver, NEW i \in DOMAIN FileBlocks(p),
                      NEW j \in DOMAIN FileBlocks(p)[i].lines
               PROVE  LET t == driver.tram[p]
                          l == FileBlocks(p)[i].lines[j]
                          r == RegisterOf(p, t.refs, i, j)
                          base == IF r < ILines THEN t.bi ELSE t.be
                      IN /\ lines[r] \div AddrSpace = l.op
                         /\ lines[r] % AddrSpace = base + Before(p, t.refs, i) + l.at
    BY DEF LinesReachBlocks
  <2>1. p \in Patches
    BY DriverFacts DEF DriverInv
  <2>2. i \in 1 .. BlockCount(p)
    BY <2>1, FileFacts
  <2>3. j \in 1 .. Len(FileBlocks(p)[i].lines)
    BY <2>1, <2>2, BlockFacts
  <2>4. QED
    BY <2>2, <2>3, LineReaches
<1>2. Init => ReachInv
  BY InitReached
<1>3. ListInv /\ DriverInv /\ ReachInv /\ [Next]_vars => ReachInv'
  BY StepReached
<1>4. QED
  BY <1>1, <1>2, <1>3, Invariant, PTL DEF Spec
=============================================================================
