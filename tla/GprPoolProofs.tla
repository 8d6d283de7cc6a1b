---------------------------- MODULE GprPoolProofs ----------------------------
(***************************************************************************)
(* For any number of registers, patches, lines, names and values: the      *)
(* table of IO gprs is exact whatever happens, and the counts and bitmaps  *)
(* of the first word are exact, and implement GprOwnership, as long as no  *)
(* register of an undefined shift is in use and no count exceeds its u8    *)
(* (the history variable fit).                                             *)
(***************************************************************************)
EXTENDS GprPool, FiniteSetTheorems, WellFoundedInduction, TLAPS

\* What the bit functions do to the bits of the word.
LEMMA BitFacts ==
    /\ \A g \in Low : /\ g \in Gpr /\ g \in Bits /\ Mask(g) = {g}
                      /\ g % WordBits = g /\ g \notin Undefined
    /\ \A g \in Gpr : g % WordBits \in Bits /\ Mask(g) \subseteq Bits
    /\ \A g \in Gpr : g \notin Low /\ g \notin Undefined => Mask(g) = {}
<1>1. WordBits \in Nat \ {0} /\ NumGprs \in Nat
  BY PoolAssumption
<1>2. \A g \in Gpr : g \in Nat
  BY <1>1 DEF Gpr
<1>3. \A g \in Nat : g % WordBits \in Bits /\ (g < WordBits => g % WordBits = g)
  BY <1>1 DEF Bits
<1>4. \A g \in Low : g \in Gpr /\ g \in Nat /\ g < WordBits /\ g \notin Undefined
  BY <1>1, <1>2 DEF Low, Undefined
<1>5. \A g \in Low : g \in Bits /\ Mask(g) = {g} /\ g % WordBits = g
  BY <1>1, <1>3, <1>4 DEF Bits, Mask
<1>6. \A g \in Gpr : Mask(g) \subseteq Bits
  BY <1>2, <1>3, <1>5 DEF Mask
<1>7. \A g \in Gpr : g \notin Low /\ g \notin Undefined => Mask(g) = {}
  BY WrapAssumption DEF Mask
<1>8. QED
  BY <1>2, <1>3, <1>4, <1>5, <1>6, <1>7

\* A search that has a match ends at a match: a non-empty set of naturals has
\* a least element, the shortest of the intervals 0 .. g.
LEMMA FirstMatches ==
    ASSUME NEW S, S \subseteq Nat, S # {}
    PROVE  First(S) \in S
<1> DEFINE T == {0 .. g : g \in S}
<1>1. T \subseteq FiniteSubsetsOf(Nat) /\ T # {}
  <2>1. \A g \in S : 0 .. g \subseteq Nat /\ IsFiniteSet(0 .. g)
    BY FS_Interval
  <2>2. QED
    BY <2>1 DEF FiniteSubsetsOf
<1>2. PICK X \in T : \A Y \in T : <<Y, X>> \notin StrictSubsetOrdering(Nat)
  BY <1>1, FS_StrictSubsetOrderingWellFounded, WFMin
<1>3. PICK g \in S : X = 0 .. g
  OBVIOUS
<1>4. \A h \in S : g <= h
  <2>1. SUFFICES ASSUME NEW h \in S, h < g PROVE FALSE
    OBVIOUS
  <2>2. 0 .. h \subseteq 0 .. g /\ 0 .. h # 0 .. g
    BY <2>1
  <2>3. <<0 .. h, X>> \in StrictSubsetOrdering(Nat)
    BY <1>3, <2>2 DEF StrictSubsetOrdering
  <2>4. QED
    BY <1>2, <2>3
<1>5. QED
  BY <1>4 DEF First
-----------------------------------------------------------------------------
(* Counting the users of a register.                                       *)

LEMMA OwnersFinite == IsFiniteSet(Owners)
  BY OwnersAssumption, FS_AddElement DEF Owners

\* A new user adds one to the count.
LEMMA CountNewUser ==
    ASSUME NEW S \in SUBSET Owners, NEW o \in Owners, o \notin S
    PROVE  /\ Cardinality(S) \in Nat
           /\ Cardinality(S \cup {o}) = Cardinality(S) + 1
<1>1. IsFiniteSet(S) /\ Cardinality(S) \in Nat
  BY OwnersFinite, FS_Subset, FS_CardinalityType
<1>2. QED
  BY <1>1, FS_AddElement

\* A user that leaves takes one from the count.
LEMMA CountLeavingUser ==
    ASSUME NEW S \in SUBSET Owners, NEW o \in S
    PROVE  /\ Cardinality(S) \in Nat \ {0}
           /\ Cardinality(S \ {o}) = Cardinality(S) - 1
<1>1. IsFiniteSet(S) /\ Cardinality(S) \in Nat
  BY OwnersFinite, FS_Subset, FS_CardinalityType
<1>2. Cardinality(S \ {o}) = Cardinality(S) - 1
  BY <1>1, FS_RemoveElement
<1>3. Cardinality(S) # 0
  BY <1>1, FS_EmptySet
<1>4. QED
  BY <1>1, <1>2, <1>3

LEMMA CountNobody ==
    ASSUME NEW S \in SUBSET Owners
    PROVE  Cardinality(S) = 0 <=> S = {}
  BY OwnersFinite, FS_Subset, FS_EmptySet

-----------------------------------------------------------------------------
(* The inductive invariant.  The types and the table hold whatever the     *)
(* bitmaps say; the rest is about the first word while all fits, with two  *)
(* strengthenings: what Fits says, and that a STATIC register has one      *)
(* user, which is what keeps get_gpr() from sharing it.                    *)

GprType == [type : GprTypes, usage : 0 .. UsageMax, tag : Tags]

CoreOK ==
    /\ gpr \in [Gpr -> GprType]
    /\ used \in [Owners -> SUBSET Bits]
    /\ code \in [Owners -> SUBSET Gpr]
    /\ io \in [Lines -> [Slots -> Gpr \cup {NoGpr}]]
    /\ IoTableExact

LowBits == \A o \in Owners, g \in Low : g \in code[o] <=> g \in used[o]

LowCounts ==
    \A g \in Low : /\ gpr[g].usage = Cardinality(Users(g))
                   /\ gpr[g].type = "NULL" <=> gpr[g].usage = 0

StaticOnce == \A g \in Low : gpr[g].type = "STATIC" => gpr[g].usage = 1

LowOK == LowBits /\ LowCounts /\ StaticOnce

IInv == /\ CoreOK
        /\ fit \in BOOLEAN
        /\ fit => Fits /\ LowOK

LEMMA IInvImplies == IInv => TypeOK /\ IoTableExact /\ BitmapExact /\ UsersCounted
<1>1. CoreOK /\ fit \in BOOLEAN => TypeOK /\ IoTableExact
  BY DEF CoreOK, TypeOK, GprType
<1>2. LowBits => \A o \in Owners, g \in Low : g \in code[o] <=> TestBit(used[o], g)
  BY BitFacts DEF LowBits, TestBit
<1>3. QED
  BY <1>1, <1>2 DEF IInv, LowOK, LowCounts, BitmapExact, UsersCounted

\* Where nobody uses anything everything fits.
Empty == /\ gpr = [g \in Gpr |-> FreeGprRec]
         /\ used = [o \in Owners |-> {}]
         /\ io = [l \in Lines |-> [s \in Slots |-> NoGpr]]
         /\ code = [o \in Owners |-> {}]

LEMMA EmptyOK == Empty => CoreOK /\ Fits /\ LowOK /\ \A g \in Low : Users(g) = {}
<1> SUFFICES ASSUME Empty
             PROVE  CoreOK /\ Fits /\ LowOK /\ \A g \in Low : Users(g) = {}
  OBVIOUS
<1> USE DEF Empty
<1>1. FreeGprRec \in GprType
  BY PoolAssumption DEF GprType, FreeGprRec, GprTypes, Tags
<1>2. CoreOK
  BY <1>1 DEF CoreOK, IoTableExact, FreeGprRec, Slots
<1>3. \A g \in Low : g \in Gpr /\ Users(g) = {}
  BY DEF Users, Low
<1>4. Fits
  <2>1. \A g \in Low : Cardinality(Users(g)) = 0
    BY <1>3, FS_EmptySet
  <2>2. QED
    BY <2>1, PoolAssumption DEF Fits, FreeGprRec, Undefined
<1>5. LowOK
  BY <1>3, FS_EmptySet DEF LowOK, LowBits, LowCounts, StaticOnce, FreeGprRec
<1>6. QED
  BY <1>2, <1>3, <1>4, <1>5

LEMMA InitIInv == Init => IInv
  BY EmptyOK DEF Init, Empty, IInv

\* What every operation does: it keeps types and table, and while all fits it
\* keeps bits and counts of the first word and takes a step of the promise.
GoodAct == /\ CoreOK'
           /\ Fits /\ LowOK /\ Fits' => LowOK' /\ [Promise!ANext]_(Promise!avars)

\* An operation that changes nothing of the first word.
LEMMA LowUnchanged ==
    ASSUME CoreOK, LowOK,
           \A g \in Low : gpr'[g] = gpr[g],
           \A o \in Owners, g \in Low : /\ g \in code'[o] <=> g \in code[o]
                                        /\ g \in used'[o] <=> g \in used[o]
    PROVE  LowOK' /\ UNCHANGED Promise!avars
<1>1. \A g \in Low : Users(g)' = Users(g)
  BY DEF Users
<1>2. LowOK'
  BY <1>1 DEF LowOK, LowBits, LowCounts, StaticOnce
<1>3. QED
  BY <1>1, <1>2 DEF Promise!avars

-----------------------------------------------------------------------------
(* Getting a register.                                                     *)

LEMMA BindKeepsTypes ==
    ASSUME CoreOK, NEW o \in Owners, NEW g \in Gpr, NEW t \in InUse,
           NEW tag \in Tags, NEW u \in 0 .. UsageMax, Bind(o, g, t, tag, u)
    PROVE  /\ gpr' \in [Gpr -> GprType]
           /\ used' \in [Owners -> SUBSET Bits]
           /\ code' \in [Owners -> SUBSET Gpr]
           /\ gpr'[g].type = t /\ gpr'[g].tag = tag /\ gpr'[g].usage = u
           /\ \A h \in Gpr \ {g} : gpr'[h] = gpr[h]
<1>1. [type |-> t, usage |-> u, tag |-> tag] \in GprType
  BY DEF GprType, GprTypes
<1>2. /\ gpr' \in [Gpr -> GprType]
      /\ gpr'[g] = [type |-> t, usage |-> u, tag |-> tag]
      /\ \A h \in Gpr \ {g} : gpr'[h] = gpr[h]
  BY <1>1 DEF CoreOK, Bind
<1>3. SetBit(used[o], g) \in SUBSET Bits
  BY BitFacts DEF CoreOK, SetBit
<1>4. used' \in [Owners -> SUBSET Bits] /\ code' \in [Owners -> SUBSET Gpr]
  BY <1>3 DEF CoreOK, Bind
<1>5. QED
  BY <1>2, <1>4

\* Binding a register as what it is already, or one that was no IO register
\* as something else than IO, leaves the table exact.
LEMMA BindKeepsCore ==
    ASSUME CoreOK, NEW o \in Owners, NEW g \in Gpr,
           NEW t \in InUse, NEW tag \in Tags,
           NEW u \in 0 .. UsageMax, Bind(o, g, t, tag, u),
           t = "IO" <=> gpr[g].type = "IO",
           t = "IO" => tag = gpr[g].tag,
           UNCHANGED io
    PROVE  CoreOK'
<1>1. \A h \in Gpr : /\ gpr'[h].type = "IO" <=> gpr[h].type = "IO"
                     /\ gpr[h].type = "IO" => gpr'[h].tag = gpr[h].tag
  <2>1. /\ gpr'[g].type = t /\ gpr'[g].tag = tag
        /\ \A h \in Gpr \ {g} : gpr'[h] = gpr[h]
    BY BindKeepsTypes
  <2>2. QED
    BY <2>1
<1>2. \A l \in Lines, s \in Slots : io[l][s] # NoGpr => io[l][s] \in Gpr
  BY DEF CoreOK
<1>3. io' \in [Lines -> [Slots -> Gpr \cup {NoGpr}]] /\ io' = io
  BY DEF CoreOK
<1>4. \A l \in Lines, s \in Slots :
         io[l][s] # NoGpr => gpr'[io[l][s]].type = "IO" /\ gpr'[io[l][s]].tag = l
  <2>1. SUFFICES ASSUME NEW l \in Lines, NEW s \in Slots,
                        NEW h, h = io[l][s], h # NoGpr
                 PROVE  gpr'[h].type = "IO" /\ gpr'[h].tag = l
    OBVIOUS
  <2>2. h \in Gpr
    BY <1>2, <2>1
  <2>3. gpr[h].type = "IO" /\ gpr[h].tag = l
    BY <2>1 DEF CoreOK, IoTableExact
  <2>4. QED
    BY <1>1, <2>2, <2>3
<1>5. \A h \in Gpr : gpr'[h].type = "IO" =>
         gpr'[h].tag \in Lines /\ \E s \in Slots : io[gpr'[h].tag][s] = h
  BY <1>1 DEF CoreOK, IoTableExact
<1>6. \A l \in Lines : io[l][0] = io[l][1] => io[l][0] = NoGpr
  BY DEF CoreOK, IoTableExact
<1>7. IoTableExact'
  BY <1>3, <1>4, <1>5, <1>6 DEF IoTableExact
<1>8. QED
  BY <1>3, <1>7, BindKeepsTypes DEF CoreOK

\* A fresh IO register goes into an empty slot of its line.
LEMMA FreshIoKeepsCore ==
    ASSUME CoreOK, NEW o \in Owners, NEW l \in Lines,
           NEW g \in Gpr, gpr[g].type # "IO", NEW z \in EmptySlots(l),
           NEW u \in 0 .. UsageMax,
           Bind(o, g, "IO", l, u), io' = [io EXCEPT ![l][z] = g]
    PROVE  CoreOK'
<1>1. z \in Slots /\ io[l][z] = NoGpr
  BY DEF EmptySlots, CoreOK, Gpr
<1>2. g # NoGpr /\ \A k \in Lines, s \in Slots : io[k][s] # g
  BY PoolAssumption DEF CoreOK, IoTableExact, Gpr, NoGpr
<1> "IO" \in InUse /\ l \in Tags
  BY DEF InUse, Tags
<1>3. /\ \A h \in Gpr \ {g} : gpr'[h] = gpr[h]
      /\ gpr'[g].type = "IO" /\ gpr'[g].tag = l
  BY BindKeepsTypes
<1>4. /\ io' \in [Lines -> [Slots -> Gpr \cup {NoGpr}]]
      /\ io'[l][z] = g
      /\ \A k \in Lines, s \in Slots : (k # l \/ s # z) => io'[k][s] = io[k][s]
  BY <1>1 DEF CoreOK
<1>5. \A k \in Lines, s \in Slots :
         io'[k][s] # NoGpr => gpr'[io'[k][s]].type = "IO" /\ gpr'[io'[k][s]].tag = k
  BY <1>2, <1>3, <1>4 DEF CoreOK, IoTableExact
<1>6. \A k \in Lines : io'[k][0] = io'[k][1] => io'[k][0] = NoGpr
  BY <1>1, <1>2, <1>4 DEF CoreOK, IoTableExact, Slots
<1>7. \A h \in Gpr : gpr'[h].type = "IO" =>
         gpr'[h].tag \in Lines /\ \E s \in Slots : io'[gpr'[h].tag][s] = h
  <2>1. SUFFICES ASSUME NEW h \in Gpr \ {g}, gpr[h].type = "IO"
                 PROVE  gpr[h].tag \in Lines /\ \E s \in Slots : io'[gpr[h].tag][s] = h
    BY <1>1, <1>3, <1>4
  <2>2. PICK s \in Slots : gpr[h].tag \in Lines /\ io[gpr[h].tag][s] = h
    BY <2>1 DEF CoreOK, IoTableExact
  <2>3. h # NoGpr
    BY PoolAssumption DEF Gpr, NoGpr
  <2>4. QED
    BY <1>1, <1>4, <2>2, <2>3
<1>8. QED
  BY <1>4, <1>5, <1>6, <1>7, BindKeepsTypes DEF CoreOK, IoTableExact

\* A register of the first word that a program gets: its count, one more, has
\* room because all fits afterwards.
LEMMA BindKeepsLow ==
    ASSUME CoreOK, LowOK, Fits', NEW o \in Owners, NEW g \in Low, g \notin code[o],
           NEW t \in InUse, NEW tag \in Tags, NEW u \in 0 .. UsageMax,
           t = "STATIC" => gpr[g].usage = 0,
           gpr[g].usage + 1 <= UsageMax => u = gpr[g].usage + 1,
           Bind(o, g, t, tag, u)
    PROVE  /\ LowOK'
           /\ Users(g)' = Users(g) \cup {o}
           /\ \A h \in Low \ {g} : Users(h)' = Users(h)
<1>1. /\ Users(g) \in SUBSET Owners /\ o \notin Users(g)
      /\ gpr[g].usage = Cardinality(Users(g))
      /\ g \in Gpr /\ Low \subseteq Gpr
  BY DEF Users, LowOK, LowCounts, Low
<1>2. /\ \A h \in Low \ {g} : Users(h)' = Users(h)
      /\ Users(g)' = Users(g) \cup {o}
  BY <1>1 DEF Users, Bind, CoreOK
<1>3. /\ Cardinality(Users(g)') = gpr[g].usage + 1 /\ gpr[g].usage \in Nat
      /\ Cardinality(Users(g)') <= UsageMax
  BY <1>1, <1>2, CountNewUser DEF Fits
<1>4. u = Cardinality(Users(g)') /\ u # 0
  BY <1>3
<1>5. /\ gpr'[g].type = t /\ gpr'[g].usage = u
      /\ \A h \in Low \ {g} : gpr'[h] = gpr[h]
      /\ t # "NULL"
  BY <1>1, BindKeepsTypes DEF InUse
<1>6. LowCounts'
  BY <1>2, <1>4, <1>5 DEF LowCounts, LowOK
<1>7. StaticOnce'
  BY <1>3, <1>4, <1>5 DEF StaticOnce, LowOK
<1>8. LowBits'
  <2>1. /\ used'[o] = used[o] \cup {g} /\ code'[o] = code[o] \cup {g}
        /\ \A p \in Owners \ {o} : used'[p] = used[p] /\ code'[p] = code[p]
    BY BitFacts DEF Bind, CoreOK, SetBit
  <2>2. QED
    BY <2>1 DEF LowBits, LowOK
<1>9. QED
  BY <1>2, <1>6, <1>7, <1>8 DEF LowOK

\* A register beyond the first word whose shift is defined leaves no trace in
\* the bitmaps.
LEMMA BindHighKeepsLow ==
    ASSUME CoreOK, LowOK, Fits', NEW o \in Owners, NEW g \in Gpr \ Low,
           NEW t \in InUse, NEW tag \in Tags, NEW u \in 0 .. UsageMax,
           Bind(o, g, t, tag, u)
    PROVE  LowOK' /\ UNCHANGED Promise!avars
<1>1. gpr'[g].type # "NULL"
  BY BindKeepsTypes DEF InUse
<1>2. Mask(g) = {}
  BY <1>1, BitFacts DEF Fits
<1>3. Low \subseteq Gpr \ {g}
  BY DEF Low
<1>4. \A h \in Low : gpr'[h] = gpr[h]
  BY <1>3, BindKeepsTypes
<1>5. \A p \in Owners, h \in Low : /\ h \in code'[p] <=> h \in code[p]
                                   /\ h \in used'[p] <=> h \in used[p]
  BY <1>2, <1>3 DEF Bind, CoreOK, SetBit
<1>6. QED
  BY <1>4, <1>5, LowUnchanged

LEMMA KindsFit == {"STATIC", "DYNAMIC", "IO", "CONTROL", "CONSTANT"} \subseteq InUse
                  /\ NoTag \in Tags
  BY DEF InUse, Tags

\* Whoever takes the first free register takes one that nobody uses.
LEMMA FirstFree ==
    ASSUME CoreOK, FreeGprs # {}
    PROVE  /\ First(FreeGprs) \in Gpr
           /\ gpr[First(FreeGprs)].type = "NULL"
           /\ LowOK /\ First(FreeGprs) \in Low =>
                 /\ gpr[First(FreeGprs)].usage = 0
                 /\ Users(First(FreeGprs)) = {}
<1>1. First(FreeGprs) \in FreeGprs
  BY FirstMatches DEF FreeGprs, OfType, Gpr
<1>2. /\ First(FreeGprs) \in Gpr
      /\ gpr[First(FreeGprs)].type = "NULL"
  BY <1>1 DEF FreeGprs, OfType
<1>3. Users(First(FreeGprs)) \in SUBSET Owners
  BY DEF Users
<1>4. QED
  BY <1>2, <1>3, CountNobody DEF LowOK, LowCounts

\* Taking a free register, whatever becomes of the table.
LEMMA BindFreeLow ==
    ASSUME CoreOK, LowOK, Fits', NEW o \in Owners, NEW t \in InUse,
           NEW tag \in Tags, BindFree(o, t, tag)
    PROVE  LowOK' /\ [Promise!ANext]_(Promise!avars)
<1>1. PICK g \in Gpr : /\ Bind(o, g, t, tag, 1)
                       /\ g \in Low => gpr[g].usage = 0 /\ Users(g) = {}
  BY FirstFree DEF BindFree
<1>2. PICK u \in 0 .. UsageMax : u = 1 /\ Bind(o, g, t, tag, u)
  BY <1>1, PoolAssumption
<1>3. CASE g \in Low
  <2>1. g \notin code[o]
    BY <1>1, <1>3 DEF Users
  <2>2. /\ LowOK' /\ Users(g)' = Users(g) \cup {o}
        /\ \A h \in Low \ {g} : Users(h)' = Users(h)
    BY <1>1, <1>2, <1>3, <2>1, BindKeepsLow
  <2>3. \A h \in Low : /\ gpr'[h].type = IF h = g THEN t ELSE gpr[h].type
                       /\ Users(h)' = IF h = g THEN {o} ELSE Users(h)
    <3>1. gpr'[g].type = t /\ \A h \in Gpr \ {g} : gpr'[h] = gpr[h]
      BY <1>2, BindKeepsTypes
    <3>2. Users(g)' = {o} /\ Low \subseteq Gpr
      BY <1>1, <1>3, <2>2 DEF Low
    <3>3. QED
      BY <2>2, <3>1, <3>2
  <2>4. Promise!Take(o, g, t)
    BY <1>1, <1>3, <2>3 DEF Promise!Take
  <2>5. Promise!ANext
    BY <1>3, <2>4 DEF Promise!ANext, Promise!InUse, InUse
  <2>6. QED
    BY <2>2, <2>5
<1>4. CASE g \notin Low
  BY <1>2, <1>4, BindHighKeepsLow
<1>5. QED
  BY <1>3, <1>4

LEMMA BindFreeGood ==
    ASSUME CoreOK, NEW o \in Owners, NEW t \in InUse \ {"IO"}, NEW tag \in Tags,
           BindFree(o, t, tag), UNCHANGED io
    PROVE  GoodAct
<1>1. /\ First(FreeGprs) \in Gpr /\ gpr[First(FreeGprs)].type = "NULL"
      /\ 1 \in 0 .. UsageMax
  BY FirstFree, PoolAssumption DEF BindFree
<1>2. CoreOK'
  BY <1>1, BindKeepsCore DEF BindFree
<1>3. QED
  BY <1>2, BindFreeLow DEF GoodAct

LEMMA ShareGood ==
    ASSUME CoreOK, NEW o \in Owners, NEW g \in Gpr,
           LowOK /\ g \in Low => g \notin code[o],
           gpr[g].type \notin {"NULL", "STATIC"}, Share(o, g), UNCHANGED io
    PROVE  GoodAct
<1>1. /\ gpr[g].type \in InUse /\ gpr[g].tag \in Tags
      /\ gpr[g].usage \in 0 .. UsageMax
  BY DEF CoreOK, GprType, GprTypes
<1> DEFINE u == Inc(gpr[g].usage)
<1>2. /\ u \in 0 .. UsageMax
      /\ gpr[g].usage + 1 <= UsageMax => u = gpr[g].usage + 1
  BY <1>1, PoolAssumption DEF Inc
<1>3. Bind(o, g, gpr[g].type, gpr[g].tag, u)
  BY DEF Share
<1>4. CoreOK'
  BY <1>1, <1>2, <1>3, BindKeepsCore
<1>5. ASSUME LowOK, Fits'
      PROVE  LowOK' /\ [Promise!ANext]_(Promise!avars)
  <2>1. CASE g \in Low
    <3>1. Users(g) # {}
      BY <2>1, <1>5, CountNobody DEF LowOK, LowCounts, Users
    <3>2. /\ LowOK' /\ Users(g)' = Users(g) \cup {o}
          /\ \A h \in Low \ {g} : Users(h)' = Users(h)
      BY <1>1, <1>2, <1>3, <1>5, <2>1, BindKeepsLow
    <3>3. \A h \in Low : gpr'[h].type = gpr[h].type
      BY <1>1, <1>2, <1>3, BindKeepsTypes DEF Low
    <3>4. Promise!Join(o, g)
      BY <2>1, <3>1, <3>2, <3>3 DEF Promise!Join
    <3>5. QED
      BY <2>1, <3>2, <3>4 DEF Promise!ANext
  <2>2. CASE g \notin Low
    BY <1>1, <1>2, <1>3, <1>5, <2>2, BindHighKeepsLow
  <2>3. QED
    BY <2>1, <2>2
<1>6. QED
  BY <1>4, <1>5 DEF GoodAct

\* Referring to a register of the first word that the program has already, or
\* to one beyond it, records nothing.
LEMMA ReferGood ==
    ASSUME CoreOK, NEW o \in Owners, NEW g \in Gpr,
           LowOK /\ g \in Low => g \in code[o], ReferTo(o, g)
    PROVE  GoodAct
<1>1. CoreOK'
  BY DEF CoreOK, ReferTo, IoTableExact
<1>2. ASSUME LowOK PROVE LowOK' /\ UNCHANGED Promise!avars
  <2>1. \A p \in Owners, h \in Low : h \in code'[p] <=> h \in code[p]
    BY <1>2 DEF ReferTo, CoreOK
  <2>2. gpr' = gpr /\ used' = used
    BY DEF ReferTo
  <2>3. QED
    BY <1>2, <2>1, <2>2, LowUnchanged
<1>3. QED
  BY <1>1, <1>2 DEF GoodAct

-----------------------------------------------------------------------------
(* Giving registers back.                                                  *)

\* What giving back does to every register.
LEMMA ReleasedGprs ==
    ASSUME CoreOK, NEW S \in SUBSET Gpr, gpr' = GprAfter(S)
    PROVE  /\ Freed(S) \in SUBSET S
           /\ gpr' \in [Gpr -> GprType]
           /\ \A g \in Freed(S) : gpr'[g] = FreeGprRec
           /\ \A g \in Gpr \ Freed(S) : /\ gpr'[g].type = gpr[g].type
                                        /\ gpr'[g].tag = gpr[g].tag
           /\ \A g \in S \ Freed(S) : gpr'[g].usage = Dec(gpr[g].usage)
           /\ \A g \in Gpr \ S : gpr'[g] = gpr[g]
<1>1. /\ Freed(S) \in SUBSET S
      /\ FreeGprRec \in GprType
  BY PoolAssumption DEF Freed, FreeGprRec, GprType, GprTypes, Tags
<1>2. \A g \in Gpr : /\ gpr[g] \in GprType
                     /\ Dec(gpr[g].usage) \in 0 .. UsageMax
  <2>1. \A u \in 0 .. UsageMax : Dec(u) \in 0 .. UsageMax
    BY PoolAssumption DEF Dec
  <2>2. \A g \in Gpr : gpr[g] \in GprType /\ gpr[g].usage \in 0 .. UsageMax
    BY DEF CoreOK, GprType
  <2>3. QED
    BY <2>1, <2>2
<1>3. \A g \in Freed(S) : gpr'[g] = FreeGprRec
  BY <1>1 DEF GprAfter
<1>4. \A g \in Gpr \ S : gpr'[g] = gpr[g]
  BY <1>1 DEF GprAfter
<1>5. ASSUME NEW g \in S \ Freed(S), NEW u, u = Dec(gpr[g].usage)
      PROVE  /\ gpr'[g] \in GprType /\ gpr'[g].usage = u
             /\ gpr'[g].type = gpr[g].type /\ gpr'[g].tag = gpr[g].tag
  <2>1. gpr'[g] = [gpr[g] EXCEPT !.usage = u]
    BY <1>5 DEF GprAfter
  <2>2. QED
    BY <1>2, <1>5, <2>1 DEF GprType
<1>6. gpr' \in [Gpr -> GprType]
  <2>1. \A g \in Gpr : gpr'[g] \in GprType
    BY <1>1, <1>2, <1>3, <1>4, <1>5
  <2>2. gpr' = [g \in Gpr |-> gpr'[g]]
    BY DEF GprAfter
  <2>3. QED
    BY <2>1, <2>2
<1>7. QED
  BY <1>1, <1>3, <1>4, <1>5, <1>6

\* A register that is freed leaves the table, and no other does: one that is
\* not in slot 0 of its line is in slot 1.
LEMMA ReleaseKeepsCore ==
    ASSUME CoreOK, NEW S \in SUBSET Gpr, gpr' = GprAfter(S), io' = IoAfter(S),
           used' \in [Owners -> SUBSET Bits], code' \in [Owners -> SUBSET Gpr]
    PROVE  CoreOK'
<1> DEFINE Gone(l) == {g \in Freed(S) : gpr[g].type = "IO" /\ gpr[g].tag = l}
<1>1. /\ Freed(S) \in SUBSET Gpr
      /\ \A g \in Freed(S) : gpr'[g].type = "NULL"
      /\ \A g \in Gpr \ Freed(S) : /\ gpr'[g].type = gpr[g].type
                                   /\ gpr'[g].tag = gpr[g].tag
  BY ReleasedGprs DEF FreeGprRec
<1>2. NoGpr \notin Gpr
  BY PoolAssumption DEF Gpr, NoGpr
<1>3. /\ \A l \in Lines, s \in Slots : io[l][s] # NoGpr =>
            /\ io[l][s] \in Gpr
            /\ gpr[io[l][s]].type = "IO"
            /\ gpr[io[l][s]].tag = l
      /\ \A l \in Lines : io[l][0] = io[l][1] => io[l][0] = NoGpr
      /\ \A g \in Gpr : gpr[g].type = "IO" =>
            /\ gpr[g].tag \in Lines
            /\ io[gpr[g].tag][0] = g \/ io[gpr[g].tag][1] = g
  BY DEF CoreOK, IoTableExact, Slots
<1>4. /\ io' \in [Lines -> [Slots -> Gpr \cup {NoGpr}]]
      /\ \A l \in Lines :
            /\ io'[l][0] = IF io[l][0] \in Gone(l) THEN NoGpr ELSE io[l][0]
            /\ io'[l][1] = IF Gone(l) \ {io[l][0]} # {} THEN NoGpr ELSE io[l][1]
  BY DEF IoAfter, CoreOK, Slots
<1>5. \A l \in Lines, s \in Slots :
         io'[l][s] # NoGpr => gpr'[io'[l][s]].type = "IO" /\ gpr'[io'[l][s]].tag = l
  <2>1. SUFFICES ASSUME NEW l \in Lines, NEW s \in Slots,
                        NEW h, h = io'[l][s], h # NoGpr
                 PROVE  gpr'[h].type = "IO" /\ gpr'[h].tag = l
    OBVIOUS
  <2>2. h = io[l][s] /\ h \in Gpr /\ gpr[h].type = "IO" /\ gpr[h].tag = l
    BY <1>3, <1>4, <2>1 DEF Slots
  <2>3. h \notin Freed(S)
    <3>1. SUFFICES ASSUME h \in Gone(l) PROVE FALSE
      BY <2>2
    <3>2. CASE s = 0
      BY <1>4, <2>1, <2>2, <3>1, <3>2
    <3>3. CASE s = 1
      <4>1. Gone(l) \ {io[l][0]} = {}
        BY <1>4, <2>1, <3>3
      <4>2. h = io[l][0] /\ h = io[l][1]
        BY <2>2, <3>1, <3>3, <4>1
      <4>3. QED
        BY <1>3, <2>1, <4>2
    <3>4. QED
      BY <3>2, <3>3 DEF Slots
  <2>4. QED
    BY <1>1, <2>2, <2>3
<1>6. \A l \in Lines : io'[l][0] = io'[l][1] => io'[l][0] = NoGpr
  BY <1>3, <1>4
<1>7. \A g \in Gpr : gpr'[g].type = "IO" =>
         gpr'[g].tag \in Lines /\ \E s \in Slots : io'[gpr'[g].tag][s] = g
  <2>1. SUFFICES ASSUME NEW g \in Gpr, gpr'[g].type = "IO"
                 PROVE  gpr'[g].tag \in Lines /\ \E s \in Slots : io'[gpr'[g].tag][s] = g
    OBVIOUS
  <2> DEFINE l == gpr[g].tag
  <2>2. g \notin Freed(S)
    BY <1>1, <2>1
  <2>3. /\ gpr[g].type = "IO" /\ gpr'[g].tag = l /\ l \in Lines
        /\ io[l][0] = g \/ io[l][1] = g
    BY <1>1, <1>3, <2>1, <2>2
  <2>4. CASE io[l][0] = g
    BY <1>4, <2>2, <2>3, <2>4 DEF Slots
  <2>5. CASE io[l][1] = g
    <3>1. \A h \in Gone(l) : h \in Gpr /\ h # g /\ gpr[h].type = "IO" /\ gpr[h].tag = l
      BY <1>1, <2>2
    <3>2. \A h \in Gone(l) : h = io[l][0]
      BY <1>3, <2>5, <3>1
    <3>3. io'[l][1] = g
      BY <1>4, <2>3, <2>5, <3>2
    <3>4. QED
      BY <2>3, <3>3 DEF Slots
  <2>6. QED
    BY <2>3, <2>4, <2>5
<1>8. IoTableExact'
  BY <1>5, <1>6, <1>7 DEF IoTableExact
<1>9. QED
  BY <1>4, <1>8, ReleasedGprs DEF CoreOK

\* Registers given back by a program that has them: the counts go down, the
\* bits are cleared, and what nobody uses any more is free.
LEMMA ReleaseKeepsLow ==
    ASSUME CoreOK, LowOK, NEW o \in Owners, NEW S \in SUBSET Gpr,
           S \cap Low \subseteq code[o], gpr' = GprAfter(S),
           \A p \in Owners \ {o} : used'[p] = used[p] /\ code'[p] = code[p],
           \A g \in Low : /\ g \in used'[o] <=> g \in used[o] /\ g \notin S
                          /\ g \in code'[o] <=> g \in code[o] /\ g \notin S
    PROVE  LowOK' /\ [Promise!ANext]_(Promise!avars)
<1> DEFINE L == S \cap Low
<1>1. \A g \in L : /\ o \in Users(g) /\ gpr[g].usage \in 1 .. UsageMax
                   /\ Dec(gpr[g].usage) = gpr[g].usage - 1
                   /\ Cardinality(Users(g) \ {o}) = gpr[g].usage - 1
                   /\ Users(g) \ {o} = {} <=> gpr[g].usage = 1
  <2>1. SUFFICES ASSUME NEW g \in L
                 PROVE  /\ o \in Users(g) /\ gpr[g].usage \in 1 .. UsageMax
                        /\ Dec(gpr[g].usage) = gpr[g].usage - 1
                        /\ Cardinality(Users(g) \ {o}) = gpr[g].usage - 1
                        /\ Users(g) \ {o} = {} <=> gpr[g].usage = 1
    OBVIOUS
  <2>2. o \in Users(g) /\ Users(g) \in SUBSET Owners
    BY DEF Users
  <2>3. gpr[g].usage = Cardinality(Users(g)) /\ gpr[g].usage \in 0 .. UsageMax
    BY DEF LowOK, LowCounts, CoreOK, GprType
  <2>4. /\ Cardinality(Users(g)) \in Nat \ {0}
        /\ Cardinality(Users(g) \ {o}) = Cardinality(Users(g)) - 1
        /\ Cardinality(Users(g) \ {o}) = 0 <=> Users(g) \ {o} = {}
    BY <2>2, CountLeavingUser, CountNobody
  <2>5. gpr[g].usage \in 1 .. UsageMax /\ gpr[g].usage # 0
    BY <2>3, <2>4, PoolAssumption
  <2>6. QED
    BY <2>2, <2>3, <2>4, <2>5 DEF Dec
<1>2. \A g \in L : g \in Freed(S) <=> gpr[g].usage = 1
  <2>1. SUFFICES ASSUME NEW g \in L
                 PROVE  g \in Freed(S) <=> gpr[g].usage = 1
    OBVIOUS
  <2>2. gpr[g].usage \in 1 .. UsageMax /\ Dec(gpr[g].usage) = gpr[g].usage - 1
    BY <1>1
  <2>3. Dec(gpr[g].usage) = 0 <=> gpr[g].usage = 1
    BY <2>2, PoolAssumption
  <2>4. QED
    BY <2>3 DEF Freed
<1>3. /\ \A g \in L : gpr[g].usage = 1 => gpr'[g] = FreeGprRec
      /\ \A g \in L : gpr[g].usage # 1 => /\ gpr'[g].type = gpr[g].type
                                          /\ gpr'[g].usage = gpr[g].usage - 1
      /\ \A g \in Low \ L : gpr'[g] = gpr[g]
  <2>1. /\ L \subseteq S /\ L \subseteq Gpr /\ Low \ L \subseteq Gpr \ S
        /\ \A g \in Freed(S) : gpr'[g] = FreeGprRec
        /\ \A g \in Gpr \ Freed(S) : gpr'[g].type = gpr[g].type
        /\ \A g \in S \ Freed(S) : gpr'[g].usage = Dec(gpr[g].usage)
        /\ \A g \in Gpr \ S : gpr'[g] = gpr[g]
    BY ReleasedGprs DEF Low
  <2>2. \A g \in L : Dec(gpr[g].usage) = gpr[g].usage - 1
    BY <1>1
  <2>3. QED
    BY <1>2, <2>1, <2>2
<1>4. \A g \in Low : Users(g)' = IF g \in L THEN Users(g) \ {o} ELSE Users(g)
  BY DEF Users
<1>5. LowBits'
  BY DEF LowBits, LowOK
<1>6. LowCounts' /\ StaticOnce'
  <2>1. \A g \in Low \ L : /\ gpr'[g] = gpr[g]
                           /\ Users(g)' = Users(g)
    BY <1>3, <1>4
  <2>2. \A g \in L : /\ gpr'[g].usage = Cardinality(Users(g)')
                     /\ gpr'[g].type = "NULL" <=> gpr'[g].usage = 0
                     /\ gpr'[g].type = "STATIC" => gpr'[g].usage = 1
    <3>1. SUFFICES ASSUME NEW g \in L
                   PROVE  /\ gpr'[g].usage = Cardinality(Users(g)')
                          /\ gpr'[g].type = "NULL" <=> gpr'[g].usage = 0
                          /\ gpr'[g].type = "STATIC" => gpr'[g].usage = 1
      OBVIOUS
    <3>2. /\ Users(g)' = Users(g) \ {o} /\ gpr[g].usage \in 1 .. UsageMax
          /\ Cardinality(Users(g) \ {o}) = gpr[g].usage - 1
      BY <1>1, <1>4
    <3>3. /\ gpr[g].type = "NULL" <=> gpr[g].usage = 0
          /\ gpr[g].type = "STATIC" => gpr[g].usage = 1
      BY DEF LowOK, LowCounts, StaticOnce
    <3>4. CASE gpr[g].usage = 1
      BY <1>3, <3>2, <3>4 DEF FreeGprRec
    <3>5. CASE gpr[g].usage # 1
      BY <1>3, <3>2, <3>3, <3>5, PoolAssumption
    <3>6. QED
      BY <3>4, <3>5
  <2>3. QED
    BY <2>1, <2>2 DEF LowOK, LowCounts, StaticOnce
<1>7. Promise!Drop(o, L)
  <2>1. \A g \in Low : gpr'[g].type = IF g \in L /\ Users(g) \subseteq {o}
                                        THEN "NULL" ELSE gpr[g].type
    <3>1. \A g \in L : Users(g) \subseteq {o} <=> gpr[g].usage = 1
      BY <1>1
    <3>2. \A g \in L : gpr[g].usage = 1 => gpr'[g].type = "NULL"
      BY <1>3 DEF FreeGprRec
    <3>3. QED
      BY <1>3, <3>1, <3>2
  <2>2. QED
    BY <1>4, <2>1 DEF Promise!Drop
<1>8. Promise!ANext
  BY <1>7 DEF Promise!ANext
<1>9. QED
  BY <1>5, <1>6, <1>8 DEF LowOK

LEMMA ReleaseGood ==
    ASSUME CoreOK, NEW o \in Owners, NEW S \in SUBSET Gpr, Release(o, S),
           LowOK => S \cap Low \subseteq code[o], Fits => S \cap Undefined = {}
    PROVE  GoodAct
<1>1. /\ used' \in [Owners -> SUBSET Bits] /\ code' \in [Owners -> SUBSET Gpr]
  BY DEF CoreOK, Release
<1>2. CoreOK'
  BY <1>1, ReleaseKeepsCore DEF Release
<1>3. ASSUME Fits, LowOK PROVE LowOK' /\ [Promise!ANext]_(Promise!avars)
  <2>1. \A g \in Low : g \in UNION {Mask(h) : h \in S} <=> g \in S
    <3>1. ASSUME NEW h \in S, NEW g \in Mask(h) PROVE g = h
      <4>1. h \in Gpr /\ h \notin Undefined
        BY <1>3
      <4>2. QED
        BY <3>1, <4>1, BitFacts
    <3>2. \A g \in Low : g \in Mask(g)
      BY BitFacts
    <3>3. QED
      BY <3>1, <3>2
  <2>2. \A p \in Owners \ {o} : used'[p] = used[p] /\ code'[p] = code[p]
    BY DEF Release, CoreOK
  <2>3. \A g \in Low : /\ g \in used'[o] <=> g \in used[o] /\ g \notin S
                       /\ g \in code'[o] <=> g \in code[o] /\ g \notin S
    BY <2>1 DEF Release, CoreOK
  <2>4. gpr' = GprAfter(S) /\ S \cap Low \subseteq code[o]
    BY <1>3 DEF Release
  <2>5. QED
    BY <1>3, <2>2, <2>3, <2>4, ReleaseKeepsLow
<1>4. QED
  BY <1>2, <1>3 DEF GoodAct

-----------------------------------------------------------------------------
(* The operations.                                                         *)

\* In the first word a bit that is set is a register the program has.
LEMMA BitIsUse ==
    ASSUME LowOK, NEW o \in Owners, NEW g \in Low
    PROVE  /\ TestBit(used[o], g) <=> g \in code[o]
           /\ TestAndSetBit(used[o], g) <=> g \in code[o]
  BY BitFacts DEF LowOK, LowBits, TestBit, TestAndSetBit

LEMMA GetStaticGood ==
    ASSUME CoreOK, NEW o \in Owners, GetStatic(o) PROVE GoodAct
  BY BindFreeGood, KindsFit DEF GetStatic

LEMMA GetDynamicGood ==
    ASSUME CoreOK, NEW o \in Owners, GetDynamic(o) PROVE GoodAct
<1> DEFINE overlap == {g \in OfType("DYNAMIC") : /\ ~TestBit(used[o], g)
                                                 /\ gpr[g].usage < UsageMax}
<1>1. CASE overlap # {} /\ Share(o, First(overlap))
  <2>1. First(overlap) \in overlap
    BY <1>1, FirstMatches DEF OfType, Gpr
  <2>2. /\ First(overlap) \in Gpr /\ gpr[First(overlap)].type = "DYNAMIC"
        /\ ~TestBit(used[o], First(overlap))
    BY <2>1 DEF OfType
  <2>3. QED
    BY <1>1, <2>2, ShareGood, BitIsUse DEF GetDynamic
<1>2. CASE overlap = {} /\ BindFree(o, "DYNAMIC", NoTag)
  BY <1>2, BindFreeGood, KindsFit DEF GetDynamic
<1>3. QED
  BY <1>1, <1>2 DEF GetDynamic

LEMMA GetConstantGood ==
    ASSUME CoreOK, NEW o \in Owners, NEW v \in Values, GetConstant(o, v)
    PROVE  GoodAct
<1> DEFINE same == {g \in OfType("CONSTANT") : /\ gpr[g].tag = v
                                               /\ gpr[g].usage < UsageMax}
           candidates == IF same # {} THEN same ELSE FreeGprs
           g == First(candidates)
<1>1. candidates # {} /\ candidates \in SUBSET Gpr /\ g \in candidates
  <2>1. candidates # {} /\ candidates \in SUBSET Gpr
    BY DEF GetConstant, FreeGprs, OfType
  <2>2. QED
    BY <2>1, FirstMatches DEF Gpr
<1>2. CASE TestAndSetBit(used[o], g) /\ ReferTo(o, g)
  BY <1>1, <1>2, ReferGood, BitIsUse
<1>3. CASE /\ ~TestAndSetBit(used[o], g) /\ same # {}
           /\ Bind(o, g, "CONSTANT", v, Inc(gpr[g].usage)) /\ UNCHANGED io
  <2>1. g \in Gpr /\ gpr[g].type = "CONSTANT" /\ gpr[g].tag = v
    BY <1>1, <1>3 DEF OfType
  <2>2. Share(o, g)
    BY <1>3, <2>1 DEF Share
  <2>3. QED
    BY <1>3, <2>1, <2>2, ShareGood, BitIsUse
<1>4. CASE same = {} /\ Bind(o, g, "CONSTANT", v, 1) /\ UNCHANGED io
  <2>1. BindFree(o, "CONSTANT", v)
    BY <1>1, <1>4 DEF BindFree
  <2>2. QED
    BY <1>4, <2>1, BindFreeGood, KindsFit DEF Tags
<1>5. QED
  BY <1>2, <1>3, <1>4 DEF GetConstant

LEMMA GetControlGood ==
    ASSUME CoreOK, NEW o \in Owners, NEW n \in Names, GetControl(o, n)
    PROVE  GoodAct
  BY BindFreeGood, KindsFit DEF GetControl, Tags

\* The names of one patch differ: a control gpr found under a name the
\* patch has no control for is not its own.
LEMMA ShareControlGood ==
    ASSUME CoreOK, NEW o \in Owners, NEW src \in Owners, NEW n \in Names,
           ~HasControl(o, n), ShareControl(o, src, n)
    PROVE  GoodAct
<1> DEFINE g == First(FindControl(src, n))
<1>1. g \in FindControl(src, n)
  BY FirstMatches DEF ShareControl, FindControl, OfType, Gpr
<1>2. g \in Gpr /\ gpr[g].type = "CONTROL" /\ gpr[g].tag = n
  BY <1>1 DEF FindControl, OfType
<1>3. g \notin code[o]
  BY <1>2 DEF HasControl
<1>4. QED
  BY <1>2, <1>3, ShareGood DEF ShareControl

LEMMA GetIoGood ==
    ASSUME CoreOK, NEW o \in Owners, NEW l \in Lines, GetIo(o, l)
    PROVE  GoodAct
<1>1. CASE SharedSlots(o, l) # {} /\ UNCHANGED io
           /\ Bind(o, io[l][First(SharedSlots(o, l))], "IO", l,
                   Inc(gpr[io[l][First(SharedSlots(o, l))]].usage))
  <2> DEFINE g == io[l][First(SharedSlots(o, l))]
  <2>1. First(SharedSlots(o, l)) \in SharedSlots(o, l)
    BY <1>1, FirstMatches DEF SharedSlots, Slots
  <2>2. First(SharedSlots(o, l)) \in Slots /\ g >= 0 /\ ~TestBit(used[o], g)
    BY <2>1 DEF SharedSlots
  <2>3. g \in Gpr /\ gpr[g].type = "IO" /\ gpr[g].tag = l
    BY <2>2 DEF CoreOK, IoTableExact, NoGpr
  <2>4. QED
    BY <1>1, <2>2, <2>3, BitIsUse, ShareGood DEF Share
<1>2. CASE EmptySlots(l) # {} /\ BindFree(o, "IO", l)
           /\ io' = [io EXCEPT ![l][First(EmptySlots(l))] = First(FreeGprs)]
  <2>1. First(EmptySlots(l)) \in EmptySlots(l)
    BY <1>2, FirstMatches DEF EmptySlots, Slots
  <2>2. /\ First(FreeGprs) \in Gpr /\ gpr[First(FreeGprs)].type = "NULL"
        /\ 1 \in 0 .. UsageMax /\ l \in Tags
    BY <1>2, FirstFree, PoolAssumption DEF BindFree, Tags
  <2>3. CoreOK'
    BY <1>2, <2>1, <2>2, FreshIoKeepsCore DEF BindFree
  <2>4. QED
    BY <1>2, <2>2, <2>3, BindFreeLow, KindsFit DEF GoodAct
<1>3. QED
  BY <1>1, <1>2 DEF GetIo

LEMMA GetGprGood ==
    ASSUME CoreOK, NEW o \in Owners, NEW g \in OfType("IO"), GetGpr(o, g)
    PROVE  GoodAct
<1>1. g \in Gpr /\ gpr[g].type = "IO"
  BY DEF OfType
<1>2. CASE TestBit(used[o], g) /\ ReferTo(o, g)
  BY <1>1, <1>2, ReferGood, BitIsUse
<1>3. CASE ~TestBit(used[o], g) /\ Share(o, g) /\ UNCHANGED io
  BY <1>1, <1>3, ShareGood, BitIsUse
<1>4. QED
  BY <1>2, <1>3 DEF GetGpr

LEMMA FreeGprGood ==
    ASSUME CoreOK, NEW o \in Owners, NEW g \in Gpr, gpr[g].type # "NULL",
           FreeGpr(o, g)
    PROVE  GoodAct
<1>1. Fits => {g} \cap Undefined = {}
  BY DEF Fits
<1>2. LowOK => {g} \cap Low \subseteq code[o]
  BY BitIsUse DEF FreeGpr
<1>3. QED
  BY <1>1, <1>2, ReleaseGood DEF FreeGpr

\* Unloading a patch reaches every register of the first word that it has.
LEMMA FreeAllGood ==
    ASSUME CoreOK, NEW o \in Owners, FreeAll(o)
    PROVE  GoodAct
<1> DEFINE S == {g \in Gpr : g \in used[o]}
<1>1. /\ gpr' = GprAfter(S) /\ io' = IoAfter(S)
      /\ used' = [used EXCEPT ![o] = {}] /\ code' = [code EXCEPT ![o] = {}]
  BY DEF FreeAll
<1>2. /\ used' \in [Owners -> SUBSET Bits] /\ code' \in [Owners -> SUBSET Gpr]
  BY <1>1 DEF CoreOK
<1>3. CoreOK'
  BY <1>1, <1>2, ReleaseKeepsCore
<1>4. ASSUME LowOK PROVE LowOK' /\ [Promise!ANext]_(Promise!avars)
  <2>1. \A g \in Low : g \in S <=> g \in used[o]
    BY DEF Low
  <2>2. S \cap Low \subseteq code[o]
    BY <1>4, <2>1 DEF LowOK, LowBits
  <2>3. \A p \in Owners \ {o} : used'[p] = used[p] /\ code'[p] = code[p]
    BY <1>1 DEF CoreOK
  <2>4. \A g \in Low : /\ g \in used'[o] <=> g \in used[o] /\ g \notin S
                       /\ g \in code'[o] <=> g \in code[o] /\ g \notin S
    BY <1>1, <1>4, <2>1 DEF CoreOK, LowOK, LowBits
  <2>5. QED
    BY <1>1, <1>4, <2>2, <2>3, <2>4, ReleaseKeepsLow
<1>5. QED
  BY <1>3, <1>4 DEF GoodAct

LEMMA ReleaseTempsGood == ASSUME CoreOK, ReleaseTemps PROVE GoodAct
<1> DEFINE temp == {g \in Gpr : gpr[g].type \in Temporary}
           reached == {g \in temp :
                         /\ TestBit(used[Routing], g)
                         /\ \A h \in temp : h < g => g % WordBits \notin Mask(h)}
<1>1. Release(Routing, reached) /\ Routing \in Owners
  BY DEF ReleaseTemps, Owners
<1>2. reached \in SUBSET Gpr /\ \A g \in reached : gpr[g].type # "NULL"
  BY DEF Temporary
<1>3. Fits => reached \cap Undefined = {}
  BY <1>2 DEF Fits
<1>4. LowOK => reached \cap Low \subseteq code[Routing]
  BY <1>1, BitIsUse
<1>5. QED
  BY <1>1, <1>2, <1>3, <1>4, ReleaseGood

\* The table made anew holds what the old one held: two slots are enough for
\* the IO registers of a line because the old table had them all.
LEMMA RestartGood == ASSUME CoreOK, Restart PROVE GoodAct
<1>1. \A l \in Lines :
         /\ IoGprsOf(l) \in SUBSET Gpr /\ IoGprsOf(l) \in SUBSET {io[l][0], io[l][1]}
         /\ \A g \in IoGprsOf(l) : gpr[g].type = "IO" /\ gpr[g].tag = l
  BY DEF IoGprsOf, OfType, CoreOK, IoTableExact, Slots
<1>2. \A S \in SUBSET Gpr :
         /\ FirstOrNone(S) \in S \cup {NoGpr}
         /\ S # {} => FirstOrNone(S) \in S
         /\ NoGpr \notin S
  <2>1. SUFFICES ASSUME NEW S \in SUBSET Gpr
                 PROVE  /\ FirstOrNone(S) \in S \cup {NoGpr}
                        /\ S # {} => FirstOrNone(S) \in S
                        /\ NoGpr \notin S
    OBVIOUS
  <2>2. S \subseteq Nat /\ NoGpr \notin S
    BY PoolAssumption DEF Gpr, NoGpr
  <2>3. S # {} => First(S) \in S
    BY <2>2, FirstMatches
  <2>4. QED
    BY <2>2, <2>3 DEF FirstOrNone
<1> DEFINE low(l) == FirstOrNone(IoGprsOf(l))
           high(l) == FirstOrNone(IoGprsOf(l) \ {low(l)})
<1>3. \A l \in Lines : io'[l] \in [Slots -> Gpr \cup {NoGpr}]
                       /\ io'[l][0] = low(l) /\ io'[l][1] = high(l)
  <2>1. ASSUME NEW l \in Lines
        PROVE  low(l) \in Gpr \cup {NoGpr} /\ high(l) \in Gpr \cup {NoGpr}
    <3>1. IoGprsOf(l) \in SUBSET Gpr /\ IoGprsOf(l) \ {low(l)} \in SUBSET Gpr
      BY <1>1
    <3>2. QED
      BY <1>2, <3>1
  <2>2. QED
    BY <2>1 DEF Restart, Slots
<1>4. \A l \in Lines : /\ low(l) \in IoGprsOf(l) \cup {NoGpr}
                       /\ high(l) \in IoGprsOf(l) \cup {NoGpr}
                       /\ low(l) = high(l) => low(l) = NoGpr
                       /\ IoGprsOf(l) \in SUBSET {low(l), high(l)}
  <2>1. SUFFICES ASSUME NEW l \in Lines
                 PROVE  /\ low(l) \in IoGprsOf(l) \cup {NoGpr}
                        /\ high(l) \in IoGprsOf(l) \cup {NoGpr}
                        /\ low(l) = high(l) => low(l) = NoGpr
                        /\ IoGprsOf(l) \in SUBSET {low(l), high(l)}
    OBVIOUS
  <2>2. IoGprsOf(l) \in SUBSET Gpr /\ IoGprsOf(l) \ {low(l)} \in SUBSET Gpr
    BY <1>1
  <2>3. /\ low(l) \in IoGprsOf(l) \cup {NoGpr}
        /\ high(l) \in (IoGprsOf(l) \ {low(l)}) \cup {NoGpr}
        /\ IoGprsOf(l) # {} => low(l) \in IoGprsOf(l)
        /\ IoGprsOf(l) \ {low(l)} # {} => high(l) \in IoGprsOf(l) \ {low(l)}
    BY <1>2, <2>2
  <2>4. \A g \in IoGprsOf(l) : g = low(l) \/ g = high(l)
    BY <1>1, <2>3
  <2>5. QED
    BY <2>3, <2>4
<1>5. CoreOK'
  <2>1. gpr' = gpr /\ io' \in [Lines -> [Slots -> Gpr \cup {NoGpr}]]
    <3>1. gpr' = gpr /\ io' = [l \in Lines |-> io'[l]]
      BY DEF Restart
    <3>2. QED
      BY <1>3, <3>1
  <2>2. \A l \in Lines, s \in Slots :
           io'[l][s] # NoGpr => gpr[io'[l][s]].type = "IO" /\ gpr[io'[l][s]].tag = l
    <3>1. \A l \in Lines, s \in Slots : io'[l][s] \in IoGprsOf(l) \cup {NoGpr}
      BY <1>3, <1>4 DEF Slots
    <3>2. QED
      BY <1>1, <3>1
  <2>3. \A l \in Lines : io'[l][0] = io'[l][1] => io'[l][0] = NoGpr
    BY <1>3, <1>4
  <2>4. ASSUME NEW g \in Gpr, gpr[g].type = "IO"
        PROVE  gpr[g].tag \in Lines /\ \E s \in Slots : io'[gpr[g].tag][s] = g
    <3>1. gpr[g].tag \in Lines /\ g \in IoGprsOf(gpr[g].tag)
      BY <2>4 DEF CoreOK, IoTableExact, IoGprsOf, OfType
    <3>2. g = io'[gpr[g].tag][0] \/ g = io'[gpr[g].tag][1]
      BY <1>3, <1>4, <3>1
    <3>3. QED
      BY <3>1, <3>2 DEF Slots
  <2>5. QED
    <3>1. IoTableExact'
      BY <2>1, <2>2, <2>3, <2>4 DEF IoTableExact
    <3>2. QED
      BY <2>1, <3>1 DEF CoreOK, Restart
<1>6. LowOK => LowOK' /\ UNCHANGED Promise!avars
  BY LowUnchanged DEF Restart
<1>7. QED
  BY <1>5, <1>6 DEF GoodAct

LEMMA StepGood == ASSUME CoreOK, Step PROVE GoodAct
<1>1. ASSUME NEW o \in Patches, PatchStep(o) PROVE GoodAct
  <2>1. o \in Owners
    BY DEF Owners
  <2>2. ASSUME NEW g \in IoGprOf(o), FreeGpr(o, g) PROVE GoodAct
    <3>1. g \in Gpr /\ gpr[g].type # "NULL"
      BY <2>1 DEF IoGprOf, CoreOK
    <3>2. QED
      BY <2>1, <2>2, <3>1, FreeGprGood
  <2>3. QED
    BY <1>1, <2>1, <2>2, GetIoGood, GetDynamicGood, GetStaticGood,
       GetControlGood, ShareControlGood, GetConstantGood, GetGprGood,
       FreeAllGood
       DEF PatchStep
<1>2. ASSUME RoutingStep PROVE GoodAct
  <2>1. /\ Routing \in Owners
        /\ \A g \in OfType("CONTROL") : g \in Gpr /\ gpr[g].type # "NULL"
    BY DEF Owners, OfType
  <2>2. QED
    BY <1>2, <2>1, GetIoGood, GetDynamicGood, GetControlGood, GetGprGood,
       FreeGprGood, ReleaseTempsGood
       DEF RoutingStep
<1>3. QED
  BY <1>1, <1>2, RestartGood DEF Step

\* Every step keeps the invariant, and is a step of the promise while all
\* fits after it.
LEMMA NextGood ==
    ASSUME IInv, [Next]_vars
    PROVE  IInv' /\ (fit' => [Promise!ANext]_(Promise!avars))
<1>1. CASE Step /\ fit' = (fit /\ Fits')
  <2>1. GoodAct
    BY <1>1, StepGood DEF IInv
  <2>2. QED
    BY <1>1, <2>1 DEF GoodAct, IInv
<1>2. CASE UnloadAll
  <2>1. CoreOK' /\ Fits' /\ LowOK' /\ \A g \in Low : Users(g)' = {}
    <3>1. Empty'
      BY <1>2 DEF UnloadAll, Empty
    <3>2. Empty' => (CoreOK /\ Fits /\ LowOK /\ \A g \in Low : Users(g) = {})'
      BY EmptyOK, PTL
    <3>3. QED
      BY <3>1, <3>2
  <2>2. Promise!Clear
    BY <1>2, <2>1 DEF UnloadAll, Promise!Clear, FreeGprRec, Low
  <2>3. QED
    BY <1>2, <2>1, <2>2 DEF UnloadAll, IInv, Promise!ANext
<1>3. CASE UNCHANGED vars
  <2>1. CoreOK'
    BY <1>3 DEF vars, IInv, CoreOK, IoTableExact
  <2>2. LowOK => LowOK' /\ UNCHANGED Promise!avars
    BY <1>3, LowUnchanged DEF vars, IInv
  <2>3. Fits => Fits'
    BY <1>3 DEF vars, Fits, Users
  <2>4. QED
    BY <1>3, <2>1, <2>2, <2>3 DEF vars, IInv
<1>4. QED
  BY <1>1, <1>2, <1>3 DEF Next

-----------------------------------------------------------------------------
(* The theorems.                                                           *)

\* The inductive invariant holds in every state the allocator reaches.
THEOREM AlwaysIInv == Spec => []IInv
<1>1. IInv /\ [Next]_vars => IInv'
  BY NextGood
<1>2. QED
  BY InitIInv, <1>1, PTL DEF Spec

\* Every variable of the allocator has its type; no usage count leaves the u8.
THEOREM TypeCorrect == Spec => []TypeOK
<1>1. IInv => TypeOK
  BY IInvImplies
<1>2. QED
  BY AlwaysIInv, <1>1, PTL

\* While all fits, the usage count of a register of the first word is the
\* number of programs whose code uses it, and it is free exactly when nobody
\* does.
THEOREM UsageIsUsers == Spec => []UsersCounted
<1>1. IInv => UsersCounted
  BY IInvImplies
<1>2. QED
  BY AlwaysIInv, <1>1, PTL

\* While all fits, unloading gives back what was taken of the first word: the
\* bitmaps name exactly its registers in the code, whatever registers beyond
\* it are taken meanwhile.
THEOREM BitmapsAreExact == Spec => []BitmapExact
<1>1. IInv => BitmapExact
  BY IInvImplies
<1>2. QED
  BY AlwaysIInv, <1>1, PTL

\* The table of IO gprs holds the IO registers of each line and nothing else,
\* whatever order programs come, share and go in, and whatever the bitmaps
\* and counts say of registers beyond the first word.
THEOREM IoTableIsExact == Spec => []IoTableExact
<1>1. IInv => IoTableExact
  BY IInvImplies
<1>2. QED
  BY AlwaysIInv, <1>1, PTL

\* While all fits, the allocator implements GprOwnership for the first word: a
\* register keeps its kind while it is used, is free when its last user drops
\* it, and STATIC is never shared.
THEOREM PromiseKept == Spec => KeepsPromise
<1>1. Init => Promise!AInit
  BY EmptyOK DEF Init, Empty, Promise!AInit, FreeGprRec, Low
<1>2. IInv /\ [Next]_vars => (fit' => [Promise!ANext]_(Promise!avars))
  BY NextGood
<1>3. QED
  BY AlwaysIInv, <1>1, <1>2, PTL DEF Spec, KeepsPromise

\* While all fits, sharing a DYNAMIC register of the first word always gives it
\* to a program that did not have it.
THEOREM DynamicIsDistinct == Spec => DynamicDistinct
<1> DEFINE Distinct == \A g \in Low :
              (gpr[g].type = "DYNAMIC" /\ gpr'[g].usage = gpr[g].usage + 1)
                => \E o \in Owners : g \in code'[o] \ code[o]
<1>1. IInv /\ IInv' /\ [Next]_vars => (fit' => Distinct)
  <2> SUFFICES ASSUME IInv, IInv', [Next]_vars, fit' PROVE Distinct
    OBVIOUS
  <2>1. CASE fit
    <3>1. SUFFICES ASSUME NEW g \in Low,
                          gpr'[g].usage = gpr[g].usage + 1,
                          \A o \in Owners : g \notin code'[o] \ code[o]
                   PROVE  FALSE
      OBVIOUS
    <3>2. Users(g)' \subseteq Users(g) /\ Users(g) \in SUBSET Owners
      BY <3>1 DEF Users
    <3>3. Cardinality(Users(g)') <= Cardinality(Users(g))
      BY <3>2, OwnersFinite, FS_Subset
    <3>4. /\ gpr[g].usage = Cardinality(Users(g))
          /\ gpr'[g].usage = Cardinality(Users(g)')
      BY <2>1 DEF IInv, LowOK, LowCounts
    <3>5. gpr[g].usage \in Nat
      BY PoolAssumption DEF IInv, CoreOK, GprType, Low
    <3>6. QED
      BY <3>1, <3>3, <3>4, <3>5
  <2>2. CASE ~fit
    <3>1. UnloadAll
      BY <2>2 DEF Next, vars
    <3>2. \A g \in Low : gpr'[g].usage = 0 /\ gpr[g].usage \in Nat
      BY <3>1, PoolAssumption
         DEF UnloadAll, FreeGprRec, Low, IInv, CoreOK, GprType
    <3>3. QED
      BY <3>2
  <2>3. QED
    BY <2>1, <2>2
<1>2. QED
  BY AlwaysIInv, <1>1, PTL DEF Spec, DynamicDistinct
=============================================================================
