--------------------------- MODULE RoutingProofs ---------------------------
(***************************************************************************)
(* The route commands, for any number of lines, gprs and patches.          *)
(*                                                                         *)
(* Types, and that no control gpr of the first word is left behind or made *)
(* twice, hold whatever happens.  The exactness of the control gprs, what  *)
(* the commands return and the promise of RouteTable hold as long as no    *)
(* register beyond the first word has been in use (the history variable    *)
(* fit): what needs it cites Good, the part of the invariant that is       *)
(* stated under fit.                                                       *)
(***************************************************************************)
EXTENDS Routing, FiniteSetTheorems, WellFoundedInduction, TLAPS

-----------------------------------------------------------------------------
(* Registers and their bits.                                               *)

LEMMA LowGpr ==
    /\ Low \subseteq Gpr /\ Gpr \subseteq Nat /\ WordBits \in Gpr \ Low
    /\ \A g \in Low : g % WordBits = g
  BY RoutingAssumption DEF Low, Gpr

LEMMA LowBelow == ASSUME NEW h \in Low, NEW g \in Nat, g <= h PROVE g \in Low
  BY RoutingAssumption DEF Low

\* The search for a free register ends at one: a non-empty set of naturals has
\* a least element, the shortest of the intervals 0 .. g.
LEMMA FirstMatches ==
    ASSUME NEW S, S \subseteq Nat, S # {}
    PROVE  First(S) \in S /\ \A h \in S : First(S) <= h
<1> DEFINE T == {0 .. g : g \in S}
<1>1. T \subseteq FiniteSubsetsOf(Nat) /\ T # {}
  <2>1. \A g \in S : 0 .. g \subseteq Nat /\ IsFiniteSet(0 .. g)
    BY FS_Interval
  <2>2. QED
    BY <2>1 DEF FiniteSubsetsOf
<1>2. PICK X \in T : \A Y \in T : <<Y, X>> \notin StrictSubsetOrdering(Nat)
  BY <1>1, FS_StrictSubsetOrderingWellFounded, WFMin
<1>3. PICK g \in S : X = 0 .. g
  OBVIOUS
<1>4. \A h \in S : g <= h
  <2>1. SUFFICES ASSUME NEW h \in S, h < g PROVE FALSE
    OBVIOUS
  <2>2. 0 .. h \subseteq 0 .. g /\ 0 .. h # 0 .. g
    BY <2>1
  <2>3. <<0 .. h, X>> \in StrictSubsetOrdering(Nat)
    BY <1>3, <2>2 DEF StrictSubsetOrdering
  <2>4. QED
    BY <1>2, <2>3
<1>5. QED
  BY <1>4 DEF First

\* The registers of the volume routes, in the table v.
LEMMA VolumesAre ==
    ASSUME NEW v \in [Routes -> SUBSET Gpr], NEW g
    PROVE  g \in UNION Range(v) <=> \E r \in Routes : g \in v[r]
  BY DEF Range

-----------------------------------------------------------------------------
(* What holds whatever happens.                                            *)

\* A control gpr of the first word has its bit in the routing patch.
CInv == /\ TypeOK
        /\ NoSpareVolumeGpr
        /\ \A r \in Routes : vol[r] \cap Low \subseteq used

LEMMA InitCInv == Init => CInv
  BY DEF Init, CInv, TypeOK, NoSpareVolumeGpr

LEMMA InUseIs ==
    ASSUME vol \in [Routes -> SUBSET Gpr], NEW g
    PROVE  g \in InUse <=> g \in held \/ \E r \in Routes : g \in vol[r]
  BY VolumesAre DEF InUse, Volumes

LEMMA VolumesInUse ==
    vol \in [Routes -> SUBSET Gpr] => \A r \in Routes : vol[r] \subseteq InUse
  BY InUseIs

LEMMA FoundIs ==
    ASSUME CInv, NEW r \in Routes
    PROVE  /\ vol[r] \cap Low \subseteq Found(r) /\ Found(r) \subseteq vol[r]
           /\ Found(r) # {} => /\ First(Found(r)) \in Found(r)
                               /\ vol[r] \cap Low \subseteq {First(Found(r))}
<1>1. vol[r] \subseteq Gpr /\ Gpr \subseteq Nat
  BY LowGpr DEF CInv, TypeOK
<1>2. vol[r] \cap Low \subseteq Found(r)
  BY LowGpr DEF CInv, Found, TestBit
<1>3. Found(r) \subseteq vol[r]
  BY DEF Found
<1>4. ASSUME Found(r) # {}
      PROVE  First(Found(r)) \in Found(r) /\ vol[r] \cap Low \subseteq {First(Found(r))}
  <2>1. First(Found(r)) \in Found(r) /\ \A h \in Found(r) : First(Found(r)) <= h
    BY <1>1, <1>3, <1>4, FirstMatches
  <2>2. ASSUME NEW h \in vol[r] \cap Low PROVE h = First(Found(r))
    <3>1. First(Found(r)) \in vol[r] /\ First(Found(r)) <= h
      BY <1>2, <1>3, <2>1, <2>2
    <3>2. First(Found(r)) \in Low
      BY <1>1, <3>1, LowBelow
    <3>3. QED
      BY <3>1, <3>2 DEF CInv, NoSpareVolumeGpr
  <2>3. QED
    BY <2>1, <2>2
<1>5. QED
  BY <1>2, <1>3, <1>4

\* The part of CInv about registers; `other' are the routes that keep theirs.
Registers(w, b, h) ==
    /\ w \in [Routes -> SUBSET Gpr]
    /\ b \in SUBSET Low
    /\ \A g \in b : g \in h \/ \E r \in Routes : g \in w[r]
    /\ \A r \in Routes : /\ w[r] \cap Low \subseteq b
                         /\ w[r] \cap h = {}
                         /\ \A s \in Routes \ {r} : w[r] \cap w[s] = {}
                         /\ \A g1, g2 \in w[r] \cap Low : g1 = g2

LEMMA CInvIs ==
    CInv <=> /\ Registers(vol, used, held)
             /\ \A r \in Routes : vol[r] \cap Low # {} => Active(r)
             /\ route \in [Outs -> SUBSET Ins]
             /\ routeV \in [Outs -> SUBSET Ins]
             /\ held \in SUBSET Gpr
             /\ place \in [Patches -> Places \cup {Detached}]
             /\ fit \in BOOLEAN
  BY InUseIs DEF CInv, TypeOK, NoSpareVolumeGpr, Registers

\* The gpr the search finds is freed: the one of the first word if there is one.
LEMMA FreeKeeps ==
    ASSUME CInv, NEW r \in Routes, Found(r) # {}, FreeVolume(r), UNCHANGED held
    PROVE  /\ Registers(vol', used', held')
           /\ vol'[r] \cap Low = {}
           /\ vol'[r] = vol[r] \ {First(Found(r))}
           /\ \A s \in Routes \ {r} : vol'[s] = vol[s]
<1> DEFINE g == First(Found(r))
<1>1. g \in vol[r] /\ vol[r] \cap Low \subseteq {g}
  BY FoundIs
<1>2. vol \in [Routes -> SUBSET Gpr] /\ Registers(vol, used, held)
  BY CInvIs DEF Registers
<1>3. vol' = [vol EXCEPT ![r] = @ \ {g}] /\ used' = used \ {g}
  BY DEF FreeVolume
<1> HIDE DEF g
<1>4. vol'[r] = vol[r] \ {g} /\ \A s \in Routes \ {r} : vol'[s] = vol[s]
  BY <1>2, <1>3
<1>5. vol' \in [Routes -> SUBSET Gpr]
  BY <1>2, <1>3
<1>6. ASSUME NEW h \in used' PROVE h \in held \/ \E s \in Routes : h \in vol'[s]
  BY <1>2, <1>3, <1>4 DEF Registers
<1>7. ASSUME NEW s \in Routes PROVE vol'[s] \cap Low \subseteq used'
  <2>1. CASE s = r
    BY <1>1, <1>4, <2>1
  <2>2. CASE s # r
    BY <1>1, <1>2, <1>3, <1>4, <2>2 DEF Registers
  <2>3. QED
    BY <2>1, <2>2
<1>8. Registers(vol', used', held')
  BY <1>2, <1>3, <1>4, <1>5, <1>6, <1>7 DEF Registers
<1>9. QED
  BY <1>1, <1>4, <1>8 DEF g

\* A route without a gpr of the first word takes a free one.
LEMMA TakeKeeps ==
    ASSUME CInv, NEW r \in Routes, Free # {}, vol[r] \cap Low = {}, TakeVolume(r), UNCHANGED held
    PROVE  /\ Registers(vol', used', held')
           /\ \E g \in Gpr : vol'[r] = vol[r] \cup {g}
           /\ \A s \in Routes \ {r} : vol'[s] = vol[s]
<1> DEFINE g == First(Free)
<1>1. vol \in [Routes -> SUBSET Gpr] /\ Registers(vol, used, held)
  BY CInvIs DEF Registers
<1>2. g \in Gpr /\ g \notin held /\ \A s \in Routes : g \notin vol[s]
  <2>1. g \in Free
    BY FirstMatches, LowGpr DEF Free
  <2>2. QED
    BY <1>1, <2>1, InUseIs DEF Free
<1>3. vol' = [vol EXCEPT ![r] = @ \cup {g}] /\ used' = used \cup ({g} \cap Low)
  BY DEF TakeVolume
<1> HIDE DEF g
<1>4. vol'[r] = vol[r] \cup {g} /\ \A s \in Routes \ {r} : vol'[s] = vol[s]
  BY <1>1, <1>3
<1>5. vol' \in [Routes -> SUBSET Gpr]
  BY <1>1, <1>2, <1>3
<1>6. ASSUME NEW h \in used' PROVE h \in held \/ \E s \in Routes : h \in vol'[s]
  <2>1. CASE h = g
    BY <1>4, <2>1
  <2>2. CASE h # g
    BY <1>1, <1>3, <1>4, <2>2 DEF Registers
  <2>3. QED
    BY <2>1, <2>2
<1>7. ASSUME NEW s \in Routes
      PROVE  /\ vol'[s] \cap Low \subseteq used' /\ vol'[s] \cap held = {}
             /\ \A t \in Routes \ {s} : vol'[s] \cap vol'[t] = {}
             /\ \A g1, g2 \in vol'[s] \cap Low : g1 = g2
  <2>1. vol'[s] \cap Low \subseteq used' /\ vol'[s] \cap held = {}
    BY <1>1, <1>2, <1>3, <1>4 DEF Registers
  <2>2. ASSUME NEW t \in Routes \ {s} PROVE vol'[s] \cap vol'[t] = {}
    BY <1>1, <1>2, <1>4 DEF Registers
  <2>3. \A g1, g2 \in vol'[s] \cap Low : g1 = g2
    BY <1>1, <1>4 DEF Registers
  <2>4. QED
    BY <2>1, <2>2, <2>3
<1>8. Registers(vol', used', held')
  BY <1>1, <1>3, <1>5, <1>6, <1>7 DEF Registers
<1>9. QED
  BY <1>2, <1>4, <1>8

LEMMA TableType ==
    ASSUME NEW t \in [Outs -> SUBSET Ins], NEW i \in Ins, NEW o \in Outs
    PROVE  /\ With(t, i, o) \in [Outs -> SUBSET Ins] /\ Without(t, i, o) \in [Outs -> SUBSET Ins]
           /\ i \in With(t, i, o)[o] /\ i \notin Without(t, i, o)[o]
           /\ \A r \in Routes \ {<<i, o>>} :
                 /\ r[1] \in With(t, i, o)[r[2]] <=> r[1] \in t[r[2]]
                 /\ r[1] \in Without(t, i, o)[r[2]] <=> r[1] \in t[r[2]]
  BY DEF With, Without, Routes

\* The command of a route leaves the other routes alone, and leaves its own a gpr
\* of the first word only if it is an active volume route then.
LEMMA OneRouteKeeps ==
    ASSUME CInv, NEW i \in Ins, NEW o \in Outs,
           route' \in [Outs -> SUBSET Ins],
           routeV' = routeV \/ routeV' = With(routeV, i, o) \/ routeV' = Without(routeV, i, o),
           Registers(vol', used', held'),
           \A s \in Routes \ {<<i, o>>} : vol'[s] = vol[s],
           vol'[<<i, o>>] \cap Low # {} => i \in routeV'[o],
           UNCHANGED <<held, place>>, fit' \in BOOLEAN
    PROVE  CInv'
<1>1. routeV' \in [Outs -> SUBSET Ins]
  BY CInvIs, TableType
<1>2. ASSUME NEW r \in Routes, vol'[r] \cap Low # {} PROVE Active(r)'
  <2>1. CASE r = <<i, o>>
    BY <1>2, <2>1 DEF Active
  <2>2. CASE r # <<i, o>>
    <3>1. r[1] \in routeV[r[2]]
      BY <1>2, <2>2, CInvIs DEF Active
    <3>2. QED
      BY <2>2, <3>1, TableType, CInvIs DEF Active
  <2>3. QED
    BY <2>1, <2>2
<1>3. (CInv <=> /\ Registers(vol, used, held)
                /\ \A r \in Routes : vol[r] \cap Low # {} => Active(r)
                /\ route \in [Outs -> SUBSET Ins]
                /\ routeV \in [Outs -> SUBSET Ins]
                /\ held \in SUBSET Gpr
                /\ place \in [Patches -> Places \cup {Detached}]
                /\ fit \in BOOLEAN)'
  BY CInvIs, PTL
<1>4. held' \in SUBSET Gpr /\ place' \in [Patches -> Places \cup {Detached}]
  BY CInvIs
<1>5. QED
  BY <1>1, <1>2, <1>3, <1>4

LEMMA RouteFacts ==
    ASSUME CInv, NEW i \in Ins, NEW o \in Outs
    PROVE  /\ <<i, o>> \in Routes
           /\ route \in [Outs -> SUBSET Ins]
           /\ routeV \in [Outs -> SUBSET Ins]
           /\ vol \in [Routes -> SUBSET Gpr]
           /\ Registers(vol, used, held)
           /\ vol[<<i, o>>] \cap Low # {} => i \in routeV[o]
           /\ Found(<<i, o>>) = {} => vol[<<i, o>>] \cap Low = {}
  BY CInvIs, FoundIs DEF Routes, Registers, Active

LEMMA AddRouteCInv ==
    ASSUME CInv, NEW i \in Ins, NEW o \in Outs, NEW ret, AddRoute(i, o, ret),
           UNCHANGED <<held, place>>, fit' \in BOOLEAN
    PROVE  CInv'
<1>1. route' \in [Outs -> SUBSET Ins]
  BY TableType, RouteFacts DEF AddRoute
<1>2. CASE UNCHANGED <<routeV, vol, used>>
  BY <1>1, <1>2, RouteFacts, OneRouteKeeps
<1>3. CASE Found(<<i, o>>) # {} /\ FreeVolume(<<i, o>>) /\ routeV' = Without(routeV, i, o)
  BY <1>1, <1>3, RouteFacts, FreeKeeps, OneRouteKeeps
<1>4. QED
  BY <1>2, <1>3 DEF AddRoute

LEMMA AddRouteVCInv ==
    ASSUME CInv, NEW i \in Ins, NEW o \in Outs, NEW ret, AddRouteV(i, o, ret),
           UNCHANGED <<held, place>>, fit' \in BOOLEAN
    PROVE  CInv'
<1>1. route' \in [Outs -> SUBSET Ins]
  BY TableType, RouteFacts DEF AddRouteV
<1>2. routeV' = With(routeV, i, o) /\ i \in routeV'[o]
  BY TableType, RouteFacts DEF AddRouteV
<1>3. CASE UNCHANGED <<vol, used>>
  BY <1>1, <1>2, <1>3, RouteFacts, OneRouteKeeps
<1>4. CASE i \notin routeV[o] /\ Free # {} /\ TakeVolume(<<i, o>>)
  <2>1. vol[<<i, o>>] \cap Low = {}
    BY <1>4, RouteFacts
  <2>2. /\ Registers(vol', used', held')
        /\ \A s \in Routes \ {<<i, o>>} : vol'[s] = vol[s]
    BY <1>4, <2>1, RouteFacts, TakeKeeps
  <2>3. QED
    BY <1>1, <1>2, <2>2, OneRouteKeeps
<1>5. QED
  BY <1>3, <1>4 DEF AddRouteV

LEMMA DelRouteCInv ==
    ASSUME CInv, NEW i \in Ins, NEW o \in Outs, NEW ret, DelRoute(i, o, ret),
           UNCHANGED <<held, place>>, fit' \in BOOLEAN
    PROVE  CInv'
<1>1. route' \in [Outs -> SUBSET Ins]
  BY TableType, RouteFacts DEF DelRoute, DelPlain, DelVolume, DelNothing
<1>2. CASE UNCHANGED <<routeV, vol, used>>
  BY <1>1, <1>2, RouteFacts, OneRouteKeeps
<1>3. CASE Found(<<i, o>>) = {} /\ routeV' = Without(routeV, i, o) /\ UNCHANGED <<vol, used>>
  BY <1>1, <1>3, RouteFacts, OneRouteKeeps
<1>4. CASE Found(<<i, o>>) # {} /\ FreeVolume(<<i, o>>) /\ routeV' = Without(routeV, i, o)
  BY <1>1, <1>4, RouteFacts, FreeKeeps, OneRouteKeeps
<1>5. QED
  BY <1>2, <1>3, <1>4 DEF DelRoute, DelPlain, DelVolume, DelNothing

LEMMA CommandCInv ==
    ASSUME CInv, NEW i \in Ins, NEW o \in Outs, Command(i, o) PROVE CInv'
<1>1. UNCHANGED <<held, place>> /\ fit' \in BOOLEAN
  BY CInvIs DEF Command
<1>2. QED
  BY <1>1, AddRouteCInv, AddRouteVCInv, DelRouteCInv DEF Command

\* Other code takes free registers, or gives back what is not the routing patch's.
LEMMA HeldKeeps ==
    ASSUME CInv, held' \in SUBSET Gpr, \A r \in Routes : vol[r] \cap held' = {},
           used \cap held \subseteq held', UNCHANGED <<route, routeV, vol, used>>,
           place' \in [Patches -> Places \cup {Detached}], fit' \in BOOLEAN
    PROVE  CInv'
<1>1. Registers(vol, used, held')
  BY CInvIs DEF Registers
<1>2. (CInv <=> /\ Registers(vol, used, held)
                /\ \A r \in Routes : vol[r] \cap Low # {} => Active(r)
                /\ route \in [Outs -> SUBSET Ins]
                /\ routeV \in [Outs -> SUBSET Ins]
                /\ held \in SUBSET Gpr
                /\ place \in [Patches -> Places \cup {Detached}]
                /\ fit \in BOOLEAN)'
  BY CInvIs, PTL
<1>3. \A r \in Routes : vol'[r] \cap Low # {} => Active(r)'
  BY CInvIs DEF Active
<1>4. QED
  BY <1>1, <1>2, <1>3, CInvIs

LEMMA TakesFree == ASSUME NEW F, NEW N \in Takes(F) PROVE N \subseteq F
  BY DEF Takes

LEMMA ReadPatchCInv ==
    ASSUME CInv, NEW p \in Patches, NEW side \in {"in", "out"}, NEW L,
           [side |-> side, lines |-> L] \in Places, ReadPatch(p, side, L)
    PROVE  CInv'
<1>1. PICK N \in Takes(Free) : held' = held \cup N
  BY DEF ReadPatch
<1>2. N \subseteq Free
  BY <1>1, TakesFree
<1>3. ASSUME NEW g \in N PROVE g \in Gpr /\ \A r \in Routes : g \notin vol[r]
  <2>1. g \in Gpr /\ g \notin InUse
    BY <1>2, <1>3 DEF Free
  <2>2. QED
    BY <2>1, CInvIs, InUseIs DEF Registers
<1>4. held' \in SUBSET Gpr /\ \A r \in Routes : vol[r] \cap held' = {}
  BY <1>1, <1>3, CInvIs DEF Registers
<1>5. place' \in [Patches -> Places \cup {Detached}] /\ fit' \in BOOLEAN
  BY CInvIs DEF ReadPatch
<1>6. used \cap held \subseteq held' /\ UNCHANGED <<route, routeV, vol, used>>
  BY <1>1 DEF ReadPatch
<1>7. QED
  BY <1>4, <1>5, <1>6, HeldKeeps

LEMMA UnloadPatchCInv ==
    ASSUME CInv, NEW p \in Patches, UnloadPatch(p) PROVE CInv'
<1>1. held' \in SUBSET Gpr /\ \A r \in Routes : vol[r] \cap held' = {}
  BY CInvIs DEF UnloadPatch, Registers
<1>2. place' \in [Patches -> Places \cup {Detached}] /\ fit' \in BOOLEAN
  BY CInvIs DEF UnloadPatch
<1>3. used \cap held \subseteq held' /\ UNCHANGED <<route, routeV, vol, used>>
  BY DEF UnloadPatch
<1>4. QED
  BY <1>1, <1>2, <1>3, HeldKeeps

LEMMA UnloadAllCInv == ASSUME UnloadAll PROVE CInv'
  BY DEF UnloadAll, CInv, TypeOK, NoSpareVolumeGpr

\* What of a load the argument uses.
LoadFacts(K, made, at, IO) ==
    /\ K \in SUBSET held /\ made \in SUBSET NotFoundBy(Kept)
    /\ at \in [made -> Free \cup held] /\ IO \in SUBSET (Free \cup held)
    /\ \A r, s \in made : Before(r, s) => at[r] < at[s]
    /\ IO \cap Range(at) = {}
    /\ IO \cup Range(at) \subseteq Gpr \ (K \cup Volumes)
    /\ vol' = [r \in Routes |-> vol[r] \cup {at[s] : s \in made \cap {r}}]
    /\ held' \in SUBSET (K \cup IO)
    /\ \E T \in SUBSET (held' \cap Low) : used' = Kept \cup (Range(at) \cap Low) \cup T
    /\ UNCHANGED <<route, routeV, place>>
    /\ fit' \in BOOLEAN
    /\ fit' => fit /\ K \cup Volumes \cup IO \cup Range(at) \subseteq Low

LEMMA LoadIs == ASSUME Load PROVE \E K, made, at, IO : LoadFacts(K, made, at, IO)
<1>1. PICK K \in SUBSET held, made \in SUBSET NotFoundBy(Kept) :
        \E at \in [made -> Free \cup held], IO \in SUBSET (Free \cup held) :
           LoadWith(K, made, at, IO)
  BY DEF Load
<1>2. PICK at \in [made -> Free \cup held], IO \in SUBSET (Free \cup held) :
         LoadWith(K, made, at, IO)
  BY <1>1
<1>3. IO \cup Range(at) \subseteq Gpr \ (K \cup Volumes)
  BY <1>2, TakesFree DEF LoadWith
<1>4. fit' \in BOOLEAN /\ (fit' => fit /\ K \cup Volumes \cup IO \cup Range(at) \subseteq Low)
  BY <1>2 DEF LoadWith
<1>5. LoadFacts(K, made, at, IO)
  BY <1>2, <1>3, <1>4 DEF LoadWith, LoadFacts
<1>6. QED
  BY <1>5

\* The routes are searched in an order, so no two get the same register.
LEMMA MadeDistinct ==
    ASSUME NEW made \in SUBSET Routes, NEW at \in [made -> Gpr],
           \A r, s \in made : Before(r, s) => at[r] < at[s],
           NEW r \in made, NEW s \in made, r # s
    PROVE  at[r] # at[s]
<1>1. PICK i \in Ins, o \in Outs : r = <<i, o>>
  BY DEF Routes
<1>2. PICK j \in Ins, q \in Outs : s = <<j, q>>
  BY DEF Routes
<1>3. i \in Int /\ o \in Int /\ j \in Int /\ q \in Int /\ (i # j \/ o # q)
  BY <1>1, <1>2 DEF Ins, Outs
<1>4. Before(r, s) \/ Before(s, r)
  BY <1>1, <1>2, <1>3 DEF Before
<1>5. at[r] \in Int /\ at[s] \in Int
  BY DEF Gpr
<1>6. QED
  BY <1>4, <1>5

LEMMA LoadCInv == ASSUME CInv, Load PROVE CInv'
<1>1. PICK K, made, at, IO : LoadFacts(K, made, at, IO)
  BY LoadIs
<1>2. vol \in [Routes -> SUBSET Gpr] /\ Registers(vol, used, held) /\ held \in SUBSET Gpr
  BY CInvIs DEF Registers
<1>3. made \in SUBSET Routes /\ at \in [made -> Gpr]
  BY <1>1, <1>2 DEF LoadFacts, NotFoundBy, Free
<1>4. ASSUME NEW r \in made
      PROVE  /\ at[r] \in Gpr /\ at[r] \notin K /\ at[r] \notin IO /\ at[r] \in Range(at)
             /\ \A s \in Routes : at[r] \notin vol[s]
             /\ vol'[r] = vol[r] \cup {at[r]}
             /\ Active(r) /\ vol[r] \cap Low = {}
  <2>1. at[r] \in Range(at)
    BY <1>3 DEF Range
  <2>2. at[r] \in Gpr \ (K \cup Volumes) /\ at[r] \notin IO
    BY <1>1, <2>1 DEF LoadFacts
  <2>3. \A s \in Routes : at[r] \notin vol[s]
    BY <1>2, <2>2, VolumesAre DEF Volumes
  <2>4. vol'[r] = vol[r] \cup {at[r]}
    BY <1>1, <1>3 DEF LoadFacts
  <2>5. Active(r) /\ \A g \in vol[r] : ~TestBit(Kept, g)
    BY <1>1 DEF LoadFacts, NotFoundBy
  <2>6. ASSUME NEW g \in vol[r] \cap Low PROVE FALSE
    <3>1. g \in used /\ g \in Volumes
      BY <1>2, <1>3, <2>6, VolumesAre DEF Registers, Volumes
    <3>2. g % WordBits = g
      BY <2>6, LowGpr
    <3>3. QED
      BY <2>5, <2>6, <3>1, <3>2 DEF Kept, TestBit
  <2>7. QED
    BY <2>1, <2>2, <2>3, <2>4, <2>5, <2>6
<1>5. ASSUME NEW r \in Routes \ made PROVE vol'[r] = vol[r]
  BY <1>1 DEF LoadFacts
<1>6. vol' \in [Routes -> SUBSET Gpr]
  <2>1. \A r \in Routes : vol'[r] \in SUBSET Gpr
    BY <1>2, <1>4, <1>5
  <2>2. vol' = [r \in Routes |-> vol'[r]]
    BY <1>1 DEF LoadFacts
  <2>3. QED
    BY <2>1, <2>2
<1>7. PICK T \in SUBSET (held' \cap Low) : used' = Kept \cup (Range(at) \cap Low) \cup T
  BY <1>1 DEF LoadFacts
<1>8. used' \in SUBSET Low
  BY <1>2, <1>7 DEF Kept, Registers
<1>9. ASSUME NEW g \in used' PROVE g \in held' \/ \E r \in Routes : g \in vol'[r]
  <2>1. CASE g \in T
    BY <2>1
  <2>2. CASE g \in Kept
    <3>1. PICK r \in Routes : g \in vol[r]
      BY <1>2, <2>2, VolumesAre DEF Kept, Volumes
    <3>2. g \in vol'[r]
      BY <1>4, <1>5, <3>1
    <3>3. QED
      BY <3>2
  <2>3. CASE g \in Range(at)
    <3>1. PICK r \in made : g = at[r]
      BY <1>3, <2>3 DEF Range
    <3>2. QED
      BY <1>3, <1>4, <3>1
  <2>4. QED
    BY <1>7, <2>1, <2>2, <2>3
<1>10. ASSUME NEW r \in Routes PROVE vol'[r] \cap Low \subseteq used'
  <2>1. vol[r] \cap Low \subseteq used'
    <3>1. vol[r] \cap Low \subseteq used /\ vol[r] \subseteq Volumes
      BY <1>2, VolumesAre DEF Registers, Volumes
    <3>2. QED
      BY <1>7, <3>1 DEF Kept
  <2>2. CASE r \in made
    BY <1>4, <1>7, <2>1, <2>2
  <2>3. CASE r \notin made
    BY <1>5, <2>1, <2>3
  <2>4. QED
    BY <2>2, <2>3
<1>11. ASSUME NEW r \in Routes PROVE vol'[r] \cap held' = {}
  <2>1. vol[r] \cap held = {} /\ vol[r] \cap IO = {}
    <3>1. vol[r] \subseteq Volumes
      BY <1>2, VolumesAre DEF Volumes
    <3>2. QED
      BY <1>1, <1>2, <3>1 DEF Registers, LoadFacts
  <2>2. held' \subseteq K \cup IO /\ K \subseteq held
    BY <1>1 DEF LoadFacts
  <2>3. CASE r \in made
    BY <1>4, <2>1, <2>2, <2>3
  <2>4. CASE r \notin made
    BY <1>5, <2>1, <2>2, <2>4
  <2>5. QED
    BY <2>3, <2>4
<1>12. ASSUME NEW r \in Routes, NEW s \in Routes \ {r} PROVE vol'[r] \cap vol'[s] = {}
  <2>1. vol[r] \cap vol[s] = {}
    BY <1>2 DEF Registers
  <2>2. CASE r \in made /\ s \in made
    <3>1. at[r] # at[s]
      BY <1>1, <1>3, <2>2, MadeDistinct DEF LoadFacts
    <3>2. QED
      BY <1>4, <2>1, <2>2, <3>1
  <2>3. CASE r \in made /\ s \notin made
    BY <1>4, <1>5, <2>1, <2>3
  <2>4. CASE r \notin made /\ s \in made
    BY <1>4, <1>5, <2>1, <2>4
  <2>5. CASE r \notin made /\ s \notin made
    BY <1>5, <2>1, <2>5
  <2>6. QED
    BY <2>2, <2>3, <2>4, <2>5
<1>13. ASSUME NEW r \in Routes, NEW g \in vol'[r] \cap Low, NEW h \in vol'[r] \cap Low PROVE g = h
  <2>1. CASE r \in made
    BY <1>4, <2>1
  <2>2. CASE r \notin made
    BY <1>2, <1>5, <2>2 DEF Registers
  <2>3. QED
    BY <2>1, <2>2
<1>14. Registers(vol', used', held')
  BY <1>6, <1>8, <1>9, <1>10, <1>11, <1>12, <1>13 DEF Registers
<1>15. ASSUME NEW r \in Routes, vol'[r] \cap Low # {} PROVE Active(r)'
  <2>1. Active(r)
    BY <1>4, <1>5, <1>15, CInvIs
  <2>2. QED
    BY <1>1, <2>1 DEF Active, LoadFacts
<1>16. /\ UNCHANGED <<route, routeV, place>> /\ fit' \in BOOLEAN
       /\ held' \in SUBSET Gpr
  BY <1>1, <1>2 DEF LoadFacts, Free
<1>17. (CInv <=> /\ Registers(vol, used, held)
                 /\ \A r \in Routes : vol[r] \cap Low # {} => Active(r)
                 /\ route \in [Outs -> SUBSET Ins]
                 /\ routeV \in [Outs -> SUBSET Ins]
                 /\ held \in SUBSET Gpr
                 /\ place \in [Patches -> Places \cup {Detached}]
                 /\ fit \in BOOLEAN)'
  BY CInvIs, PTL
<1>18. QED
  BY <1>14, <1>15, <1>16, <1>17, CInvIs

LEMMA NextCInv == ASSUME CInv, [Next]_vars PROVE CInv'
<1>1. ASSUME NEW i \in Ins, NEW o \in Outs, Command(i, o) PROVE CInv'
  BY <1>1, CommandCInv
<1>2. ASSUME NEW p \in Patches, NEW L \in SUBSET Ins \ {{}}, ReadPatch(p, "in", L) PROVE CInv'
  BY <1>2, ReadPatchCInv DEF Places
<1>3. ASSUME NEW p \in Patches, NEW L \in SUBSET Outs \ {{}}, ReadPatch(p, "out", L) PROVE CInv'
  BY <1>3, ReadPatchCInv DEF Places
<1>4. ASSUME NEW p \in Patches, UnloadPatch(p) PROVE CInv'
  BY <1>4, UnloadPatchCInv
<1>5. CASE UNCHANGED vars
  BY <1>5 DEF vars, CInv, TypeOK, NoSpareVolumeGpr, InUse, Volumes, Active
<1>6. QED
  BY <1>1, <1>2, <1>3, <1>4, <1>5, UnloadAllCInv, LoadCInv DEF Next

\* Every variable has its type, and no bit of a free register is set.
THEOREM RoutingTyped == Spec => []TypeOK
<1>1. CInv => TypeOK
  BY DEF CInv
<1>2. QED
  BY InitCInv, NextCInv, <1>1, PTL DEF Spec

\* Whatever fails and however many registers are in use: no register is two
\* routes' or other code's too, and in the first word a control gpr belongs to an
\* active volume route and is the only one of its name there.
THEOREM VolumeGprsAccounted == Spec => []NoSpareVolumeGpr
<1>1. CInv => NoSpareVolumeGpr
  BY DEF CInv
<1>2. QED
  BY InitCInv, NextCInv, <1>1, PTL DEF Spec

-----------------------------------------------------------------------------
(* While no register beyond the word is in use.                            *)

Exact == \A r \in Routes : IF Active(r) THEN \E g \in Low : vol[r] = {g} ELSE vol[r] = {}

Good == /\ InUse \subseteq Low
        /\ Exact
        /\ \A o \in Outs : route[o] \cap routeV[o] = {}
        /\ \A o \in Outs : Attached("out", o) => OutRouted(o)

AInv == CInv /\ (fit => Good)

LEMMA InitGood == Init => Good
<1> SUFFICES ASSUME Init PROVE Good
  OBVIOUS
<1>1. InUse \subseteq Low
  BY DEF Init, InUse, Volumes, Range
<1>2. Exact
  BY DEF Init, Exact, Active, Routes
<1>3. \A o \in Outs : route[o] \cap routeV[o] = {}
  BY DEF Init
<1>4. \A o \in Outs : ~Attached("out", o)
  BY DEF Init, Attached
<1>5. QED
  BY <1>1, <1>2, <1>3, <1>4 DEF Good

\* What the tables are after a command, and that the other routes are as before.
Plain(i, o) == i \in route[o] /\ i \notin routeV[o]
Volume(i, o) == i \in routeV[o] /\ i \notin route[o]
Off(i, o) == i \notin route[o] /\ i \notin routeV[o]

OthersKept(i, o) ==
    /\ \A r \in Routes \ {<<i, o>>} :
          /\ vol'[r] = vol[r]
          /\ r[1] \in route[r[2]] <=> r[1] \in route'[r[2]]
          /\ r[1] \in routeV[r[2]] <=> r[1] \in routeV'[r[2]]
    /\ UNCHANGED place

Outcome(i, o) ==
    \/ Plain(i, o)' /\ vol'[<<i, o>>] = {}
    \/ Volume(i, o)' /\ \E g \in Low : vol'[<<i, o>>] = {g}
    \/ /\ Off(i, o)' /\ vol'[<<i, o>>] = {}
       /\ Attached("out", o) => route'[o] \cup routeV'[o] # {}

\* Of the route itself: one of the two tables, and with a gpr that is found, or
\* none; and there is a register the next volume route gets.
LEMMA OneRoute ==
    ASSUME CInv, Good, NEW i \in Ins, NEW o \in Outs
    PROVE  /\ <<i, o>> \in Routes
           /\ Plain(i, o) \/ Volume(i, o) \/ Off(i, o)
           /\ i \in routeV[o] => /\ Found(<<i, o>>) # {}
                                 /\ vol[<<i, o>>] = {First(Found(<<i, o>>))}
                                 /\ First(Found(<<i, o>>)) \in Low
           /\ i \notin routeV[o] => vol[<<i, o>>] = {}
           /\ Free # {}
<1>1. <<i, o>> \in Routes /\ <<i, o>>[1] = i /\ <<i, o>>[2] = o
  BY DEF Routes
<1>2. Plain(i, o) \/ Volume(i, o) \/ Off(i, o)
  BY DEF Good, Plain, Volume, Off
<1>3. ASSUME i \in routeV[o]
      PROVE  /\ Found(<<i, o>>) # {}
             /\ vol[<<i, o>>] = {First(Found(<<i, o>>))}
             /\ First(Found(<<i, o>>)) \in Low
  <2>1. PICK g \in Low : vol[<<i, o>>] = {g}
    BY <1>1, <1>3 DEF Good, Exact, Active
  <2>2. QED
    BY <1>1, <2>1, FoundIs
<1>4. i \notin routeV[o] => vol[<<i, o>>] = {}
  BY <1>1 DEF Good, Exact, Active
<1>5. WordBits \in Free
  BY LowGpr DEF Good, Free
<1>6. QED
  BY <1>1, <1>2, <1>3, <1>4, <1>5

LEMMA OutcomeKeeps ==
    ASSUME CInv, Good, CInv', InUse' \subseteq Low,
           NEW i \in Ins, NEW o \in Outs, OthersKept(i, o), Outcome(i, o)
    PROVE  Good'
<1>1. Exact'
  <2>1. ASSUME NEW r \in Routes
        PROVE  IF Active(r)' THEN \E g \in Low : vol'[r] = {g} ELSE vol'[r] = {}
    <3>1. CASE r = <<i, o>>
      BY <3>1 DEF Outcome, Plain, Volume, Off, Active
    <3>2. CASE r # <<i, o>>
      BY <3>2 DEF Good, Exact, OthersKept, Active
    <3>3. QED
      BY <3>1, <3>2
  <2>2. QED
    BY <2>1 DEF Exact
<1>2. ASSUME NEW q \in Outs, NEW j \in Ins, j \in route'[q], j \in routeV'[q] PROVE FALSE
  <2>1. <<j, q>> # <<i, o>>
    BY <1>2 DEF Outcome, Plain, Volume, Off
  <2>2. j \in route[q] /\ j \in routeV[q]
    <3>1. <<j, q>> \in Routes \ {<<i, o>>} /\ <<j, q>>[1] = j /\ <<j, q>>[2] = q
      BY <2>1 DEF Routes
    <3>2. QED
      BY <1>2, <3>1 DEF OthersKept
  <2>3. QED
    BY <2>2 DEF Good
<1>3. ASSUME NEW q \in Outs, Attached("out", q)' PROVE OutRouted(q)'
  <2>1. Attached("out", q)
    BY <1>3 DEF OthersKept, Attached
  <2>2. CASE q = o
    BY <2>1, <2>2 DEF Outcome, Plain, Volume, Off, OutRouted
  <2>3. CASE q # o
    <3>1. PICK j \in Ins : j \in route[q] \/ j \in routeV[q]
      BY <2>1, CInvIs DEF Good, OutRouted
    <3>2. <<j, q>> \in Routes \ {<<i, o>>} /\ <<j, q>>[1] = j /\ <<j, q>>[2] = q
      BY <2>3 DEF Routes
    <3>3. j \in route'[q] \/ j \in routeV'[q]
      BY <3>1, <3>2 DEF OthersKept
    <3>4. QED
      BY <3>3 DEF OutRouted
  <2>4. QED
    BY <2>2, <2>3
<1>4. route' \in [Outs -> SUBSET Ins]
  BY DEF CInv, TypeOK
<1>5. QED
  BY <1>1, <1>2, <1>3, <1>4 DEF Good

\* The three commands.
LEMMA AddRouteFit ==
    ASSUME CInv, Good, NEW i \in Ins, NEW o \in Outs, NEW ret, AddRoute(i, o, ret),
           UNCHANGED <<held, place>>
    PROVE  OthersKept(i, o) /\ Outcome(i, o) /\ Plain(i, o)'
<1>1. CASE i \notin routeV[o]
  BY <1>1, OneRoute, TableType, RouteFacts DEF AddRoute, OthersKept, Outcome, Plain
<1>2. CASE i \in routeV[o]
  <2>1. Found(<<i, o>>) # {} /\ vol[<<i, o>>] = {First(Found(<<i, o>>))} /\ <<i, o>> \in Routes
    BY <1>2, OneRoute
  <2>2. FreeVolume(<<i, o>>) /\ route' = With(route, i, o) /\ routeV' = Without(routeV, i, o)
    BY <1>2, <2>1 DEF AddRoute
  <2>3. vol'[<<i, o>>] = {} /\ \A s \in Routes \ {<<i, o>>} : vol'[s] = vol[s]
    BY <2>1, <2>2, FreeKeeps
  <2>4. QED
    BY <2>2, <2>3, TableType, RouteFacts DEF OthersKept, Outcome, Plain
<1>3. QED
  BY <1>1, <1>2

LEMMA AddRouteVFit ==
    ASSUME CInv, Good, NEW i \in Ins, NEW o \in Outs, NEW ret, AddRouteV(i, o, ret),
           InUse' \subseteq Low, CInv', UNCHANGED <<held, place>>
    PROVE  OthersKept(i, o) /\ Outcome(i, o) /\ Volume(i, o)'
<1>1. Free # {} /\ <<i, o>> \in Routes
  BY OneRoute
<1>2. routeV' = With(routeV, i, o) /\ route' = Without(route, i, o)
  BY <1>1 DEF AddRouteV
<1>3. CASE i \notin routeV[o]
  <2>1. vol[<<i, o>>] = {} /\ TakeVolume(<<i, o>>)
    BY <1>1, <1>3, OneRoute DEF AddRouteV
  <2>2. PICK g \in Gpr : vol'[<<i, o>>] = vol[<<i, o>>] \cup {g}
    BY <1>1, <2>1, TakeKeeps
  <2>3. \A s \in Routes \ {<<i, o>>} : vol'[s] = vol[s]
    BY <1>1, <2>1, TakeKeeps
  <2>4. (vol \in [Routes -> SUBSET Gpr] =>
           \A r \in Routes : vol[r] \subseteq InUse)'
    BY VolumesInUse, PTL
  <2>5. g \in Low
    BY <1>1, <2>2, <2>4 DEF CInv, TypeOK
  <2>6. QED
    BY <1>2, <2>1, <2>2, <2>3, <2>5, TableType, RouteFacts DEF OthersKept, Outcome, Volume
<1>4. CASE i \in routeV[o]
  <2>1. \E g \in Low : vol[<<i, o>>] = {g}
    BY <1>4, OneRoute
  <2>2. UNCHANGED vol
    BY <1>4 DEF AddRouteV
  <2>3. QED
    BY <1>2, <2>1, <2>2, TableType, RouteFacts DEF OthersKept, Outcome, Volume
<1>5. QED
  BY <1>3, <1>4

\* A route is removed, or is refused and stays as it was, or there was none.
Removed(i, o) == /\ Off(i, o)'
                 /\ OutStays(route', routeV', o) /\ InStays(route', routeV', i)
RefusedOrNone(i, o, ret) == /\ UNCHANGED <<route, routeV, vol>>
                            /\ \/ ~Off(i, o) /\ ret = -2
                               \/ Off(i, o) /\ ret = -3

LEMMA DelRouteFit ==
    ASSUME CInv, Good, NEW i \in Ins, NEW o \in Outs, NEW ret, DelRoute(i, o, ret),
           UNCHANGED <<held, place>>
    PROVE  /\ OthersKept(i, o) /\ Outcome(i, o)
           /\ (Removed(i, o) /\ ret = 0) \/ RefusedOrNone(i, o, ret)
<1>1. /\ <<i, o>> \in Routes /\ (i \notin routeV[o] => vol[<<i, o>>] = {})
      /\ Plain(i, o) \/ Volume(i, o) \/ Off(i, o)
  BY OneRoute
<1>2. CASE RefusedOrNone(i, o, ret)
  <2>1. UNCHANGED <<route, routeV, vol, place>>
    BY <1>2 DEF RefusedOrNone
  <2>2. Attached("out", o) => route[o] \cup routeV[o] # {}
    BY DEF Good, OutRouted
  <2>3. i \in routeV[o] => \E g \in Low : vol[<<i, o>>] = {g}
    BY OneRoute
  <2>4. OthersKept(i, o) /\ Outcome(i, o)
    BY <1>1, <2>1, <2>2, <2>3 DEF OthersKept, Outcome, Plain, Volume, Off
  <2>5. QED
    BY <1>2, <2>4
<1>3. CASE DelPlain(i, o, ret) /\ route' = Without(route, i, o)
  <2>1. /\ OutStays(route', routeV', o) /\ InStays(route', routeV', i)
        /\ ret = 0 /\ UNCHANGED <<routeV, vol, place>>
    <3>1. route' # route
      BY <1>1, <1>3, TableType, RouteFacts DEF DelPlain
    <3>2. QED
      BY <1>3, <3>1 DEF DelPlain
  <2>2. Off(i, o)' /\ vol'[<<i, o>>] = {} /\ OthersKept(i, o)
    BY <1>1, <1>3, <2>1, TableType, RouteFacts DEF DelPlain, Plain, Volume, Off, OthersKept
  <2>3. QED
    BY <2>1, <2>2 DEF Removed, Outcome, OutStays, Attached
<1>4. CASE /\ DelVolume(i, o, ret)
           /\ routeV' = Without(routeV, i, o) /\ FreeVolume(<<i, o>>)
           /\ OutStays(route, routeV', o) /\ InStays(route, routeV', i)
           /\ ret = 0
  <2>1. UNCHANGED <<route, place>> /\ i \notin route[o] /\ i \in routeV[o]
    BY <1>4 DEF DelVolume
  <2>2. Found(<<i, o>>) # {} /\ vol[<<i, o>>] = {First(Found(<<i, o>>))}
    BY <2>1, OneRoute
  <2>3. vol'[<<i, o>>] = {} /\ \A s \in Routes \ {<<i, o>>} : vol'[s] = vol[s]
    BY <1>1, <1>4, <2>2, FreeKeeps
  <2>4. Off(i, o)' /\ OthersKept(i, o)
    BY <1>1, <1>4, <2>1, <2>3, TableType, RouteFacts DEF OthersKept, Off
  <2>5. QED
    BY <1>4, <2>1, <2>3, <2>4 DEF Removed, Outcome, OutStays, InStays, Attached
<1>5. i \in routeV[o] => Found(<<i, o>>) # {}
  BY OneRoute
<1>6. CASE DelPlain(i, o, ret)
  BY <1>2, <1>3, <1>6 DEF DelPlain, RefusedOrNone, Off
<1>7. CASE DelVolume(i, o, ret)
  BY <1>2, <1>4, <1>5, <1>7 DEF DelVolume, RefusedOrNone, Off
<1>8. CASE DelNothing(i, o, ret)
  BY <1>2, <1>8 DEF DelNothing, RefusedOrNone, Off
<1>9. QED
  BY <1>6, <1>7, <1>8 DEF DelRoute

LEMMA CommandKeeps ==
    ASSUME AInv, CInv', NEW i \in Ins, NEW o \in Outs, Command(i, o), fit'
    PROVE  Good /\ OthersKept(i, o) /\ Good'
<1>1. Good /\ CInv
  BY DEF AInv, Command
<1>2. InUse' \subseteq Low /\ UNCHANGED <<held, place>>
  BY DEF Command
<1>3. OthersKept(i, o) /\ Outcome(i, o)
  BY <1>1, <1>2, AddRouteFit, AddRouteVFit, DelRouteFit DEF Command
<1>4. QED
  BY <1>1, <1>2, <1>3, OutcomeKeeps

\* A load that fits finds every control gpr, and makes none.
LEMMA LoadFit ==
    ASSUME CInv, Good, CInv', Load, fit'
    PROVE  UNCHANGED <<route, routeV, place, vol>> /\ InUse' \subseteq Low
<1>1. PICK K, made, at, IO : LoadFacts(K, made, at, IO)
  BY LoadIs
<1>2. vol \in [Routes -> SUBSET Gpr] /\ Registers(vol, used, held)
  BY CInvIs DEF Registers
<1>3. ASSUME NEW r \in made PROVE FALSE
  <2>1. r \in Routes /\ Active(r) /\ \A g \in vol[r] : ~TestBit(Kept, g)
    BY <1>1, <1>3 DEF LoadFacts, NotFoundBy
  <2>2. PICK g \in Low : vol[r] = {g}
    BY <2>1 DEF Good, Exact
  <2>3. g \in used /\ g \in Volumes
    BY <1>2, <2>1, <2>2, VolumesAre DEF Registers, Volumes
  <2>4. g % WordBits = g
    BY <2>2, LowGpr
  <2>5. QED
    BY <2>1, <2>2, <2>3, <2>4 DEF Kept, TestBit
<1>4. vol' = [r \in Routes |-> vol[r]]
  BY <1>1, <1>3 DEF LoadFacts
<1>5. vol' = vol
  BY <1>2, <1>4
<1>6. K \cup Volumes \cup IO \subseteq Low /\ held' \subseteq K \cup IO
  BY <1>1 DEF LoadFacts
<1>7. InUse' \subseteq Low
  BY <1>5, <1>6 DEF InUse, Volumes
<1>8. QED
  BY <1>1, <1>5, <1>7 DEF LoadFacts

\* The tables stay as they are, and the lists change where the checks allow it.
LEMMA TablesKept ==
    ASSUME Good, UNCHANGED <<route, routeV, vol>>, InUse' \subseteq Low,
           \A o \in Outs : Attached("out", o)' => Attached("out", o) \/ OutRouted(o)
    PROVE  Good'
<1>1. Exact'
  BY DEF Good, Exact, Active
<1>2. \A o \in Outs : Attached("out", o)' => OutRouted(o)'
  BY DEF Good, OutRouted
<1>3. QED
  BY <1>1, <1>2 DEF Good

LEMMA ReadPatchAttaches ==
    ASSUME CInv, NEW p \in Patches, NEW side \in {"in", "out"}, NEW L, ReadPatch(p, side, L),
           NEW o \in Outs, Attached("out", o)'
    PROVE  Attached("out", o) \/ OutRouted(o)
<1>1. CASE place' = place
  BY <1>1 DEF Attached
<1>2. CASE place' = [place EXCEPT ![p] = [side |-> side, lines |-> L]]
  <2>1. PICK q \in Patches : /\ place'[q] # Detached
                             /\ place'[q].side = "out" /\ o \in place'[q].lines
    BY DEF Attached
  <2>2. CASE q = p
    <3>1. place'[p] = [side |-> side, lines |-> L]
      BY <1>2 DEF CInv, TypeOK
    <3>2. side = "out" /\ o \in L
      BY <2>1, <2>2, <3>1
    <3>3. QED
      BY <3>2 DEF ReadPatch, MayAttach
  <2>3. CASE q # p
    <3>1. place'[q] = place[q]
      BY <1>2, <2>3 DEF CInv, TypeOK
    <3>2. QED
      BY <2>1, <3>1 DEF Attached
  <2>4. QED
    BY <2>2, <2>3
<1>3. QED
  BY <1>1, <1>2 DEF ReadPatch

LEMMA UnloadPatchAttaches ==
    ASSUME CInv, NEW p \in Patches, UnloadPatch(p), NEW o \in Outs, Attached("out", o)'
    PROVE  Attached("out", o)
<1>1. PICK q \in Patches : /\ place'[q] # Detached
                           /\ place'[q].side = "out" /\ o \in place'[q].lines
  BY DEF Attached
<1>2. place'[q] = place[q]
  BY <1>1 DEF UnloadPatch, CInv, TypeOK
<1>3. QED
  BY <1>1, <1>2 DEF Attached

LEMMA NextGood == ASSUME AInv, CInv', [Next]_vars, fit' PROVE Good'
<1>0. CInv
  BY DEF AInv
<1>1. ASSUME NEW i \in Ins, NEW o \in Outs, Command(i, o) PROVE Good'
  BY <1>1, CommandKeeps
<1>2. ASSUME NEW p \in Patches, NEW side \in {"in", "out"}, NEW L, ReadPatch(p, side, L)
      PROVE  Good'
  <2>1. Good /\ InUse' \subseteq Low /\ UNCHANGED <<route, routeV, vol>>
    BY <1>2 DEF ReadPatch, AInv
  <2>2. QED
    BY <1>0, <1>2, <2>1, ReadPatchAttaches, TablesKept
<1>3. ASSUME NEW p \in Patches, UnloadPatch(p) PROVE Good'
  <2>1. Good /\ UNCHANGED <<route, routeV, vol>> /\ held' \subseteq held
    BY <1>3 DEF UnloadPatch, AInv
  <2>2. InUse' \subseteq Low
    BY <2>1 DEF Good, InUse, Volumes
  <2>3. QED
    BY <1>0, <1>3, <2>1, <2>2, UnloadPatchAttaches, TablesKept
<1>4. CASE UnloadAll
  <2>1. InUse' \subseteq Low
    BY <1>4 DEF UnloadAll, InUse, Volumes, Range
  <2>2. Exact'
    BY <1>4 DEF UnloadAll, Exact, Active, Routes
  <2>3. \A o \in Outs : route'[o] \cap routeV'[o] = {} /\ ~Attached("out", o)'
    BY <1>4 DEF UnloadAll, Attached
  <2>4. QED
    BY <2>1, <2>2, <2>3 DEF Good
<1>5. CASE Load
  <2>1. Good
    BY <1>5, LoadIs DEF AInv, LoadFacts
  <2>2. UNCHANGED <<route, routeV, place, vol>> /\ InUse' \subseteq Low
    BY <1>0, <1>5, <2>1, LoadFit
  <2>3. \A o \in Outs : Attached("out", o)' => Attached("out", o)
    BY <2>2 DEF Attached
  <2>4. QED
    BY <2>1, <2>2, <2>3, TablesKept
<1>6. CASE UNCHANGED vars
  <2>1. Good /\ UNCHANGED <<route, routeV, vol, held, place>>
    BY <1>6 DEF vars, AInv
  <2>2. InUse' \subseteq Low
    BY <2>1 DEF Good, InUse, Volumes
  <2>3. \A o \in Outs : Attached("out", o)' => Attached("out", o)
    BY <2>1 DEF Attached
  <2>4. QED
    BY <2>1, <2>2, <2>3, TablesKept
<1>7. QED
  BY <1>1, <1>2, <1>3, <1>4, <1>5, <1>6 DEF Next

LEMMA InitAInv == Init => AInv
  BY InitCInv, InitGood DEF AInv

LEMMA NextAInv == AInv /\ [Next]_vars => AInv'
<1> SUFFICES ASSUME AInv, [Next]_vars PROVE AInv'
  OBVIOUS
<1>1. CInv'
  BY NextCInv DEF AInv
<1>2. fit' => Good'
  BY <1>1, NextGood
<1>3. QED
  BY <1>1, <1>2 DEF AInv

\* Every volume route has exactly one control gpr and no other route has one,
\* through all commands, loads and patches, until a gpr beyond the word is in use.
THEOREM VolumeGprsAreExact == Spec => []VolumeGprsExact
<1>1. AInv => VolumeGprsExact
  BY DEF AInv, Good, Exact, VolumeGprsExact
<1>2. QED
  BY InitAInv, NextAInv, <1>1, PTL DEF Spec

\* An output line a program is attached to is always routed, until then.
THEOREM OutputsStayRouted == Spec => []OutputPatchRouted
<1>1. AInv => OutputPatchRouted
  BY DEF AInv, Good, OutputPatchRouted
<1>2. QED
  BY InitAInv, NextAInv, <1>1, PTL DEF Spec

\* No route is in both tables, until then: its input is not added twice to its
\* output.
THEOREM OneModeEach == Spec => []OneModePerRoute
<1>1. AInv => OneModePerRoute
  BY DEF AInv, Good, OneModePerRoute
<1>2. QED
  BY InitAInv, NextAInv, <1>1, PTL DEF Spec

\* What a route command returns says what the tables hold, until then.
THEOREM AnswersAreTrue == Spec => AnswersTrue
<1> DEFINE Says(i, o) ==
          LET plain == i \in route'[o]
              volume == i \in routeV'[o]
          IN /\ AddRoute(i, o, 0) => plain /\ ~volume
             /\ AddRouteV(i, o, 0) => volume /\ ~plain
             /\ DelRoute(i, o, 0) \/ DelRoute(i, o, -3) => ~plain /\ ~volume
             /\ DelRoute(i, o, -2) => plain \/ volume
<1>1. ASSUME AInv, fit, NEW i \in Ins, NEW o \in Outs PROVE Says(i, o)
  <2>1. CInv /\ Good
    BY <1>1 DEF AInv
  <2>2. /\ route \in [Outs -> SUBSET Ins] /\ routeV \in [Outs -> SUBSET Ins]
        /\ Plain(i, o) \/ Volume(i, o) \/ Off(i, o)
        /\ i \in routeV[o] => Found(<<i, o>>) # {}
    BY <2>1, OneRoute, RouteFacts
  <2>3. AddRoute(i, o, 0) => i \in route'[o] /\ i \notin routeV'[o]
    BY <2>2, TableType DEF AddRoute
  <2>4. AddRouteV(i, o, 0) => i \in routeV'[o] /\ i \notin route'[o]
    BY <2>2, TableType DEF AddRouteV
  <2>5. DelRoute(i, o, 0) \/ DelRoute(i, o, -3) => i \notin route'[o] /\ i \notin routeV'[o]
    BY <2>2, TableType DEF DelRoute, DelPlain, DelVolume, DelNothing, Plain, Volume, Off
  <2>6. DelRoute(i, o, -2) => i \in route'[o] \/ i \in routeV'[o]
    <3>1. DelPlain(i, o, -2) => i \in route'[o]
      BY DEF DelPlain
    <3>2. DelVolume(i, o, -2) => i \in routeV'[o]
      BY <2>2 DEF DelVolume
    <3>3. ~DelNothing(i, o, -2)
      BY DEF DelNothing
    <3>4. QED
      BY <3>1, <3>2, <3>3 DEF DelRoute
  <2>7. QED
    BY <2>3, <2>4, <2>5, <2>6
<1>2. AInv => [fit /\ fit' => \A i \in Ins, o \in Outs : Says(i, o)]_vars
  BY <1>1
<1>3. QED
  BY InitAInv, NextAInv, <1>2, PTL DEF Spec, AnswersTrue

-----------------------------------------------------------------------------
(* The commands implement RouteTable.                                      *)

ModeNow == [r \in Routes |-> Mode(r[1], r[2])]

\* What the modes m say of the tables r and v.
Shows(m, r, v) ==
    \A i \in Ins, o \in Outs : m[<<i, o>>] # "off" <=> i \in r[o] \cup v[o]

LEMMA ModeShows == Shows(ModeNow, route, routeV) /\ Shows(ModeNow', route', routeV')
<1>1. ASSUME NEW i \in Ins, NEW o \in Outs
      PROVE  ModeNow[<<i, o>>] = Mode(i, o) /\ ModeNow'[<<i, o>>] = Mode(i, o)'
  BY DEF ModeNow, Routes
<1>2. ASSUME NEW i \in Ins, NEW o \in Outs
      PROVE  /\ Mode(i, o) # "off" <=> i \in route[o] \cup routeV[o]
             /\ Mode(i, o)' # "off" <=> i \in route'[o] \cup routeV'[o]
  BY DEF Mode
<1>3. QED
  BY <1>1, <1>2 DEF Shows

\* Who is fed, and by whom, in both.
LEMMA FedAgrees ==
    ASSUME NEW r \in [Outs -> SUBSET Ins], NEW v \in [Outs -> SUBSET Ins], NEW m,
           Shows(m, r, v)
    PROVE  /\ \A i \in Ins : Table!Feeds(i, m) <=> \E o \in Outs : i \in r[o] \cup v[o]
           /\ \A o \in Outs : Table!Fed(o, m) <=> r[o] \cup v[o] # {}
  BY DEF Shows, Table!Feeds, Table!Fed

LEMMA LinesAgree ==
    ASSUME NEW side, NEW l PROVE l \in Table!Lines(side) <=> Attached(side, l)
  BY DEF Table!Lines, Attached

\* A command changes the mode of its own route only.
LEMMA ModeChange ==
    ASSUME NEW i \in Ins, NEW o \in Outs, OthersKept(i, o)
    PROVE  /\ <<i, o>> \in Table!Routes
           /\ ModeNow' = [ModeNow EXCEPT ![<<i, o>>] = Mode(i, o)']
           /\ UNCHANGED place
<1>1. ASSUME NEW r \in Routes \ {<<i, o>>} PROVE Mode(r[1], r[2])' = Mode(r[1], r[2])
  BY DEF OthersKept, Mode
<1>2. <<i, o>> \in Routes /\ <<i, o>>[1] = i /\ <<i, o>>[2] = o
  BY DEF Routes
<1>3. ModeNow' = [r \in Routes |-> Mode(r[1], r[2])']
  BY DEF ModeNow
<1>4. ASSUME NEW r \in Routes
      PROVE  Mode(r[1], r[2])' = [ModeNow EXCEPT ![<<i, o>>] = Mode(i, o)'][r]
  <2>1. CASE r = <<i, o>>
    BY <1>2, <2>1 DEF ModeNow
  <2>2. CASE r # <<i, o>>
    BY <1>1, <2>2 DEF ModeNow
  <2>3. QED
    BY <2>1, <2>2
<1>5. QED
  BY <1>2, <1>3, <1>4 DEF ModeNow, OthersKept, Routes, Table!Routes

LEMMA ModeValue ==
    ASSUME NEW i \in Ins, NEW o \in Outs
    PROVE  /\ Plain(i, o)' => Mode(i, o)' = "plain"
           /\ Volume(i, o)' => Mode(i, o)' = "volume"
           /\ Off(i, o)' => Mode(i, o)' = "off"
  BY DEF Plain, Volume, Off, Mode

LEMMA TablesStutter ==
    ASSUME UNCHANGED <<route, routeV, place>> PROVE [Table!ANext]_(Table!avars)
  BY DEF Table!avars, Mode

LEMMA RemovedDisconnects ==
    ASSUME CInv', NEW i \in Ins, NEW o \in Outs, OthersKept(i, o), Removed(i, o)
    PROVE  Table!Disconnect(<<i, o>>)
<1>1. ModeNow' = [ModeNow EXCEPT ![<<i, o>>] = "off"]
  BY ModeChange, ModeValue DEF Removed
<1>2. route' \in [Outs -> SUBSET Ins] /\ routeV' \in [Outs -> SUBSET Ins]
  BY DEF CInv, TypeOK
<1>3. /\ Table!Feeds(i, ModeNow') <=> \E q \in Outs : i \in route'[q] \cup routeV'[q]
      /\ Table!Fed(o, ModeNow') <=> route'[o] \cup routeV'[o] # {}
  BY <1>2, ModeShows, FedAgrees
<1>4. i \in Table!Lines("in") => Table!Feeds(i, ModeNow')
  BY <1>3, LinesAgree DEF Removed, InStays, OthersKept, Attached
<1>5. o \in Table!Lines("out") => Table!Fed(o, ModeNow')
  BY <1>3, LinesAgree DEF Removed, OutStays, OthersKept, Attached
<1>6. <<i, o>>[1] = i /\ <<i, o>>[2] = o /\ UNCHANGED place
  BY DEF OthersKept
<1>7. QED
  BY <1>1, <1>4, <1>5, <1>6 DEF Table!Disconnect, ModeNow

LEMMA CommandMaps ==
    ASSUME AInv, CInv', NEW i \in Ins, NEW o \in Outs, Command(i, o), fit'
    PROVE  [Table!ANext]_(Table!avars)
<1>1. OthersKept(i, o) /\ Good /\ CInv
  BY CommandKeeps DEF AInv
<1>2. InUse' \subseteq Low /\ UNCHANGED <<held, place>>
  BY DEF Command
<1>3. ASSUME NEW ret, AddRoute(i, o, ret) PROVE [Table!ANext]_(Table!avars)
  <2>1. Table!Connect(<<i, o>>, "plain")
    BY <1>1, <1>2, <1>3, AddRouteFit, ModeChange, ModeValue DEF Table!Connect, ModeNow
  <2>2. QED
    BY <1>1, <2>1, ModeChange DEF Table!ANext
<1>4. ASSUME NEW ret, AddRouteV(i, o, ret) PROVE [Table!ANext]_(Table!avars)
  <2>1. Table!Connect(<<i, o>>, "volume")
    BY <1>1, <1>2, <1>4, AddRouteVFit, ModeChange, ModeValue DEF Table!Connect, ModeNow
  <2>2. QED
    BY <1>1, <2>1, ModeChange DEF Table!ANext
<1>5. ASSUME NEW ret, DelRoute(i, o, ret) PROVE [Table!ANext]_(Table!avars)
  <2>1. CASE Removed(i, o)
    <3>1. Table!Disconnect(<<i, o>>)
      BY <1>1, <2>1, RemovedDisconnects
    <3>2. QED
      BY <1>1, <3>1, ModeChange DEF Table!ANext
  <2>2. CASE RefusedOrNone(i, o, ret)
    <3>1. UNCHANGED <<route, routeV, place>>
      BY <1>2, <2>2 DEF RefusedOrNone
    <3>2. QED
      BY <3>1, TablesStutter
  <2>3. QED
    BY <1>1, <1>2, <1>5, <2>1, <2>2, DelRouteFit
<1>6. QED
  BY <1>3, <1>4, <1>5 DEF Command

LEMMA ReadPatchMaps ==
    ASSUME CInv, NEW p \in Patches, NEW side \in {"in", "out"},
           NEW L \in SUBSET (IF side = "in" THEN Ins ELSE Outs), ReadPatch(p, side, L)
    PROVE  [Table!ANext]_(Table!avars)
<1>1. CASE place' = [place EXCEPT ![p] = [side |-> side, lines |-> L]]
  <2>1. UNCHANGED ModeNow
    BY DEF ReadPatch, ModeNow, Mode
  <2>2. ASSUME side = "out", NEW o \in L PROVE Table!Fed(o, ModeNow)
    <3>1. o \in Outs /\ OutRouted(o)
      BY <2>2 DEF ReadPatch, MayAttach
    <3>2. route \in [Outs -> SUBSET Ins] /\ routeV \in [Outs -> SUBSET Ins]
      BY DEF CInv, TypeOK
    <3>3. QED
      BY <3>1, <3>2, ModeShows, FedAgrees DEF OutRouted
  <2>3. Table!Attach(p, side, L)
    BY <1>1, <2>1, <2>2 DEF Table!Attach, ReadPatch, ModeNow
  <2>4. QED
    BY <2>3 DEF Table!ANext
<1>2. CASE UNCHANGED place
  BY <1>2, TablesStutter DEF ReadPatch
<1>3. QED
  BY <1>1, <1>2 DEF ReadPatch

\* Every step that fits is one of RouteTable, or none.
LEMMA StepMaps == ASSUME AInv, CInv', [Next]_vars, fit' PROVE [Table!ANext]_(Table!avars)
<1>1. ASSUME NEW i \in Ins, NEW o \in Outs, Command(i, o) PROVE [Table!ANext]_(Table!avars)
  BY <1>1, CommandMaps
<1>2. ASSUME NEW p \in Patches, NEW L \in SUBSET Ins, ReadPatch(p, "in", L)
      PROVE  [Table!ANext]_(Table!avars)
  BY <1>2, ReadPatchMaps DEF AInv
<1>3. ASSUME NEW p \in Patches, NEW L \in SUBSET Outs, ReadPatch(p, "out", L)
      PROVE  [Table!ANext]_(Table!avars)
  BY <1>3, ReadPatchMaps DEF AInv
<1>4. ASSUME NEW p \in Patches, UnloadPatch(p) PROVE [Table!ANext]_(Table!avars)
  <2>1. Table!Detach(p)
    BY <1>4 DEF UnloadPatch, Table!Detach, Mode
  <2>2. QED
    BY <2>1 DEF Table!ANext
<1>5. CASE UnloadAll
  <2>1. Table!Clear
    BY <1>5 DEF UnloadAll, Table!Clear, Mode, Routes, Table!Routes
  <2>2. QED
    BY <2>1 DEF Table!ANext
<1>6. CASE Load
  <2>1. UNCHANGED <<route, routeV, place>>
    BY <1>6, LoadIs DEF LoadFacts
  <2>2. QED
    BY <2>1, TablesStutter
<1>7. CASE UNCHANGED vars
  BY <1>7, TablesStutter DEF vars
<1>8. QED
  BY <1>1, <1>2, <1>3, <1>4, <1>5, <1>6, <1>7 DEF Next

\* The route commands implement RouteTable until a gpr beyond the word is in use:
\* each connects the route as it says, or removes it and leaves every attached
\* program connected.
THEOREM KeepsTableHolds == Spec => KeepsTable
<1>1. Init => Table!AInit
  BY DEF Init, Table!AInit, Mode, Routes, Table!Routes
<1>2. AInv /\ AInv' /\ [Next]_vars => [fit' => [Table!ANext]_(Table!avars)]_vars
  BY StepMaps DEF AInv
<1>3. QED
  BY <1>1, <1>2, InitAInv, NextAInv, PTL DEF Spec, KeepsTable
=============================================================================
