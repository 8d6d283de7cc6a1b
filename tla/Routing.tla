------------------------------ MODULE Routing ------------------------------
(***************************************************************************)
(* The route commands of the patch manager (dsp_add_route(),               *)
(* dsp_add_route_v(), dsp_del_route() of mixer/lib/dsp.c), which share the *)
(* gprs with the programs that are loaded and unloaded in between.         *)
(*                                                                         *)
(* A route with volume control has a control gpr of the routing patch,     *)
(* found by its name, "Vol in:out", among the registers whose bit is set   *)
(* in the patch's gpr_used bitmap.  The bit functions use the first word   *)
(* of it only (BIT_WORD() is 0, see GprPool): the bit of a register beyond *)
(* the word is never set, and it is tested modulo the word.  So a control  *)
(* gpr out there is found only while the routing patch also has the        *)
(* register whose bit is tested, and a command that does not find it       *)
(* fails half way.                                                         *)
(*                                                                         *)
(* GprPool models how registers are counted and shared; here they are in   *)
(* use or free.  Left out: an IO gpr beyond the word, freed through such a *)
(* bit while a program still refers to it, and taken again as a control    *)
(* gpr, is freed once more by match_io().                                  *)
(***************************************************************************)
EXTENDS Integers, FiniteSets, Functions

CONSTANTS
    NumIns, NumOuts,  \* DSP_NUM_INPUTS and DSP_NUM_OUTPUTS: 32 in the code
    NumGprs,          \* DSP_NUM_GPRS: 256 in the code
    WordBits,         \* BITS_PER_INT: 32 in the code
    Patches,          \* the patches the files hold
    Detached          \* the place of a patch that is not loaded

Ins == 0 .. NumIns - 1
Outs == 0 .. NumOuts - 1
Routes == Ins \X Outs
Gpr == 0 .. NumGprs - 1
Low == 0 .. WordBits - 1   \* the registers that have a bit of their own

\* Bound: a register beyond twice the word, whose bit mask is an undefined
\* shift, is never taken.
Defined == {g \in Gpr : g < 2 * WordBits}

ASSUME RoutingAssumption ==
    /\ NumIns \in Nat \ {0}
    /\ NumOuts \in Nat \ {0}
    /\ NumGprs \in Nat
    /\ WordBits \in Nat \ {0}
    /\ WordBits < NumGprs

VARIABLES
    route,   \* rpatch.route[out]: the inputs routed without volume control
    routeV,  \* rpatch.route_v[out]: the inputs routed with volume control
    vol,     \* the control gprs called after every route
    held,    \* the gprs in use by all other code
    used,    \* the bits set in rpatch.gpr_used
    place,   \* the list every patch is in and its lines, or Detached
    fit      \* history: no gpr beyond the word has been in use since the start

vars == <<route, routeV, vol, held, used, place, fit>>

Init == /\ route = [o \in Outs |-> {}]
        /\ routeV = [o \in Outs |-> {}]
        /\ vol = [r \in Routes |-> {}]
        /\ held = {}
        /\ used = {}
        /\ place = [p \in Patches |-> Detached]
        /\ fit = TRUE

-----------------------------------------------------------------------------
(* The control gprs.                                                       *)

Volumes == UNION Range(vol)
InUse == held \cup Volumes
Free == Gpr \ InUse

First(S) == CHOOSE g \in S : \A h \in S : g <= h

\* Mutant: the word that is tested is never written.
TestNoBit(b, g) == FALSE

TestBit(b, g) == g % WordBits \in b

\* find_control_gpr_addr(): the registers it finds by the route's name.
Found(r) == {g \in vol[r] : TestBit(used, g)}

\* Mutants: the gpr is not freed; its bit stays set.
FreeNothing(r) == UNCHANGED <<vol, used>>
FreeButBit(r) == /\ vol' = [vol EXCEPT ![r] = @ \ {First(Found(r))}]
                 /\ UNCHANGED used

FreeVolume(r) ==
    /\ vol' = [vol EXCEPT ![r] = @ \ {First(Found(r))}]
    /\ used' = used \ {First(Found(r))}

TakeVolume(r) ==
    /\ First(Free) \in Defined
    /\ vol' = [vol EXCEPT ![r] = @ \cup {First(Free)}]
    /\ used' = used \cup ({First(Free)} \cap Low)

-----------------------------------------------------------------------------
(* The tables.                                                             *)

Attached(side, l) ==
    \E p \in Patches : /\ place[p] # Detached
                       /\ place[p].side = side
                       /\ l \in place[p].lines

\* Mutants: the programs of the wrong list are looked at.
OutStaysWrongList(r, v, o) == r[o] \cup v[o] # {} \/ ~Attached("in", o)
InStaysWrongList(r, v, i) == \/ ~Attached("out", i)
                             \/ \E o \in Outs : i \in r[o] \cup v[o]

\* The tests of dsp_del_route() on the tables r and v left when a route from
\* i to o is taken out of them.
OutStays(r, v, o) == r[o] \cup v[o] # {} \/ ~Attached("out", o)
InStays(r, v, i) == ~Attached("in", i) \/ \E o \in Outs : i \in r[o] \cup v[o]

InRouted(i) == \E o \in Outs : i \in route[o] \cup routeV[o]
OutRouted(o) == route[o] \cup routeV[o] # {}

\* Mutant: a bit is not set.
WithNot(t, i, o) == t

With(t, i, o) == [t EXCEPT ![o] = @ \cup {i}]
Without(t, i, o) == [t EXCEPT ![o] = @ \ {i}]

-----------------------------------------------------------------------------
(* The route commands; ret is what they return.                            *)

\* The bit in route is set before the control gpr is looked for.
AddRoute(i, o, ret) ==
    /\ route' = With(route, i, o)
    /\ \/ /\ i \notin routeV[o]
          /\ ret = 0
          /\ UNCHANGED <<routeV, vol, used>>
       \/ /\ i \in routeV[o]
          /\ Found(<<i, o>>) = {}
          /\ ret = -1
          /\ UNCHANGED <<routeV, vol, used>>
       \/ /\ i \in routeV[o]
          /\ Found(<<i, o>>) # {}
          /\ FreeVolume(<<i, o>>)
          /\ routeV' = Without(routeV, i, o)
          /\ ret = 0

\* The bit in route_v is set before the control gpr is allocated.
AddRouteV(i, o, ret) ==
    /\ routeV' = With(routeV, i, o)
    /\ \/ /\ i \notin routeV[o]
          /\ Free # {}
          /\ TakeVolume(<<i, o>>)
          /\ route' = Without(route, i, o)
          /\ ret = 0
       \/ /\ i \notin routeV[o]
          /\ Free = {}
          /\ ret = -1
          /\ UNCHANGED <<route, vol, used>>
       \/ /\ i \in routeV[o]
          /\ route' = Without(route, i, o)
          /\ ret = 0
          /\ UNCHANGED <<vol, used>>

DelPlain(i, o, ret) ==
    LET r == Without(route, i, o)
        stays == OutStays(r, routeV, o) /\ InStays(r, routeV, i)
    IN /\ i \in route[o]
       /\ \/ stays /\ route' = r /\ ret = 0
          \/ ~stays /\ ret = -2 /\ UNCHANGED route
       /\ UNCHANGED <<routeV, vol, used>>

\* The bit is cleared before the control gpr is looked for.
DelVolume(i, o, ret) ==
    LET v == Without(routeV, i, o)
        stays == OutStays(route, v, o) /\ InStays(route, v, i)
    IN /\ i \notin route[o]
       /\ i \in routeV[o]
       /\ \/ /\ Found(<<i, o>>) = {}
             /\ routeV' = v
             /\ ret = -2
             /\ UNCHANGED <<vol, used>>
          \/ /\ Found(<<i, o>>) # {} /\ stays
             /\ routeV' = v
             /\ FreeVolume(<<i, o>>)
             /\ ret = 0
          \/ /\ Found(<<i, o>>) # {} /\ ~stays
             /\ ret = -2
             /\ UNCHANGED <<routeV, vol, used>>
       /\ UNCHANGED route

DelNothing(i, o, ret) ==
    /\ i \notin route[o] \cup routeV[o]
    /\ ret = -3
    /\ UNCHANGED <<route, routeV, vol, used>>

DelRoute(i, o, ret) == DelPlain(i, o, ret) \/ DelVolume(i, o, ret) \/ DelNothing(i, o, ret)

Command(i, o) ==
    /\ UNCHANGED <<held, place>>
    /\ \E ret \in -3 .. 0 : AddRoute(i, o, ret) \/ AddRouteV(i, o, ret) \/ DelRoute(i, o, ret)
    /\ fit' = (fit /\ InUse' \subseteq Low)

-----------------------------------------------------------------------------
(* The programs: loading one, unloading one, unloading all, and dsp_load() *)
(* of the whole.                                                           *)

\* The searches take the first register that is free: the sets they may have
\* taken from the free registers F.
Takes(F) == {N \in SUBSET (F \cap Defined) : \A g \in N, h \in F \ N : g < h}

\* The checks of dsp_read_patch(): an input line must NOT be routed, an
\* output line must be.
MayAttach(side, L) == \/ side = "in" /\ \A i \in L : ~InRouted(i)
                      \/ side = "out" /\ \A o \in L : OutRouted(o)

\* dsp_read_patch().  read_patch_header() may fail after it has taken gprs,
\* which are then lost.
ReadPatch(p, side, L) ==
    /\ place[p] = Detached
    /\ MayAttach(side, L)
    /\ \E N \in Takes(Free) : held' = held \cup N
    /\ \/ place' = [place EXCEPT ![p] = [side |-> side, lines |-> L]]
       \/ held' # held /\ UNCHANGED place
    /\ UNCHANGED <<route, routeV, vol, used>>
    /\ fit' = (fit /\ InUse' \subseteq Low)

\* What the routing patch has too stays in use.
UnloadPatch(p) ==
    /\ place[p] # Detached
    /\ place' = [place EXCEPT ![p] = Detached]
    /\ held' \in SUBSET held
    /\ held \cap used \subseteq held'
    /\ UNCHANGED <<route, routeV, vol, used, fit>>

UnloadAll ==
    /\ route' = [o \in Outs |-> {}]
    /\ routeV' = [o \in Outs |-> {}]
    /\ vol' = [r \in Routes |-> {}]
    /\ held' = {}
    /\ used' = {}
    /\ place' = [p \in Patches |-> Detached]
    /\ fit' = TRUE

Active(r) == r[1] \in routeV[r[2]]
Before(r, s) == r[2] < s[2] \/ (r[2] = s[2] /\ r[1] < s[1])

\* construct_routing() in dsp_load() looks for the control gpr of every volume
\* route, output by output and input by input, and makes one where it finds
\* none.  Of its own bits only those of the control gprs are sure to be set
\* meanwhile (Kept): those of its IO gprs come and go with them.
Kept == used \cap Volumes
NotFoundBy(b) == {r \in Routes : Active(r) /\ \A g \in vol[r] : ~TestBit(b, g)}

\* K are the gprs other code keeps, IO those taken for the routing code, which
\* are released when all is loaded, and at[r] is the control gpr made for r.  A
\* search fails, and the remaining routes get none, only while registers beyond
\* the word are in use.
LoadWith(K, made, at, IO) ==
    LET new == IO \cup Range(at)
        during == K \cup Volumes \cup new
        missing == NotFoundBy(Kept \cup K \cup new) \ made
    IN /\ \A r, s \in made : Before(r, s) => at[r] < at[s]
       /\ IO \cap Range(at) = {}
       /\ new \in Takes(Gpr \ (K \cup Volumes))
       /\ \A r \in missing, s \in made : Before(s, r)
       /\ missing = {} \/ ~(during \subseteq Low)
       /\ vol' = [r \in Routes |-> vol[r] \cup {at[s] : s \in made \cap {r}}]
       /\ held' \in SUBSET (K \cup IO)
       /\ K \cap Low \subseteq held'
       /\ \E T \in SUBSET (held' \cap Low) : used' = Kept \cup (Range(at) \cap Low) \cup T
       /\ fit' = (fit /\ during \subseteq Low)
       /\ UNCHANGED <<route, routeV, place>>

Load == \E K \in SUBSET held, made \in SUBSET NotFoundBy(Kept) :
           \E at \in [made -> Free \cup held], IO \in SUBSET (Free \cup held) :
              LoadWith(K, made, at, IO)

Next ==
    \/ \E i \in Ins, o \in Outs : Command(i, o)
    \/ \E p \in Patches : \/ \E L \in SUBSET Ins \ {{}} : ReadPatch(p, "in", L)
                          \/ \E L \in SUBSET Outs \ {{}} : ReadPatch(p, "out", L)
                          \/ UnloadPatch(p)
    \/ UnloadAll
    \/ Load

Spec == Init /\ [][Next]_vars

-----------------------------------------------------------------------------
(* Properties.  Those that depend on control gprs being found are stated   *)
(* for as long as no register beyond the word was in use.                  *)

Places == [side : {"in"}, lines : SUBSET Ins \ {{}}]
          \cup [side : {"out"}, lines : SUBSET Outs \ {{}}]

\* Every variable has its type, and the bits set are those of registers in use.
TypeOK ==
    /\ route \in [Outs -> SUBSET Ins]
    /\ routeV \in [Outs -> SUBSET Ins]
    /\ vol \in [Routes -> SUBSET Gpr]
    /\ held \in SUBSET Gpr
    /\ used \in SUBSET (Low \cap InUse)
    /\ place \in [Patches -> Places \cup {Detached}]
    /\ fit \in BOOLEAN

\* No register is the control gpr of two routes, or of a route and in use by
\* other code; and in the first word none is left behind or made twice: there
\* a route has one at most, and only an active volume route has one.
NoSpareVolumeGpr ==
    \A r \in Routes :
       /\ vol[r] \cap held = {}
       /\ \A s \in Routes \ {r} : vol[r] \cap vol[s] = {}
       /\ \A g, h \in vol[r] \cap Low : g = h
       /\ vol[r] \cap Low # {} => Active(r)

\* A volume route has its control gpr, exactly one, and no other route has one.
VolumeGprsExact ==
    fit => \A r \in Routes : IF Active(r) THEN \E g \in Low : vol[r] = {g}
                                           ELSE vol[r] = {}

\* dsp.h: route is the "bitmap of active routes whithout volume control" and
\* route_v that of the routes with it: no route is in both (its input would be
\* added twice to the output).
OneModePerRoute == fit => \A o \in Outs : route[o] \cap routeV[o] = {}

\* What a route command answers is so: 0 means the route is now plain, with
\* volume control or removed, -3 that there was none, -2 that it is still
\* there (dsp.h, "functions to delete dsp routes returns").
AnswersTrue ==
    [][fit /\ fit' => \A i \in Ins, o \in Outs :
          LET plain == i \in route'[o]
              volume == i \in routeV'[o]
          IN /\ AddRoute(i, o, 0) => plain /\ ~volume
             /\ AddRouteV(i, o, 0) => volume /\ ~plain
             /\ DelRoute(i, o, 0) \/ DelRoute(i, o, -3) => ~plain /\ ~volume
             /\ DelRoute(i, o, -2) => plain \/ volume]_vars

\* dsp_del_route(): "don't remove the route if it is the last one connected to
\* a dsp program": an output line a program is attached to is always routed.
OutputPatchRouted == fit => \A o \in Outs : Attached("out", o) => OutRouted(o)

Mode(i, o) == IF i \in routeV[o] THEN "volume"
              ELSE IF i \in route[o] THEN "plain" ELSE "off"

Table == INSTANCE RouteTable WITH mode <- [r \in Routes |-> Mode(r[1], r[2])]

\* The commands keep the promise of RouteTable: each one connects the route as
\* it says, or removes it and leaves every attached program connected.
KeepsTable == Table!AInit /\ [][fit' => [Table!ANext]_(Table!avars)]_vars
=============================================================================
