------------------------------- MODULE GprPool -------------------------------
(***************************************************************************)
(* The gpr allocator of the patch manager (mixer/lib/dsp.c 148-394).       *)
(*                                                                         *)
(* The manager keeps one record per register (its type and a u8 usage      *)
(* count), a two-slot table of the IO registers of every line, and one     *)
(* gpr_used bitmap per program.  A program's code holds the addresses the  *)
(* get_*_gpr() functions returned (addr_change[] is written into it), so   *)
(* `code' records the registers the program really uses, whatever its      *)
(* bitmap says.                                                            *)
(*                                                                         *)
(* The bitmaps are driven by the bit functions of mixer/include/dsp.h,     *)
(* whose BIT_WORD() is 0: only the first word of a bitmap is ever used.    *)
(* test_bit() reads the bit modulo the word, but set_bit() and clear_bit() *)
(* of a register beyond the word do nothing: the mask 1UL << n is          *)
(* truncated.  Beyond twice the word (LP64) that shift is undefined; the   *)
(* compiled code shifts modulo 64 or gives 0 (Wrapped).                    *)
(*                                                                         *)
(* So the allocator is exact for the registers of the first word, and only *)
(* as long as no register of an undefined shift is taken and no count goes *)
(* beyond its u8; `fit' records whether that was so since the start.       *)
(***************************************************************************)
EXTENDS Integers, FiniteSets, GprKinds

CONSTANTS
    NumGprs,    \* DSP_NUM_GPRS: 256 in the code
    WordBits,   \* BITS_PER_INT: 32 in the code
    UsageMax,   \* the largest value of the u8 usage: 255 in the code
    Patches,    \* the patches (struct dsp_patch)
    Routing,    \* the routing patch (struct dsp_rpatch)
    Lines,      \* the input/output line pairs, which share the table of IO gprs
    Names,      \* names of control gprs
    Values,     \* values of constants that are not hardwired
    NoTag,      \* the tag of a free, STATIC or DYNAMIC register
    Wrapped     \* the registers whose undefined shift wraps round to a bit

Gpr == 0 .. NumGprs - 1
Bits == 0 .. WordBits - 1
Owners == Patches \cup {Routing}
Slots == {0, 1}
Low == {g \in Gpr : g < WordBits}          \* registers with a bit of their own
Undefined == {g \in Gpr : g >= 2 * WordBits}  \* registers of an undefined shift
NoGpr == -1
Tags == Lines \cup Names \cup Values \cup {NoTag}

ASSUME PoolAssumption ==
    /\ NumGprs \in Nat \ {0}
    /\ WordBits \in Nat \ {0}
    /\ UsageMax \in Nat \ {0}

ASSUME WrapAssumption == Wrapped \subseteq Undefined

ASSUME OwnersAssumption ==
    /\ IsFiniteSet(Patches)
    /\ Routing \notin Patches

ASSUME TagAssumption == NoTag \notin Lines \cup Names \cup Values

VARIABLES
    gpr,    \* mgr->gpr[]: type, usage, and the tag: line, name or value
    used,   \* the gpr_used bitmap of every program (its first word)
    io,     \* mgr->io[line][0..1]
    code,   \* the registers the code of every program refers to
    fit     \* history: since the last start all was within the bounds of Fits

vars == <<gpr, used, io, code, fit>>

FreeGprRec == [type |-> "NULL", usage |-> 0, tag |-> NoTag]

Init == /\ gpr = [g \in Gpr |-> FreeGprRec]
        /\ used = [o \in Owners |-> {}]
        /\ io = [l \in Lines |-> [s \in Slots |-> NoGpr]]
        /\ code = [o \in Owners |-> {}]
        /\ fit = TRUE

-----------------------------------------------------------------------------
(* Bits, counts, the first register of a set.                              *)

\* Mutants: the test fails; the bit is not set.
TestNoBit(b, g) == FALSE
SetNoBit(b, g) == b

\* BIT_MASK(g) as it meets the word: the bits set_bit() and clear_bit() change.
Mask(g) == IF g \in Low THEN {g}
           ELSE IF g \in Wrapped THEN {g % WordBits} ELSE {}

TestBit(b, g) == g % WordBits \in b
SetBit(b, g) == b \cup Mask(g)

\* test_and_set_bit() looks with the mask: it never finds a truncated one set.
TestAndSetBit(b, g) == Mask(g) \cap b # {}

\* Mutant: another user is not counted.
IncNot(u) == u

Inc(u) == IF u = UsageMax THEN 0 ELSE u + 1
Dec(u) == IF u = 0 THEN UsageMax ELSE u - 1

\* The for loops over mgr->gpr[] stop at the first register that matches.
First(S) == CHOOSE g \in S : \A h \in S : g <= h

OfType(t) == {g \in Gpr : gpr[g].type = t}
FreeGprs == OfType("NULL")

-----------------------------------------------------------------------------
(* Getting registers.                                                      *)

\* Mutant: the usage is counted twice.
BindTwice(o, g, t, tag, u) ==
    /\ gpr' = [gpr EXCEPT ![g] = [type |-> t, usage |-> u + 1, tag |-> tag]]
    /\ used' = [used EXCEPT ![o] = SetBit(@, g)]
    /\ code' = [code EXCEPT ![o] = @ \cup {g}]

\* Program o gets register g, whose usage becomes u, and its code uses it.
Bind(o, g, t, tag, u) ==
    /\ gpr' = [gpr EXCEPT ![g] = [type |-> t, usage |-> u, tag |-> tag]]
    /\ used' = [used EXCEPT ![o] = SetBit(@, g)]
    /\ code' = [code EXCEPT ![o] = @ \cup {g}]

\* A free register counts from 0, whatever usage it was left with.
BindFree(o, t, tag) ==
    /\ FreeGprs # {}
    /\ Bind(o, First(FreeGprs), t, tag, 1)

Share(o, g) == Bind(o, g, gpr[g].type, gpr[g].tag, Inc(gpr[g].usage))

GetStatic(o) == BindFree(o, "STATIC", NoTag) /\ UNCHANGED io

GetDynamic(o) ==
    LET overlap == {g \in OfType("DYNAMIC") : /\ ~TestBit(used[o], g)
                                              /\ gpr[g].usage < UsageMax}
    IN /\ \/ overlap # {} /\ Share(o, First(overlap))
          \/ overlap = {} /\ BindFree(o, "DYNAMIC", NoTag)
       /\ UNCHANGED io

\* Program o's code refers to register g, and nothing is recorded of it.
ReferTo(o, g) == /\ code' = [code EXCEPT ![o] = @ \cup {g}]
                 /\ UNCHANGED <<gpr, used, io>>

\* A register whose bit is found set is taken to be the program's already.
GetConstant(o, v) ==
    LET same == {g \in OfType("CONSTANT") : /\ gpr[g].tag = v
                                            /\ gpr[g].usage < UsageMax}
        candidates == IF same # {} THEN same ELSE FreeGprs
        g == First(candidates)
    IN /\ candidates # {}
       /\ \/ TestAndSetBit(used[o], g) /\ ReferTo(o, g)
          \/ /\ ~TestAndSetBit(used[o], g)
             /\ Bind(o, g, "CONSTANT", v,
                     IF same # {} THEN Inc(gpr[g].usage) ELSE 1)
             /\ UNCHANGED io

\* The control gpr called n that program src holds: find_control_gpr_addr().
FindControl(src, n) ==
    {g \in OfType("CONTROL") : TestBit(used[src], g) /\ gpr[g].tag = n}

\* A control gpr of its own for program o.
GetControl(o, n) == BindFree(o, "CONTROL", n) /\ UNCHANGED io

\* The control gpr n of another instance src of the patch o is shared.
ShareControl(o, src, n) ==
    /\ src # o
    /\ FindControl(src, n) # {}
    /\ Share(o, First(FindControl(src, n)))
    /\ UNCHANGED io

\* The slots of line l whose register program o does not have yet.
SharedSlots(o, l) == {s \in Slots : io[l][s] >= 0 /\ ~TestBit(used[o], io[l][s])}
EmptySlots(l) == {s \in Slots : io[l][s] < 0}

GetIo(o, l) ==
    \/ /\ SharedSlots(o, l) # {}
       /\ LET g == io[l][First(SharedSlots(o, l))]
          IN Bind(o, g, "IO", l, Inc(gpr[g].usage))
       /\ UNCHANGED io
    \/ /\ SharedSlots(o, l) = {}
       /\ EmptySlots(l) # {}
       /\ BindFree(o, "IO", l)
       /\ io' = [io EXCEPT ![l][First(EmptySlots(l))] = First(FreeGprs)]

\* get_gpr(): a register that is already allocated, by its address.
GetGpr(o, g) ==
    \/ TestBit(used[o], g) /\ ReferTo(o, g)
    \/ /\ ~TestBit(used[o], g)
       /\ gpr[g].type # "NULL"
       /\ ~(gpr[g].usage = 1 /\ gpr[g].type = "STATIC")
       /\ gpr[g].usage # UsageMax
       /\ Share(o, g)
       /\ UNCHANGED io

-----------------------------------------------------------------------------
(* Giving registers back.                                                  *)

\* Mutant: the use before the last one frees.
FreedEarly(S) == {g \in S : Dec(gpr[g].usage) <= 1}

\* The registers of S are each used once less; the last use frees.
Freed(S) == {g \in S : Dec(gpr[g].usage) = 0}

GprAfter(S) ==
    [g \in Gpr |-> IF g \in Freed(S) THEN FreeGprRec
                   ELSE IF g \in S THEN [gpr[g] EXCEPT !.usage = Dec(@)]
                   ELSE gpr[g]]

\* Mutant: only slot 0 is looked at.
IoAfterFirst(S) ==
    [l \in Lines |->
        [s \in Slots |-> IF s = 0 /\ io[l][0] \in Freed(S)
                           THEN NoGpr ELSE io[l][s]]]

\* A freed IO register that is not in slot 0 of its line is taken to be in
\* slot 1.
IoAfter(S) ==
    [l \in Lines |->
        LET gone == {g \in Freed(S) : gpr[g].type = "IO" /\ gpr[g].tag = l}
        IN [s \in Slots |->
              IF \/ s = 0 /\ io[l][0] \in gone
                 \/ s = 1 /\ gone \ {io[l][0]} # {}
                THEN NoGpr ELSE io[l][s]]]

\* free_gpr() on every register of S.
Release(o, S) ==
    /\ gpr' = GprAfter(S)
    /\ io' = IoAfter(S)
    /\ used' = [used EXCEPT ![o] = @ \ UNION {Mask(g) : g \in S}]
    /\ code' = [code EXCEPT ![o] = @ \ S]

FreeGpr(o, g) ==
    /\ TestBit(used[o], g)
    /\ Release(o, {g})

\* free_all_gprs() in dsp_unload_patch(): the bits are cleared in the first
\* word, so the registers beyond it are never reached; the patch is gone.
FreeAll(o) ==
    LET S == {g \in Gpr : g \in used[o]}
    IN /\ gpr' = GprAfter(S)
       /\ io' = IoAfter(S)
       /\ used' = [used EXCEPT ![o] = {}]
       /\ code' = [code EXCEPT ![o] = {}]

\* The loop over all gprs that gives back the IO and DYNAMIC gprs of the
\* routing patch, whose code is built anew.  A register is reached when the bit
\* it is tested with is set and no register before it cleared that bit.
ReleaseTemps ==
    LET temp == {g \in Gpr : gpr[g].type \in Temporary}
        reached == {g \in temp :
                      /\ TestBit(used[Routing], g)
                      /\ \A h \in temp : h < g => g % WordBits \notin Mask(h)}
    IN reached # {} /\ Release(Routing, reached)

\* dsp_unload_all(): the lists, the records and the table start afresh.
UnloadAll ==
    /\ gpr' = [g \in Gpr |-> FreeGprRec]
    /\ used' = [o \in Owners |-> {}]
    /\ io' = [l \in Lines |-> [s \in Slots |-> NoGpr]]
    /\ code' = [o \in Owners |-> {}]
    /\ fit' = TRUE

\* The next process reads records and bitmaps back from the driver, where
\* dsp_load() put them; init_io_gprs_table() makes the table anew, lowest
\* register first, or exits.  (What a process did not load is lost with it:
\* the next one starts from an earlier state of this model.)
IoGprsOf(l) == {g \in OfType("IO") : gpr[g].tag = l}
FirstOrNone(S) == IF S = {} THEN NoGpr ELSE First(S)

Restart ==
    /\ \A l \in Lines : Cardinality(IoGprsOf(l)) <= Cardinality(Slots)
    /\ io' = [l \in Lines |->
                LET G == IoGprsOf(l)
                IN [s \in Slots |-> IF s = 0 THEN FirstOrNone(G)
                                    ELSE FirstOrNone(G \ {FirstOrNone(G)})]]
    /\ UNCHANGED <<gpr, used, code>>

-----------------------------------------------------------------------------
(* What the clients ask for: a patch when it is read, threaded into its    *)
(* lines (IO gprs are exchanged) and unloaded; the routing patch when a    *)
(* volume route is added or removed and when its code is built.            *)

IoGprOf(o) == {g \in code[o] : gpr[g].type = "IO"}

\* The names of the controls of one patch differ.
HasControl(o, n) == \E g \in code[o] : gpr[g].type = "CONTROL" /\ gpr[g].tag = n

PatchStep(o) ==
    \/ \E l \in Lines : GetIo(o, l)
    \/ GetDynamic(o)
    \/ GetStatic(o)
    \/ \E n \in Names :
          /\ ~HasControl(o, n)
          /\ GetControl(o, n) \/ \E src \in Owners : ShareControl(o, src, n)
    \/ \E v \in Values : GetConstant(o, v)
    \/ \E g \in OfType("IO") : GetGpr(o, g)
    \/ \E g \in IoGprOf(o) : FreeGpr(o, g)
    \/ code[o] # {} /\ FreeAll(o)

RoutingStep ==
    \/ \E l \in Lines : GetIo(Routing, l)
    \/ GetDynamic(Routing)
    \/ \E n \in Names : GetControl(Routing, n)
    \/ \E g \in OfType("IO") : GetGpr(Routing, g)
    \/ \E g \in OfType("CONTROL") : FreeGpr(Routing, g)
    \/ ReleaseTemps

Users(g) == {o \in Owners : g \in code[o]}

\* What the allocator can manage: every shift is defined, every count a u8.
Fits == /\ \A g \in Undefined : gpr[g].type = "NULL"
        /\ \A g \in Low : Cardinality(Users(g)) <= UsageMax

Step == \/ \E o \in Patches : PatchStep(o)
        \/ RoutingStep
        \/ Restart

Next == \/ Step /\ fit' = (fit /\ Fits')
        \/ UnloadAll

Spec == Init /\ [][Next]_vars

-----------------------------------------------------------------------------
(* Properties.                                                             *)

\* Every variable has its type; the usage count is a u8.
TypeOK ==
    /\ gpr \in [Gpr -> [type : GprTypes, usage : 0 .. UsageMax, tag : Tags]]
    /\ used \in [Owners -> SUBSET Bits]
    /\ io \in [Lines -> [Slots -> Gpr \cup {NoGpr}]]
    /\ code \in [Owners -> SUBSET Gpr]
    /\ fit \in BOOLEAN

\* A program's bitmap names exactly the registers of the first word its code
\* refers to, also while registers without a bit are taken: what unloading the
\* program gives back is what it took.
BitmapExact ==
    fit => \A o \in Owners, g \in Low : g \in code[o] <=> TestBit(used[o], g)

\* dsp.h: usage is the "number of patches using this gpr" (the routing patch
\* included), and a register is free when, and only when, nobody uses it.
UsersCounted ==
    fit => \A g \in Low : /\ gpr[g].usage = Cardinality(Users(g))
                          /\ gpr[g].type = "NULL" <=> gpr[g].usage = 0

\* The table of IO gprs holds each IO register once, under its own line, and
\* nothing else: free_gpr() may take a register that is not in slot 0 to be in
\* slot 1, and get_io_gpr() never hands out a register that was freed.  This
\* holds whatever the bitmaps and counts say.
IoTableExact ==
    /\ \A l \in Lines, s \in Slots :
          io[l][s] # NoGpr => /\ gpr[io[l][s]].type = "IO"
                              /\ gpr[io[l][s]].tag = l
    /\ \A l \in Lines : io[l][0] = io[l][1] => io[l][0] = NoGpr
    /\ \A g \in Gpr : gpr[g].type = "IO" =>
          /\ gpr[g].tag \in Lines
          /\ \E s \in Slots : io[gpr[g].tag][s] = g

\* get_dynamic_gpr() shares a DYNAMIC register only between different
\* programs: when a program that has it already asks again, it gets another.
DynamicDistinct ==
    [][fit' => \A g \in Low :
         (gpr[g].type = "DYNAMIC" /\ gpr'[g].usage = gpr[g].usage + 1)
           => \E o \in Owners : g \in code'[o] \ code[o]]_vars

\* The allocator keeps its promise (GprOwnership) for the first word.
Promise == INSTANCE GprOwnership WITH
              Gpr <- Low,
              kind <- [g \in Low |-> gpr[g].type],
              users <- [g \in Low |-> Users(g)]

\* Every step of the allocator is a step of the promise: no register changes
\* kind or is freed while a program uses it, and no STATIC one is shared.
KeepsPromise == /\ Promise!AInit
                /\ [][fit' => [Promise!ANext]_(Promise!avars)]_vars
=============================================================================
