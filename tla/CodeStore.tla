----------------------------- MODULE CodeStore -----------------------------
(***************************************************************************)
(* The instruction memory of the DSP: how the patch manager counts it      *)
(* (code_free_start), lays the programs out in it, writes them in chunks,  *)
(* clears what is free, and how the next process reads them back           *)
(* (mixer/lib/driver_access.c, with the parts of dsp.c and file.c that     *)
(* keep the count).                                                        *)
(*                                                                         *)
(* A process starts (dsp_init()) and loads: emu-dspmgr once, after it has  *)
(* changed its lists, the GUI after each change of a route.  A word of     *)
(* code is named by its program and place; the rewriting of its operands   *)
(* is left out, and every ioctl succeeds.                                  *)
(***************************************************************************)
EXTENDS PatchLists, Integers, FiniteSets, FiniteSetsExt

CONSTANTS
    Routing,    \* the routing patch
    Size,       \* the code size of every patch
    RSizes,     \* the sizes construct_routing() may give the routing patch
    PartSizes,  \* and those it may leave it with when it fails half way
    CodeSize,   \* DSP_CODE_SIZE: 0x400 in the code
    Chunk,      \* words in one copr_buffer: 0x200 in the code
    MaxLoads,   \* bound: dsp_load() calls of one process
    Nop,        \* an instruction word that does nothing
    Junk        \* a word read from outside the code

U16 == 65536

ASSUME SizeAssumption == /\ IsFiniteSet(Patches)
                         /\ Size \in [Patches -> Nat \ {0}]
                         /\ RSizes \subseteq Nat
                         /\ PartSizes \subseteq Nat
                         /\ CodeSize \in 1 .. U16 - 1
                         /\ Chunk \in Nat \ {0}
                         /\ MaxLoads \in Nat \ {0}

VARIABLES
    loads,   \* loads the running process has made, or -1: none is running
    ilist,   \* mgr->ipatch_list
    olist,   \* mgr->opatch_list
    code,    \* patch->code of every patch in the lists
    rsize,   \* rpatch.code_size
    free,    \* mgr->code_free_start
    ifree,   \* mgr->icode_free_start
    dsp,     \* the instruction memory of the DSP
    driver   \* the patch records of the driver: the routing one, the others

vars == <<loads, ilist, olist, code, rsize, free, ifree, dsp, driver>>

Running == loads >= 0
Editing == loads = 0
Lists == ilist \o olist
Loaded == ToSet(Lists)
SizeOf(S) == MapThenSumSet(LAMBDA p : Size[p], S)

\* Mutant: the count is not a u16.
MinusWide(n, m) == n - m

\* The counts are of type u16.
Minus(n, m) == (n - m) % U16

Plus(n, m) == (n + m) % U16

Own(p) == [k \in 0 .. Size[p] - 1 |-> <<p, k>>]

Init == /\ loads = -1
        /\ ilist = <<>> /\ olist = <<>>
        /\ code = [p \in Patches |-> Own(p)]
        /\ rsize = 0 /\ free = 0 /\ ifree = 0
        /\ dsp = [a \in 0 .. CodeSize - 1 |-> Nop]
        /\ driver = [routing |-> [start |-> 0, size |-> 0], patches |-> <<>>]

-----------------------------------------------------------------------------
(* dsp_init(): the state of the driver becomes the state of the process.   *)

\* get_patch_code(): the second chunk is stored where it was read, not behind
\* the first.
CodeRead(r) ==
    [k \in 0 .. r.size - 1 |->
        LET from == IF k < Chunk THEN r.start + k
                    ELSE IF k < r.start + Chunk THEN CodeSize ELSE k
        IN IF from < CodeSize THEN dsp[from] ELSE Junk]

RecordOf(p) == CHOOSE r \in ToSet(driver.patches) : r.patch = p

\* get_patches() walks through the records and appends each one to the list
\* that the start of its code tells.
IsInput(r) == r.start < driver.routing.start
RecordsOf(input) == {j \in DOMAIN driver.patches : IsInput(driver.patches[j]) <=> input}
Nth(J, k) == CHOOSE j \in J : Cardinality({i \in J : i <= j}) = k
ReadBack(input) ==
    LET J == RecordsOf(input)
    IN [k \in 1 .. Cardinality(J) |-> driver.patches[Nth(J, k)].patch]

Start ==
    /\ ~Running
    /\ loads' = 0
    /\ ilist' = ReadBack(TRUE)
    /\ olist' = ReadBack(FALSE)
    /\ code' = [p \in Patches |->
                  IF \E r \in ToSet(driver.patches) : r.patch = p
                    THEN CodeRead(RecordOf(p)) ELSE Own(p)]
    /\ rsize' = driver.routing.size
    /\ free' = Plus(driver.routing.size, SizeOf(ToSet(ilist' \o olist')))
    /\ ifree' = free'
    /\ UNCHANGED <<dsp, driver>>

Exit == Running /\ loads' = -1
        /\ UNCHANGED <<ilist, olist, code, rsize, free, ifree, dsp, driver>>

-----------------------------------------------------------------------------
(* Changing the lists.                                                     *)

\* dsp_read_patch(): a new patch is put first (-f) or last (-F) in its list
\* when the count leaves room for its code.
ReadPatch(p) ==
    /\ Editing
    /\ p \notin Loaded
    /\ Plus(free, Size[p]) <= CodeSize
    /\ free' = Plus(free, Size[p])
    /\ \/ /\ ilist' \in {<<p>> \o ilist, ilist \o <<p>>}
          /\ UNCHANGED olist
       \/ /\ olist' \in {<<p>> \o olist, olist \o <<p>>}
          /\ UNCHANGED ilist
    /\ code' = [code EXCEPT ![p] = Own(p)]
    /\ UNCHANGED <<loads, rsize, ifree, dsp, driver>>

\* Mutant: the code of an unloaded patch stays counted.
LeftCounted(p) == free

Left(p) == Minus(free, Size[p])

UnloadPatch(p) ==
    /\ Editing
    /\ \/ \E j \in DOMAIN ilist : ilist[j] = p /\ ilist' = RemoveAt(ilist, j)
          /\ UNCHANGED olist
       \/ \E j \in DOMAIN olist : olist[j] = p /\ olist' = RemoveAt(olist, j)
          /\ UNCHANGED ilist
    /\ free' = Left(p)
    /\ UNCHANGED <<loads, code, rsize, ifree, dsp, driver>>

UnloadAll ==
    /\ Editing
    /\ ilist' = <<>> /\ olist' = <<>>
    /\ rsize' = 0
    /\ free' = 0
    /\ ifree' = CodeSize
    /\ UNCHANGED <<loads, code, dsp, driver>>

-----------------------------------------------------------------------------
(* dsp_load().                                                             *)

\* Mutant: the routing patch is laid out last.
RoutingLast == SizeOf(Loaded)

\* set_code_start(): input patches, routing patch, output patches.
RoutingStart == SizeOf(ToSet(ilist))

StartOf(j, n) ==
    LET before == SizeOf({Lists[i] : i \in 1 .. j - 1})
    IN IF j <= Len(ilist) THEN before ELSE n + before

Records(n) == [j \in 1 .. Len(Lists) |->
                  [patch |-> Lists[j], start |-> StartOf(j, n), size |-> Size[Lists[j]]]]

\* load_patch_code(): word k of a code c that starts at start; the second
\* chunk is taken from start + Chunk of the code, not from Chunk.
WordSent(c, start, k) ==
    LET from == IF k < Chunk THEN k ELSE start + k
    IN IF from \in DOMAIN c THEN c[from] ELSE Junk

\* The code construct_routing() has built, in a buffer of CodeSize words.
RoutingCode(n) == [k \in 0 .. CodeSize - 1 |-> IF k < n THEN <<Routing, k>> ELSE Junk]

\* What is written for the routing patch and the others.  What does not fit is
\* taken to be lost (the driver is not in the repository).
Writes(n) ==
    {[at |-> RoutingStart + k, word |-> WordSent(RoutingCode(n), RoutingStart, k)] :
        k \in 0 .. n - 1}
    \cup UNION {{[at |-> r.start + k, word |-> WordSent(code[r.patch], r.start, k)] :
                    k \in 0 .. r.size - 1} : r \in ToSet(Records(n))}

\* Mutants: nothing is cleared, or one word too many.
ClearedNot(newFree) == {}
ClearedMore(newFree) == {a \in 0 .. CodeSize - 1 : newFree - 1 <= a /\ a < ifree}

\* clean_free_dsp(): from the new end of the code to its end when the process
\* started.
Cleared(newFree) == {a \in 0 .. CodeSize - 1 : newFree <= a /\ a < ifree}

\* The routing patch gets n words; newFree is what its construction makes of
\* the count.
LoadWith(n, newFree) ==
    /\ rsize' = n
    /\ free' = newFree
    /\ driver' = [routing |-> [start |-> RoutingStart, size |-> n],
                  patches |-> Records(n)]
    /\ dsp' = [a \in 0 .. CodeSize - 1 |->
                 IF a \in Cleared(newFree) THEN Nop
                 ELSE IF \E w \in Writes(n) : w.at = a
                        THEN (CHOOSE w \in Writes(n) : w.at = a).word
                        ELSE dsp[a]]
    /\ loads' = loads + 1
    /\ UNCHANGED <<ilist, olist, code, ifree>>

Load == /\ Running /\ loads < MaxLoads
        /\ \E n \in RSizes : LoadWith(n, Plus(Minus(free, rsize), n))

\* construct_routing() fails: the old size is taken off the count, the size of
\* what was built is not added, and nobody looks at the result.
LoadPart == /\ Running /\ loads < MaxLoads
            /\ \E n \in PartSizes : LoadWith(n, Minus(free, rsize))

Next == \/ Start \/ Exit
        \/ \E p \in Patches : ReadPatch(p) \/ UnloadPatch(p)
        \/ UnloadAll
        \/ Load \/ LoadPart

Spec == Init /\ [][Next]_vars

-----------------------------------------------------------------------------
(* Properties.                                                             *)

Words == (Patches \cup {Routing}) \X Nat \cup {Nop, Junk}

\* Every variable has its type; no patch is in the lists twice.
TypeOK ==
    /\ loads \in -1 .. MaxLoads
    /\ ToSet(Lists) \subseteq Patches /\ Len(Lists) = Cardinality(ToSet(Lists))
    /\ rsize \in RSizes \cup PartSizes \cup {0}
    /\ free \in 0 .. U16 - 1
    /\ ifree \in 0 .. U16 - 1
    /\ dsp \in [0 .. CodeSize - 1 -> Words]

\* dsp.h: code_free_start is the "number of instructions used", by the patches
\* in the lists and the routing patch, whatever was read, unloaded and loaded.
CodeCounted == Running => free = rsize + SizeOf(Loaded)

\* The code a process holds of a patch is the patch's own: the load of one
\* process has not written over what the next one reads.
CodeIntact == Running => \A p \in Loaded : code[p] = Own(p)

\* The records of the driver are one block: each program starts where another
\* one ends, or at 0, and no two overlap.
AllRecords == {driver.routing} \cup ToSet(driver.patches)
OneBlock ==
    \A r \in AllRecords :
        /\ r.start = 0 \/ \E q \in AllRecords : q.start + q.size = r.start
        /\ \A q \in AllRecords \ {r} :
              q.start + q.size <= r.start \/ r.start + r.size <= q.start

\* Without a process the lists are those the next one will find.
Image == INSTANCE DspImage WITH
            work <- IF Running THEN [in |-> ilist, out |-> olist]
                    ELSE [in |-> ReadBack(TRUE), out |-> ReadBack(FALSE)],
            saved <- [in |-> ReadBack(TRUE), out |-> ReadBack(FALSE)],
            mem <- dsp

\* The DSP runs what was loaded last and the next process finds it (DspImage).
KeepsImage == Image!ASpec

\* dsp_load(): the words of every patch are in the memory where its record
\* says, however long the patch is.
Written == \A j \in 1 .. Len(driver.patches) :
              LET r == driver.patches[j]
              IN \A k \in 0 .. r.size - 1 : dsp[r.start + k] = <<r.patch, k>>
LoadsWhole == [][driver' # driver => Written']_vars

\* mixer/doc/README: the code is kept "in a continuous block", and behind the
\* block nothing of an earlier load is left to run.
NothingBehind == \A a \in 0 .. CodeSize - 1 :
                    dsp[a] = Nop \/ \E r \in AllRecords : r.start <= a /\ a < r.start + r.size
=============================================================================
