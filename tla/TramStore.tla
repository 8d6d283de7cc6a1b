----------------------------- MODULE TramStore -----------------------------
(***************************************************************************)
(* The tank memory (TRAM) of the patches: how the blocks and lines of a    *)
(* patch file are placed (mixer/lib/file.c), laid out anew and written at  *)
(* every load, and read back by the next process                           *)
(* (mixer/lib/driver_access.c).                                            *)
(*                                                                         *)
(* A patch has blocks of memory and lines that read or write at an offset  *)
(* in a block.  A line is a register whose word holds an address and the   *)
(* operation; the code of the patch names the register.  Internal and      *)
(* external registers are numbered on: the external ones follow the        *)
(* ILines internal ones, as TRAML_EADDR_BASE follows TRAML_IADDR_BASE.     *)
(*                                                                         *)
(* The ALIGN bit of a line is left out, every ioctl succeeds, and one      *)
(* process runs at a time.                                                 *)
(***************************************************************************)
EXTENDS PatchLists, Integers, FiniteSets, FiniteSetsExt

CONSTANTS
    Tables,     \* the blocks of their first list, in order
    Delays,     \* the blocks of their second list
    IMem,       \* TRAMB_ISIZE: 0x2000 in the code
    EMem,       \* TRAMB_ESIZE: 0x200000 in the code
    ILines,     \* TRAML_ISIZE: 0x80 in the code
    ELines,     \* TRAML_ESIZE: 0x20 in the code
    U8,         \* the range of the line counts: 256 in the code
    AddrSpace,  \* the range of an address in a line: 0x100000 in the code
    MaxLoads    \* bound: dsp_load() calls of one process

READ == 1
WRITE == 2

Blocks == [size  : Nat,
           kind  : {"any", "internal", "external"},
           lines : Seq([op : {READ, WRITE}, at : Nat])]

\* v is a function of numbers.
SumOf(v, S) == MapThenSumSet(LAMBDA x : v[x], S)

LinesIn(list) == SumOf([k \in DOMAIN list |-> Len(list[k].lines)], DOMAIN list)

ASSUME FileAssumption == \A p \in Patches : Tables[p] \in Seq(Blocks) /\ Delays[p] \in Seq(Blocks)
ASSUME SizeAssumption == /\ IsFiniteSet(Patches)
                         /\ IMem \in Nat /\ EMem \in Nat
                         /\ ILines \in Nat \ {0} /\ ELines \in Nat \ {0}
                         /\ U8 \in Nat /\ ILines < U8 /\ ELines < U8
                         /\ AddrSpace \in Nat \ {0}
                         /\ MaxLoads \in Nat \ {0}

\* The lines of a first list are counted twice before a limit is looked at: less
\* than 128 in the code, or the u8 count wraps to 0.
ASSUME CountAssumption ==
    \A p \in Patches : ILines + LinesIn(Tables[p]) < U8 /\ ELines + LinesIn(Tables[p]) < U8

\* The blocks of a file, how many lines each has and how large it is; the lines
\* before block i and the memory of all of them.
FileBlocks(p) == Tables[p] \o Delays[p]
LineCounts(p) == [i \in DOMAIN FileBlocks(p) |-> Len(FileBlocks(p)[i].lines)]
Sizes(p) == [i \in DOMAIN FileBlocks(p) |-> FileBlocks(p)[i].size]
LinesBefore(p, i) == SumOf(LineCounts(p), 1 .. i - 1)
Memory(p) == SumOf(Sizes(p), DOMAIN FileBlocks(p))

\* All patches together reach no further than a line can address.  The limit on
\* memory does not see to it: TRAMB_ESIZE is twice the range of an address.
ASSUME AddressAssumption ==
    \A p \in Patches : \A i \in DOMAIN FileBlocks(p) : \A j \in DOMAIN FileBlocks(p)[i].lines :
        SumOf([q \in Patches |-> Memory(q)], Patches)
            - FileBlocks(p)[i].size + FileBlocks(p)[i].lines[j].at < AddrSpace

Registers == 0 .. ILines + ELines - 1

VARIABLES
    loads,   \* loads the running process has made, or -1: none is running
    ilist,   \* mgr->ipatch_list
    olist,   \* mgr->opatch_list
    tram,    \* the TRAM fields of the patches in the lists, and their code's registers
    mgr,     \* the manager's counts: tramb_?free_start (bi, be), traml_?free_start (li, le)
    lines,   \* the line registers of the DSP
    ext,     \* the external memory the driver has set apart, in bytes
    driver   \* the patch records of the driver

vars == <<loads, ilist, olist, tram, mgr, lines, ext, driver>>

Lists == ilist \o olist
Loaded == ToSet(Lists)

\* bi, isize, be, esize: internal and external memory.  li, le: the first line;
\* il, el: the words of the lines.  refs: the register each line of the file has.
NoTram == [bi |-> 0, isize |-> 0, be |-> 0, esize |-> 0,
           li |-> 0, le |-> 0, il |-> <<>>, el |-> <<>>, refs |-> <<>>]
NoCounts == [bi |-> 0, be |-> 0, li |-> 0, le |-> 0]

Init == /\ loads = -1
        /\ ilist = <<>> /\ olist = <<>>
        /\ tram = [p \in Patches |-> NoTram]
        /\ mgr = NoCounts
        /\ lines = [r \in Registers |-> 0]
        /\ ext = 0
        /\ driver = [ilist |-> <<>>, olist |-> <<>>, tram |-> [p \in Patches |-> NoTram]]

-----------------------------------------------------------------------------
(* dsp_init(): the records and lines of the driver                         *)

Words(from, n) == [k \in 1 .. n |-> IF from + k - 1 \in Registers THEN lines[from + k - 1] ELSE 0]

\* get_patch_tramls()
ReadLines(t) == [t EXCEPT !.il = Words(t.li, Len(t.il)), !.el = Words(ILines + t.le, Len(t.el))]

\* Mutant: external memory is not counted on.
CountsShort(t, S) == [bi |-> SumOf([p \in Patches |-> t[p].isize], S),
                      be |-> 0,
                      li |-> SumOf([p \in Patches |-> Len(t[p].il)], S) % U8,
                      le |-> SumOf([p \in Patches |-> Len(t[p].el)], S) % U8]

\* The counts of the patches S, which have the fields t.
Counts(t, S) == [bi |-> SumOf([p \in Patches |-> t[p].isize], S),
                 be |-> SumOf([p \in Patches |-> t[p].esize], S),
                 li |-> SumOf([p \in Patches |-> Len(t[p].il)], S) % U8,
                 le |-> SumOf([p \in Patches |-> Len(t[p].el)], S) % U8]

Start ==
    /\ loads = -1
    /\ loads' = 0
    /\ ilist' = driver.ilist
    /\ olist' = driver.olist
    /\ tram' = [p \in Patches |-> IF p \in ToSet(ilist' \o olist') THEN ReadLines(driver.tram[p])
                                                                    ELSE NoTram]
    /\ mgr' = Counts(tram', ToSet(ilist' \o olist'))
    /\ UNCHANGED <<lines, ext, driver>>

Exit == /\ loads >= 0
        /\ loads' = -1
        /\ ilist' = <<>> /\ olist' = <<>>
        /\ tram' = [p \in Patches |-> NoTram]
        /\ mgr' = NoCounts
        /\ UNCHANGED <<lines, ext, driver>>

-----------------------------------------------------------------------------
(* read_tram_block(): a state s of the reading holds the fields t of the   *)
(* patch, the counts m of the manager and whether all blocks were placed   *)

\* Mutant: every block of a patch is taken to start at its first word.
LineWordFlat(base, l) == (l.at % AddrSpace) + l.op * AddrSpace

LineWord(base, l) == ((base + l.at) % AddrSpace) + l.op * AddrSpace

LineWords(base, b) == [j \in 1 .. Len(b.lines) |-> LineWord(base, b.lines[j])]
NewRefs(first, b) == [j \in 1 .. Len(b.lines) |-> first + j - 1]
Refused(s) == [s EXCEPT !.ok = FALSE]

\* The lines are in the patch before they are tested, the memory is counted
\* after: a refused block leaves the counts of the blocks before it.
PlaceInternal(s, b) ==
    LET il == s.t.il \o LineWords(s.t.isize, b)
    IN IF b.lines = <<>> \/ s.m.li + Len(il) > ILines
       THEN Refused(s)
       ELSE [s EXCEPT !.m.bi = @ + b.size, !.t.isize = @ + b.size, !.t.il = il,
                      !.t.refs = @ \o NewRefs(Len(s.t.il), b)]

PlaceExternal(s, b) ==
    LET el == s.t.el \o LineWords(s.t.esize, b)
    IN IF b.lines = <<>> \/ s.m.le + Len(el) > ELines
       THEN Refused(s)
       ELSE [s EXCEPT !.m.be = @ + b.size, !.t.esize = @ + b.size, !.t.el = el,
                      !.t.refs = @ \o NewRefs(ILines + Len(s.t.el), b)]

Place(s, b) ==
    IF ~s.ok \/ b.size = 0 THEN Refused(s)
    ELSE IF b.size <= IMem - s.m.bi /\ b.kind # "external" THEN PlaceInternal(s, b)
    ELSE IF b.size <= EMem - s.m.be /\ b.kind # "internal" THEN PlaceExternal(s, b)
    ELSE Refused(s)

\* After the first k blocks of the list.
Placed(s, list) ==
    LET after[k \in 0 .. Len(list)] == IF k = 0 THEN s ELSE Place(after[k - 1], list[k])
    IN after

\* The lines are counted at the end of the list: all the patch has so far, those
\* of its first list once more after the second.
ReadList(s, list) ==
    LET r == Placed(s, list)[Len(list)]
    IN IF r.ok THEN [r EXCEPT !.m.li = (@ + Len(r.t.il)) % U8,
                              !.m.le = (@ + Len(r.t.el)) % U8]
               ELSE r

Reading(p) == ReadList(ReadList([ok |-> TRUE, m |-> mgr, t |-> NoTram], Tables[p]), Delays[p])

-----------------------------------------------------------------------------
(* Changing the lists *)

Editing == loads >= 0

\* dsp_read_patch(): put first or last in one of the lists.
ReadPatch(p) ==
    /\ Editing /\ p \notin Loaded
    /\ Reading(p).ok
    /\ mgr' = Reading(p).m
    /\ tram' = [tram EXCEPT ![p] = Reading(p).t]
    /\ \/ ilist' \in {<<p>> \o ilist, ilist \o <<p>>} /\ UNCHANGED olist
       \/ olist' \in {<<p>> \o olist, olist \o <<p>>} /\ UNCHANGED ilist
    /\ UNCHANGED <<loads, lines, ext, driver>>

\* It fails, in the blocks or later for want of code memory: what was counted
\* stays counted (file.c:114).
FailPatch(p) ==
    /\ Editing /\ p \notin Loaded
    /\ mgr' = Reading(p).m
    /\ UNCHANGED <<loads, ilist, olist, tram, lines, ext, driver>>

\* Mutant: the two memories are taken for each other.
CountOffSwapped(m, t) == [bi |-> m.bi - t.esize, be |-> m.be - t.isize,
                          li |-> (m.li - Len(t.il)) % U8, le |-> (m.le - Len(t.el)) % U8]

CountOff(m, t) == [bi |-> m.bi - t.isize, be |-> m.be - t.esize,
                   li |-> (m.li - Len(t.il)) % U8, le |-> (m.le - Len(t.el)) % U8]

UnloadPatch(p) ==
    /\ Editing
    /\ \/ \E j \in DOMAIN ilist : ilist[j] = p /\ ilist' = RemoveAt(ilist, j)
          /\ UNCHANGED olist
       \/ \E j \in DOMAIN olist : olist[j] = p /\ olist' = RemoveAt(olist, j)
          /\ UNCHANGED ilist
    /\ mgr' = CountOff(mgr, tram[p])
    /\ tram' = [tram EXCEPT ![p] = NoTram]
    /\ UNCHANGED <<loads, lines, ext, driver>>

UnloadAll ==
    /\ Editing
    /\ ilist' = <<>> /\ olist' = <<>>
    /\ mgr' = NoCounts
    /\ tram' = [p \in Patches |-> NoTram]
    /\ UNCHANGED <<loads, lines, ext, driver>>

-----------------------------------------------------------------------------
(* dsp_load() *)

\* addr_change and search_and_replace(): the register a line gets; the external
\* entries of the table are made after the internal ones.
NewRef(m, t, r) ==
    IF r - ILines - t.le \in 0 .. Len(t.el) - 1 THEN ILines + m.le + (r - ILines - t.le)
    ELSE IF r - t.li \in 0 .. Len(t.il) - 1 THEN m.li + (r - t.li)
    ELSE r

\* set_tram_addr(): from the old place of the patch to the next free one.  The
\* whole word of a line is shifted.
Replaced(m, t) ==
    [bi |-> m.bi, isize |-> t.isize, be |-> m.be, esize |-> t.esize, li |-> m.li, le |-> m.le,
     il |-> [j \in 1 .. Len(t.il) |-> t.il[j] + (m.bi - t.bi)],
     el |-> [j \in 1 .. Len(t.el) |-> t.el[j] + (m.be - t.be)],
     refs |-> [j \in 1 .. Len(t.refs) |-> NewRef(m, t, t.refs[j])]]

\* set_tram(): all counts again from 0, over the input and the output patches;
\* each one goes behind those ahead of it.
Ahead(p) == {q \in Loaded : \E j, k \in DOMAIN Lists : j < k /\ Lists[j] = q /\ Lists[k] = p}
SetTram == [p \in Patches |-> IF p \in Loaded THEN Replaced(Counts(tram, Ahead(p)), tram[p])
                                              ELSE tram[p]]

\* The word of t in register r, if it has one there.
HasWord(t, r) == r - ILines - t.le \in 0 .. Len(t.el) - 1 \/ r - t.li \in 0 .. Len(t.il) - 1
WordAt(t, r) == IF r - ILines - t.le \in 0 .. Len(t.el) - 1 THEN t.el[r - ILines - t.le + 1]
                                                            ELSE t.il[r - t.li + 1]

\* load_patch_tramls(): a register keeps the last word written to it.
Sent(t, r) ==
    LET writers == {k \in DOMAIN Lists : HasWord(t[Lists[k]], r)}
    IN IF writers = {} THEN lines[r] ELSE WordAt(t[Lists[Max(writers)]], r)

\* Mutant: the first line behind the last patch is forgotten.
CleanLess(m, r) == r \in m.li + 1 .. ILines - 1 \/ r - ILines \in m.le .. ELines - 1

\* clean_free_tram_buffers()
Clean(m, r) == r \in m.li .. ILines - 1 \/ r - ILines \in m.le .. ELines - 1

\* Mutant: the memory is asked for in words.
SizeAskedWords(n) == n

SizeAsked(n) == 2 * n

\* set_external_tram() asks for what was counted when the patches were read,
\* before set_tram() counts anew; for nothing it does not ask at all.
Load ==
    /\ Editing /\ loads < MaxLoads
    /\ loads' = loads + 1
    /\ ext' = IF mgr.be = 0 THEN ext ELSE SizeAsked(mgr.be)
    /\ tram' = SetTram
    /\ mgr' = Counts(tram', Loaded)
    /\ lines' = [r \in Registers |-> IF Clean(mgr', r) THEN 0 ELSE Sent(tram', r)]
    /\ driver' = [ilist |-> ilist, olist |-> olist, tram |-> tram']
    /\ UNCHANGED <<ilist, olist>>

Next == \/ Start \/ Exit
        \/ \E p \in Patches : ReadPatch(p) \/ FailPatch(p) \/ UnloadPatch(p)
        \/ UnloadAll
        \/ Load

Spec == Init /\ [][Next]_vars

-----------------------------------------------------------------------------
(* Properties *)

InDriver == ToSet(driver.ilist \o driver.olist)

\* Types and ranges: the memory that is counted never exceeds what there is, the
\* line counts are u8, and a line that code refers to is a register.
TypeOK ==
    /\ loads \in -1 .. MaxLoads
    /\ Loaded \subseteq Patches /\ Len(Lists) = Cardinality(Loaded)
    /\ mgr \in [bi : 0 .. IMem, be : 0 .. EMem, li : 0 .. U8 - 1, le : 0 .. U8 - 1]
    /\ \A p \in Loaded : ToSet(tram[p].refs) \subseteq Registers
    /\ lines \in [Registers -> Nat]
    /\ ext \in 0 .. 2 * EMem

RegisterOf(p, refs, i, j) == refs[LinesBefore(p, i) + j]

\* Whether block i of p was placed internally: where its first line is.
BlockInternal(p, refs, i) == RegisterOf(p, refs, i, 1) < ILines

\* The memory before block i in that part of the memory of p.
Before(p, refs, i) ==
    SumOf(Sizes(p), {k \in 1 .. i - 1 : BlockInternal(p, refs, k) <=> BlockInternal(p, refs, i)})

\* In the DSP, whatever was read, unloaded, refused, loaded and read back before:
\* the register that the code of a patch names for a line of its file does the
\* line's operation, at the line's offset in its own block of memory.
LinesReachBlocks ==
    \A p \in InDriver : \A i \in DOMAIN FileBlocks(p) : \A j \in DOMAIN FileBlocks(p)[i].lines :
        LET t == driver.tram[p]
            l == FileBlocks(p)[i].lines[j]
            r == RegisterOf(p, t.refs, i, j)
            base == IF r < ILines THEN t.bi ELSE t.be
        IN /\ lines[r] \div AddrSpace = l.op
           /\ lines[r] % AddrSpace = base + Before(p, t.refs, i) + l.at

\* In the DSP no two patches share a word of memory or a line, and none reaches
\* beyond what there is.
MemoryApart ==
    \A p \in InDriver :
        LET t == driver.tram[p]
        IN /\ t.bi + t.isize <= IMem /\ t.be + t.esize <= EMem
           /\ t.li + Len(t.il) <= ILines /\ t.le + Len(t.el) <= ELines
           /\ \A q \in InDriver \ {p} :
                LET u == driver.tram[q]
                IN /\ t.bi + t.isize <= u.bi \/ u.bi + u.isize <= t.bi
                   /\ t.be + t.esize <= u.be \/ u.be + u.esize <= t.be
                   /\ ToSet(t.refs) \cap ToSet(u.refs) = {}

\* A line register of the DSP that is set belongs to a patch of the driver: no
\* line of a patch that is gone goes on writing to memory others have now.
NoStrayLine ==
    \A r \in Registers : lines[r] # 0 => \E p \in InDriver : r \in ToSet(driver.tram[p].refs)

\* The external memory set apart, in bytes, holds all the driver's patches have,
\* although it is asked for before the layout is made.
ExternalFits ==
    \A p \in InDriver : driver.tram[p].esize > 0 =>
        2 * (driver.tram[p].be + driver.tram[p].esize) <= ext
=============================================================================
