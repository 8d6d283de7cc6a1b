------------------------------ MODULE IoThread ------------------------------
(***************************************************************************)
(* How the patches of a line are threaded together, and to the routing     *)
(* code between input and output lines, at every load: get_io_gpr(),       *)
(* determine_io() and construct_routing() of mixer/lib/dsp.c, match_io()   *)
(* and set_io_gprs() of mixer/lib/driver_access.c.                         *)
(*                                                                         *)
(* A patch comes from its file with an IO gpr to read and one to write for *)
(* each of its lines.  A load rewrites the code so that every patch reads  *)
(* what the one before it wrote, and the next process works out from code  *)
(* and gprs alone what each patch reads and writes.                        *)
(*                                                                         *)
(* Only IO gprs are modelled: the volume controls and the buffers of the   *)
(* routing code are other registers, of which there are always enough, and *)
(* each IO gpr has a bit of its own (GprPool tells what is so when not).   *)
(* Every ioctl succeeds and one process runs at a time.                    *)
(***************************************************************************)
EXTENDS PatchLists, Integers, FiniteSets, TLC

CONSTANTS
    NumLines,   \* the lines in use, of the 32 of DSP_NUM_INPUTS and DSP_NUM_OUTPUTS
    NumGprs,    \* the gprs that may become IO gprs
    LinesOf,    \* the lines each one is attached to, of either side
    Connections, \* the routes that are made: input, output and kind
    Places,     \* where patches are put: first (-f) or last (-F) on a line
    MaxLoads,   \* bound: dsp_load() calls of a process; emu-dspmgr makes one
    MaxEdits    \* bound: commands of a process

Lines == 0 .. NumLines - 1

ASSUME LineAssumption == /\ Places \subseteq {"in", "out"} \X {"first", "last"}
                         /\ NumLines \in Nat \ {0} /\ MaxLoads \in Nat \ {0} /\ MaxEdits \in Nat
                         /\ IsFiniteSet(Patches)
                         /\ LinesOf \in [Patches -> (SUBSET Lines) \ {{}}]
                         /\ Connections \subseteq Lines \X Lines \X {"plain", "volume"}

\* Two IO gprs for each line is all that get_io_gpr() ever takes.
ASSUME GprAssumption == NumGprs \in Nat /\ NumGprs >= 2 * NumLines

Gprs == 0 .. NumGprs - 1

\* What an operand names.
In(l) == <<"in", l>>
Out(l) == <<"out", l>>
Gpr(g) == <<"gpr", g>>
Buffer(l) == <<"buffer", l>>    \* the dynamic gpr with the value of In(l)
Volume == <<"control", 0>>
Zero == <<"constant", 0>>
None == <<"none", -1>>
Inputs == {In(l) : l \in Lines}

IsGpr(r) == r[1] = "gpr"
GprsOf(r) == IF IsGpr(r) THEN {r[2]} ELSE {}

VARIABLES
    edits,      \* commands the running process has had
    loads,      \* loads the running process has made, or -1: none is running
    ilist,      \* mgr->ipatch_list
    olist,      \* mgr->opatch_list
    plain, vol, \* rpatch.route and route_v: the inputs of each output
    mgr,        \* bank, prog and routing, see below
    driver,     \* all of it as it was loaded last
    granted     \* history: get_gpr() has not refused match_io() a gpr so far

vars == <<edits, loads, ilist, olist, plain, vol, mgr, driver, granted>>

\* usage and line of every gpr, and the table of IO gprs; -1 is none.
NoBank == [usage |-> [g \in Gprs |-> 0], line |-> [g \in Gprs |-> 0],
           io |-> [l \in Lines |-> <<-1, -1>>]]

\* gpr_used and gpr_input, in_gprs and out_gprs, and the operands of the code.
NoProg == [used |-> {}, input |-> {},
           in |-> [l \in Lines |-> None], out |-> [l \in Lines |-> None],
           rd |-> [l \in Lines |-> None], wr |-> [l \in Lines |-> None]]

\* gpr_used, in and out of the routing patch, and its instructions.
NoRouting == [used |-> {}, in |-> [l \in Lines |-> None], out |-> [l \in Lines |-> None],
              code |-> <<>>]

NoMgr == [bank |-> NoBank, prog |-> [p \in Patches |-> NoProg], routing |-> NoRouting]
NoRoutes == [o \in Lines |-> {}]

Init == /\ edits = 0 /\ loads = -1
        /\ ilist = <<>> /\ olist = <<>>
        /\ plain = NoRoutes /\ vol = NoRoutes
        /\ mgr = NoMgr
        /\ driver = [ilist |-> <<>>, olist |-> <<>>, plain |-> NoRoutes, vol |-> NoRoutes,
                     mgr |-> NoMgr]
        /\ granted = TRUE

Loaded == ToSet(ilist \o olist)

\* A loop: what Step makes of base and the elements of seq, one after another.  It
\* is FoldLeft, by recursion on the number of elements taken.
After(Step(_, _), base, seq) ==
    LET after[k \in 0 .. Len(seq)] == IF k = 0 THEN base ELSE Step(after[k - 1], seq[k])
    IN after[Len(seq)]

\* The elements of list that are in S.
Among(list, S) == After(LAMBDA s, x : IF x \in S THEN Append(s, x) ELSE s, <<>>, list)

\* The loops over lines and gprs go up.
Ascending(S) == Among([k \in 1 .. NumGprs |-> k - 1], S)

\* The patches of a list that are on line l.
OnLine(list, l) == Among(list, {p \in Patches : l \in LinesOf[p]})

-----------------------------------------------------------------------------
(* IO gprs: b is the bank, u the gpr_used of a program, and the result has *)
(* both.                                                                   *)

First(S) == CHOOSE g \in S : \A h \in S : g <= h

\* Mutant: the first gpr of the line is not looked at.
IoGprSecond(b, l, u) ==
    IF b.io[l][2] >= 0 /\ b.io[l][2] \notin u THEN b.io[l][2]
    ELSE First({g \in Gprs : b.usage[g] = 0})

\* The gpr get_io_gpr() answers.
IoGpr(b, l, u) ==
    IF b.io[l][1] >= 0 /\ b.io[l][1] \notin u THEN b.io[l][1]
    ELSE IF b.io[l][2] >= 0 /\ b.io[l][2] \notin u THEN b.io[l][2]
    ELSE First({g \in Gprs : b.usage[g] = 0})

TakeIo(b, l, u, g) ==
    LET slot == IF b.io[l][1] < 0 THEN 1 ELSE 2
    IN [b |-> [b EXCEPT !.usage[g] = @ + 1, !.line[g] = l,
                        !.io[l] = IF g \in ToSet(@) THEN @ ELSE [@ EXCEPT ![slot] = g]],
        u |-> u \cup {g}, g |-> g]

GetIoGpr(b, l, u) == TakeIo(b, l, u, IoGpr(b, l, u))

\* free_gpr() for those of the gprs S that u has.
FreeGprs(b, u, S) ==
    LET less == u \cap S
        gone == {g \in less : b.usage[g] <= 1}
    IN [b |-> [usage |-> [g \in Gprs |-> IF g \in less THEN b.usage[g] - 1 ELSE b.usage[g]],
               line |-> [g \in Gprs |-> IF g \in gone THEN 0 ELSE b.line[g]],
               io |-> [l \in Lines |-> [k \in 1 .. 2 |-> IF b.io[l][k] \in gone THEN -1
                                                        ELSE b.io[l][k]]]],
        u |-> u \ S]

\* Mutant: the new user is not counted.
GetGprsNot(b, u, S) == [b |-> b, u |-> u \cup S]

\* get_gpr() for those of the gprs S that somebody has and u has not.
GetGprs(b, u, S) ==
    LET more == {g \in S \ u : b.usage[g] > 0}
    IN [b |-> [b EXCEPT !.usage = [g \in Gprs |-> IF g \in more THEN @[g] + 1 ELSE @[g]]],
        u |-> u \cup more]

-----------------------------------------------------------------------------
(* dsp_init() *)

\* init_io_gprs_table(): the third gpr of a line makes it exit().
IoTable(b) ==
    [l \in Lines |->
        LET gs == Ascending({g \in Gprs : b.usage[g] > 0 /\ b.line[g] = l})
        IN [s \in 1 .. 2 |-> IF s <= Len(gs) THEN gs[s] ELSE -1]]

\* determine_io(): the operand that t reads, or writes, on line l.
Reads(b, t, l) ==
    IF b.io[l][1] \in t.input THEN Gpr(b.io[l][1])
    ELSE IF b.io[l][2] \in t.input THEN Gpr(b.io[l][2])
    ELSE IF In(l) \in ToSet(<<t.rd[l], t.wr[l]>>) THEN In(l) ELSE None

Writes(b, t, l) ==
    IF b.io[l][1] \in t.used \ t.input THEN Gpr(b.io[l][1])
    ELSE IF b.io[l][2] \in t.used \ t.input THEN Gpr(b.io[l][2])
    ELSE IF Out(l) \in ToSet(<<t.rd[l], t.wr[l]>>) THEN Out(l) ELSE None

DetermineIo(b, p, t) ==
    [t EXCEPT !.in = [l \in Lines |-> IF l \in LinesOf[p] THEN Reads(b, t, l) ELSE None],
              !.out = [l \in Lines |-> IF l \in LinesOf[p] THEN Writes(b, t, l) ELSE None]]

\* What dsp_init() makes of m, the manager that loaded the driver.
ReadBack(m, list) ==
    LET b == [m.bank EXCEPT !.io = IoTable(m.bank)]
    IN [m EXCEPT !.bank = b,
                 !.prog = [p \in Patches |-> IF p \in ToSet(list) THEN DetermineIo(b, p, m.prog[p])
                                                                 ELSE NoProg]]

Start == /\ loads = -1
         /\ loads' = 0 /\ edits' = 0
         /\ ilist' = driver.ilist /\ olist' = driver.olist
         /\ plain' = driver.plain /\ vol' = driver.vol
         /\ mgr' = ReadBack(driver.mgr, ilist' \o olist')
         /\ UNCHANGED <<driver, granted>>

Exit == /\ loads >= 0
        /\ loads' = -1 /\ edits' = 0
        /\ ilist' = <<>> /\ olist' = <<>>
        /\ plain' = NoRoutes /\ vol' = NoRoutes
        /\ mgr' = NoMgr
        /\ UNCHANGED <<driver, granted>>

-----------------------------------------------------------------------------
(* Commands *)

\* Bound: what commands make of code that was refused a gpr is not followed.
Open == loads \in 0 .. MaxLoads - 1 /\ granted
Editing == /\ Open /\ edits < MaxEdits
           /\ edits' = edits + 1

Routed(i) == \E o \in Lines : i \in plain[o] \cup vol[o]
Fed(o) == plain[o] \cup vol[o] # {}

\* dsp_add_route(), dsp_add_route_v()
Connect(i, o, kind) ==
    /\ Editing
    /\ plain' = [plain EXCEPT ![o] = IF kind = "plain" THEN @ \cup {i} ELSE @ \ {i}]
    /\ vol' = [vol EXCEPT ![o] = IF kind = "volume" THEN @ \cup {i} ELSE @ \ {i}]
    /\ UNCHANGED <<loads, ilist, olist, mgr, driver, granted>>

\* dsp_del_route(): not the last one of a line with patches.
Disconnect(i, o) ==
    /\ Editing
    /\ i \in plain[o] \cup vol[o]
    /\ plain' = [plain EXCEPT ![o] = @ \ {i}]
    /\ vol' = [vol EXCEPT ![o] = @ \ {i}]
    /\ (\E p \in ToSet(olist) : o \in LinesOf[p]) => plain'[o] \cup vol'[o] # {}
    /\ (\E p \in ToSet(ilist) : i \in LinesOf[p]) => \E q \in Lines : i \in plain'[q] \cup vol'[q]
    /\ UNCHANGED <<loads, ilist, olist, mgr, driver, granted>>

\* read_patch_header(): a gpr to read for each line, then one to write.
ReadHeader(p) ==
    LET lines == Ascending(LinesOf[p])
        ToRead(t, l, n) == [b |-> n.b, t |-> [t EXCEPT !.used = n.u, !.input = @ \cup {n.g},
                                                      !.rd[l] = Gpr(n.g)]]
        ToWrite(t, l, n) == [b |-> n.b, t |-> [t EXCEPT !.used = n.u, !.wr[l] = Gpr(n.g)]]
    IN After(LAMBDA r, l : ToWrite(r.t, l, GetIoGpr(r.b, l, r.t.used)),
             After(LAMBDA r, l : ToRead(r.t, l, GetIoGpr(r.b, l, r.t.used)),
                   [b |-> mgr.bank, t |-> NoProg], lines),
             lines)

\* The manager with the patch in it, as it was read.
WithPatch(p, r) == [mgr EXCEPT !.bank = r.b, !.prog[p] = DetermineIo(r.b, p, r.t)]

Placed(side, list, p) ==
    {IF w = "first" THEN <<p>> \o list ELSE list \o <<p>> :
        w \in {v \in {"first", "last"} : <<side, v>> \in Places}}

\* dsp_read_patch(): to an input line that is not routed, to an output line
\* that is.
ReadPatch(p) ==
    /\ Editing /\ p \notin Loaded
    /\ \/ /\ \A l \in LinesOf[p] : ~Routed(l)
          /\ ilist' \in Placed("in", ilist, p)
          /\ UNCHANGED olist
       \/ /\ \A l \in LinesOf[p] : Fed(l)
          /\ olist' \in Placed("out", olist, p)
          /\ UNCHANGED ilist
    /\ mgr' = WithPatch(p, ReadHeader(p))
    /\ UNCHANGED <<loads, plain, vol, driver, granted>>

\* dsp_unload_patch()
UnloadPatch(p) ==
    /\ Editing /\ p \in Loaded
    /\ ilist' = Among(ilist, Patches \ {p}) /\ olist' = Among(olist, Patches \ {p})
    /\ mgr' = [mgr EXCEPT !.bank = FreeGprs(@, mgr.prog[p].used, Gprs).b, !.prog[p] = NoProg]
    /\ UNCHANGED <<loads, plain, vol, driver, granted>>

\* dsp_unload_all()
UnloadAll ==
    /\ Editing
    /\ ilist' = <<>> /\ olist' = <<>>
    /\ plain' = NoRoutes /\ vol' = NoRoutes
    /\ mgr' = NoMgr
    /\ UNCHANGED <<loads, driver, granted>>

-----------------------------------------------------------------------------
(* match_io(): a state s has the bank b, the patch t, and the operand in   *)
(* that the line stands at.                                                *)

\* addr_change[] and search_and_replace()
Replace(t, change) ==
    [t EXCEPT !.rd = [l \in Lines |-> IF @[l] \in DOMAIN change THEN change[@[l]] ELSE @[l]],
              !.wr = [l \in Lines |-> IF @[l] \in DOMAIN change THEN change[@[l]] ELSE @[l]]]

\* Mutant: the bit of the gpr it read stays set.
NowReadsBoth(t, i, r) == [t EXCEPT !.input = @ \cup GprsOf(r)]

\* The gpr_input bits once t reads r instead of i.
NowReads(t, i, r) == [t EXCEPT !.input = (@ \ GprsOf(i)) \cup GprsOf(r)]

\* The patch wrote what it is to read now: its two IO gprs change places.
Swap(s, l, i, o) ==
    [s EXCEPT !.t = Replace([NowReads(@, i, s.in) EXCEPT !.in[l] = o, !.out[l] = i],
                            [a \in {i, o} |-> IF a = o THEN i ELSE s.in]),
              !.in = i]

\* Mutant: the gpr is put into the code and get_gpr() not called for it.
TakeOtherUnasked(s, l, slots, i, o) ==
    LET g == IF s.in = Gpr(slots[2]) THEN slots[1] ELSE slots[2]
    IN [s EXCEPT !.t = Replace([NowReads(@, i, s.in) EXCEPT !.in[l] = Gpr(g)],
                               [a \in {i, o} |-> IF a = o THEN Gpr(g) ELSE s.in]),
                 !.in = Gpr(g)]

\* The same, but it read no gpr so far: it gets the other one of the line.
TakeOther(s, l, slots, i, o) ==
    LET g == IF s.in = Gpr(slots[2]) THEN slots[1] ELSE slots[2]
        got == GetGprs(s.b, s.t.used, {g})
    IN [b |-> got.b,
        t |-> Replace([NowReads(s.t, i, s.in) EXCEPT !.in[l] = Gpr(g), !.used = got.u],
                      [a \in {i, o} |-> IF a = o THEN Gpr(g) ELSE s.in]),
        in |-> Gpr(g)]

\* Mutant: the line stays where it was.
RethreadStay(s, i, o) == [s EXCEPT !.t = Replace(NowReads(@, i, s.in), [a \in {i} |-> s.in])]

\* What bank and gprs f are once the operand r has let go of its gpr, or taken it.
FreeOf(f, r) == FreeGprs(f.b, f.u, GprsOf(r))
TakeOf(f, r) == GetGprs(f.b, f.u, GprsOf(r))

\* It reads where the line stands; in_gprs is left as it was.
Rethread(s, i, o) ==
    LET Reading(f) == [b |-> f.b,
                       t |-> Replace([NowReads(s.t, i, s.in) EXCEPT !.used = f.u],
                                    [a \in {i} |-> s.in]),
                       in |-> o]
    IN Reading(TakeOf(FreeOf([b |-> s.b, u |-> s.t.used], i), s.in))

MatchIo(s, l, slots) ==
    LET i == s.t.in[l]
        o == s.t.out[l]
    IN CASE i = s.in -> [s EXCEPT !.in = IF o = None THEN @ ELSE o]
         [] i # s.in /\ i = None /\ o = None -> s
         [] i # s.in /\ o = s.in /\ IsGpr(i) -> Swap(s, l, i, o)
         [] i # s.in /\ o = s.in /\ ~IsGpr(i) -> TakeOther(s, l, slots, i, o)
         [] OTHER -> Rethread(s, i, o)

\* One line: its patches in the order of the list, from operand r on.
Thread(m, list, l, r) ==
    LET Matched(n, p, s) == [m |-> [n EXCEPT !.bank = s.b, !.prog[p] = s.t], in |-> s.in]
    IN After(LAMBDA n, p :
                 Matched(n.m, p, MatchIo([b |-> n.m.bank, t |-> n.m.prog[p], in |-> n.in],
                                         l, m.bank.io[l])),
             [m |-> m, in |-> r],
             OnLine(list, l))

ThreadInput(m, l) ==
    LET Entered(n) == [n.m EXCEPT !.routing.in[l] = n.in]
    IN Entered(Thread(m, ilist, l, In(l)))

\* The last patch of an output line writes the line itself.
EndLine(m, p, l) ==
    LET t == m.prog[p]
        Ended(f) == [m EXCEPT !.bank = f.b,
                              !.prog[p] = [Replace(t, [a \in {t.out[l]} |-> Out(l)])
                                              EXCEPT !.used = f.u]]
    IN Ended(FreeOf([b |-> m.bank, u |-> t.used], t.out[l]))

ThreadOutput(m, l) ==
    LET here == OnLine(olist, l)
        Left(n) == IF here = <<>> THEN n ELSE EndLine(n, here[Len(here)], l)
    IN Left(Thread(m, olist, l, m.routing.out[l]).m)

-----------------------------------------------------------------------------
(* construct_routing(): a state c of it has the manager m and the code so  *)
(* far; an instruction is [dst, args], all of the three args added up.     *)

\* All routing gprs that are IO (or dynamic) are taken anew.
Holding(m, f) == [m EXCEPT !.bank = f.b, !.routing.used = f.u]
Release(m) == Holding(m, FreeGprs(m.bank, m.routing.used, Gprs))

TakeInputs(m) ==
    LET entered == UNION {GprsOf(m.routing.in[l]) : l \in Lines}
    IN [Holding(m, GetGprs(m.bank, m.routing.used, entered))
           EXCEPT !.routing.out = [l \in Lines |-> None], !.routing.code = <<>>]

\* The gpr that holds the sum of an output so far: taken once.
TakeOutput(m, o) ==
    LET Taken(g) == [Holding(m, g) EXCEPT !.routing.out[o] = Gpr(g.g)]
    IN IF m.routing.out[o] = None THEN Taken(GetIoGpr(m.bank, o, m.routing.used)) ELSE m

Emit(m, dst, args) ==
    [m EXCEPT !.routing.code = Append(@, [dst |-> dst,
                                          args |-> [k \in 1 .. 3 |->
                                              IF k <= Len(args) THEN args[k] ELSE Zero]])]

\* The order in which an output takes its routes: each op has room for one plain
\* route before the one with volume.
Terms(o) ==
    LET seq == [k \in 1 .. Cardinality(plain[o]) |->
                   [from |-> Ascending(plain[o])[k], volume |-> FALSE]]
        vols == [k \in 1 .. Cardinality(vol[o]) |->
                   [from |-> Ascending(vol[o])[k], volume |-> TRUE]]
    IN IF seq = <<>> THEN vols ELSE <<Head(seq)>> \o vols \o Tail(seq)

\* A complete op and there are more arguments: the output's gpr holds the sum.
Flush(c, o) ==
    LET Summed(m) == [m |-> Emit(m, m.routing.out[o], c.args), args |-> <<m.routing.out[o]>>]
    IN Summed(TakeOutput(c.m, o))

AddTerm(c, o, t) ==
    LET r == c.m.routing.in[t.from]
        Added(d) == [d EXCEPT !.args = IF ~t.volume THEN Append(@, r)
                                       ELSE (IF @ = <<>> THEN <<Zero>> ELSE @) \o <<r, Volume>>]
    IN Added(IF Len(c.args) = 3 THEN Flush(c, o) ELSE c)

\* Whether a patch on output o reads a gpr, or any input but the first.
HasReader(m, o) == \E p \in ToSet(olist) : o \in LinesOf[p] /\ m.prog[p].in[o] \notin {None, In(0)}

\* The last op of an output writes the line, or the gpr its first patch reads.
RouteOutput(m, o) ==
    LET Goal(n) == IF HasReader(n, o) THEN TakeOutput(n, o)
                                      ELSE [n EXCEPT !.routing.out[o] = Out(o)]
        LastOp(n, args) == Emit(n, n.routing.out[o], args)
        End(c) == LastOp(Goal(c.m), c.args)
    IN IF Terms(o) = <<>> THEN m
       ELSE End(After(LAMBDA c, t : AddTerm(c, o, t), [m |-> m, args |-> <<>>], Terms(o)))

\* construct_input_buffer(), over all ops: the input that has a neighbour which
\* is an input, too, is read from a buffer.
Buffered(code) ==
    After(LAMBDA B, op :
              After(LAMBDA C, k : IF {op.args[k], op.args[k + 1]} \subseteq Inputs \ C
                                  THEN C \cup {op.args[k]} ELSE C,
                    B, <<1, 2>>),
          {}, code)

FromBuffers(code) ==
    LET held == Buffered(code)
    IN [n \in DOMAIN code |->
           [code[n] EXCEPT !.args = [k \in 1 .. 3 |-> IF @[k] \in held THEN Buffer(@[k][2])
                                                                      ELSE @[k]]]]

ConstructRouting(m) ==
    [After(RouteOutput, TakeInputs(Release(m)), Ascending(Lines))
        EXCEPT !.routing.code = FromBuffers(@)]

\* set_io_gprs()
SetIoGprs(m) ==
    After(ThreadOutput, ConstructRouting(After(ThreadInput, m, Ascending(Lines))), Ascending(Lines))

\* The load in which get_gpr() refuses the gpr of TakeOther, and match_io() goes on
\* all the same: the second patch of the line reads the line itself, the first one
\* writes the gpr it writes and gives up the other one, which nobody else has.
Starves(m, list, l) ==
    LET here == OnLine(list, l)
        p == m.prog[here[1]]
        q == m.prog[here[2]]
    IN /\ Len(here) > 1
       /\ q.rd[l] = In(l) /\ p.wr[l] = q.wr[l]
       /\ \A g \in GprsOf(p.rd[l]) : m.bank.usage[g] <= 1

\* The fields that the records in the driver do not have.
Saved(m) ==
    [bank |-> [m.bank EXCEPT !.io = NoBank.io],
     prog |-> [p \in Patches |-> [m.prog[p] EXCEPT !.in = NoProg.in, !.out = NoProg.out]],
     routing |-> [m.routing EXCEPT !.in = NoRouting.in, !.out = NoRouting.out]]

\* dsp_load(): the routing lets go of its gprs in the end, not in the driver.
Written(m) ==
    /\ driver' = [ilist |-> ilist, olist |-> olist, plain |-> plain, vol |-> vol, mgr |-> Saved(m)]
    /\ mgr' = Release(m)

Load == /\ Open
        /\ loads' = loads + 1
        /\ Written(SetIoGprs(mgr))
        /\ granted' = (granted /\ \A l \in Lines : ~Starves(mgr, ilist, l))
        /\ UNCHANGED <<edits, ilist, olist, plain, vol>>

Next == \/ Start \/ Exit
        \/ \E r \in Connections : Connect(r[1], r[2], r[3]) \/ Disconnect(r[1], r[2])
        \/ \E p \in Patches : ReadPatch(p) \/ UnloadPatch(p)
        \/ UnloadAll
        \/ Load

Spec == Init /\ [][Next]_vars

-----------------------------------------------------------------------------
(* Properties, of what the DSP was loaded with *)

D == driver.mgr
InDriver == driver.ilist \o driver.olist

\* Types and ranges: every operand of loaded code is a register, and a gpr that
\* code names is in use.
TypeOK ==
    /\ loads \in -1 .. MaxLoads /\ edits \in 0 .. MaxEdits /\ granted \in BOOLEAN
    /\ Loaded \subseteq Patches /\ Len(ilist \o olist) = Cardinality(Loaded)
    /\ granted => \A p \in ToSet(InDriver) : \A l \in LinesOf[p] :
                     \A r \in {D.prog[p].rd[l], D.prog[p].wr[l]} :
                        r # None /\ (IsGpr(r) => D.bank.usage[r[2]] > 0)

\* A load leaves a patch without a gpr that its code names in one case only: when
\* get_gpr() has refused it and match_io(), which does not look at the answer
\* (driver_access.c:150), has put it into the code all the same.
LacksWhenRefused ==
    granted <=> \A p \in ToSet(InDriver) : \A l \in LinesOf[p] :
                   GprsOf(D.prog[p].rd[l]) \cup GprsOf(D.prog[p].wr[l]) \subseteq D.prog[p].used

\* What the code leaves in the registers, run once in the order of code memory:
\* a value is a set of signals, a signal the line it came from and the patches
\* it went through.
Through(p, value) == {Append(s, p) : s \in value}

RunPatch(regs, p) ==
    After(LAMBDA rs, l : LET t == D.prog[p]
                         IN (t.wr[l] :> Through(p, IF t.rd[l] \in DOMAIN rs THEN rs[t.rd[l]] ELSE {}))
                            @@ rs,
          regs, Ascending(LinesOf[p]))

RunOp(regs, op) ==
    (op.dst :> UNION {IF r \in DOMAIN regs THEN regs[r] ELSE {} : r \in ToSet(op.args)}) @@ regs

Powered == [r \in Inputs \cup {Buffer(l) : l \in Lines} |-> {<<In(r[2])>>}]
AfterRun == After(RunPatch,
                  After(RunOp, After(RunPatch, Powered, driver.ilist), D.routing.code),
                  driver.olist)

\* Every output line gets the sum of the inputs routed to it, each after all the
\* patches of its input line in their order, and that through all the patches of
\* the output line in theirs: no patch is passed by, reads a gpr nobody wrote or
\* one that another line has written in between ("maintain the correctness of
\* the lines", mixer/doc/README:94), unless get_gpr() has refused one.
SignalPath ==
    LET Heard(regs, o) == IF Out(o) \in DOMAIN regs THEN regs[Out(o)] ELSE {}
    IN granted => \A o \in Lines :
        Heard(AfterRun, o) =
            {<<In(i)>> \o OnLine(driver.ilist, i) \o OnLine(driver.olist, o) :
                i \in driver.plain[o] \cup driver.vol[o]}

\* The next process finds out from the gprs and their bits what the code of every
\* patch really reads and writes, unless get_gpr() has refused one.
FoundAgain ==
    LET m == ReadBack(D, InDriver)
    IN granted => \A p \in ToSet(InDriver) : \A l \in LinesOf[p] :
          m.prog[p].in[l] = m.prog[p].rd[l] /\ m.prog[p].out[l] = m.prog[p].wr[l]

\* No line has a third IO gpr: the next dsp_init() would exit() over it, and so
\* would every one after it.
TwoPerLine ==
    \A l \in Lines : Cardinality({g \in Gprs : D.bank.usage[g] > 0 /\ D.bank.line[g] = l}) <= 2

\* "if an instruction tries to access more than one of the input registers (0x00
\* to 0x20) the result is undefined" (docs/dsp.txt:48), for the instructions of the
\* routing code, where construct_input_buffer() puts buffers in place of inputs.
OneInputPerOp ==
    \A n \in DOMAIN D.routing.code :
        Cardinality(ToSet(D.routing.code[n].args) \cap Inputs) <= 1
=============================================================================
