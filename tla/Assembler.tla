----------------------------- MODULE Assembler -----------------------------
(***************************************************************************)
(* as10k1: one pass over a source, which calls itself for macros           *)
(* (macro_expand() of src/as10k1/macro.c), loops (for_handler() of         *)
(* parse.c) and included files (asm_open() of as10k1.c).  A call of one of *)
(* the three is a frame; the top frame gives its next line to parse() and  *)
(* looks at what parse() returns.                                          *)
(*                                                                         *)
(* The source is chosen as it is read: when a frame wants a line nobody    *)
(* has read yet, the author writes one, or ends the file.                  *)
(*                                                                         *)
(* Operands are a number, a symbol or a label, plus a number; parsing of   *)
(* numbers, names of patch and controls, options and listing are left out. *)
(* There are no comments: one on a MACRO line, which macro_operand() makes *)
(* a line of its own, is not modelled.  as_exit() ends the program without *)
(* an output file.                                                         *)
(***************************************************************************)
EXTENDS SourceMeaning

CONSTANTS
    Files,      \* names of source files
    Main,       \* the one on the command line
    Starts,     \* what they may hold at first: nobody adds to the others
    Statements, \* the lines that may be added to Main
    MaxLines    \* bound: lines of Main

ASSUME SourceAssumption == Main \in Files /\ MaxLines \in Nat

GprBase == 256      \* 0x100, where ds_addr starts
DataBase == 512     \* 0x200, TRAM data registers
AddrBase == 768     \* 0x300, TRAM address registers
HardwareBase == 64  \* 0x40, the constants of the DSP
CodeSize == 512     \* instructions
MaxMacroDepth == 5
MaxInclude == 3     \* max_depth of as10k1.h
NoName == ""

VARIABLES
    text, closed,   \* lines of each file; whether its end is known
    calls,          \* the frames, the top one last
    done,           \* what parse() returned to the top frame
    defining,       \* defmacro
    macros,         \* name -> where its MACRO line is, and its arguments
    symbols,        \* sym_head
    ds, tram,       \* ds_addr, tram_addr
    blocks,         \* tram_delay and tram_lookup: the lines of each block
    code,           \* dsp_code
    out,            \* the patch file, once written
    status

table == <<symbols, ds>>
source == <<text, closed>>
vars == <<source, calls, done, defining, macros, table, tram, blocks, code, out, status>>

File(f) == [kind |-> "file", file |-> f, pos |-> 1]
NoFile == [listed |-> {}, lines |-> {}]

Top == Last(calls)
Depth == Len(SelectSeq(calls, LAMBDA c : c.kind = "macro"))   \* macro_depth
Open == Len(SelectSeq(calls, LAMBDA c : c.kind = "file"))     \* include_depth
Caller == Front(calls)
Advanced == [calls EXCEPT ![Len(calls)].pos = @ + 1]

AtEnd == Top.pos > Len(text[Top.file])

\* The first symbol of that name: an argument counts only at its own depth.
Find(syms, name, depth) ==
    SelectInSeq(syms, LAMBDA s : s.name = name /\ (s.type = "arg" => s.value = depth))
IsSymbol(syms, name) == Find(syms, name, Depth + 1) # 0

Sym(name, type, address, value) ==
    [name |-> name, type |-> type, address |-> address, value |-> value]

\* add_symbol(): NO_SYM is never refused; a constant declared again with its value
\* is not added.
Add(t, s) ==
    LET known == Find(t.symbols, s.name, Depth + 1)
    IN IF s.name # NoName /\ known # 0 /\ s.type = "constant"
         THEN [t EXCEPT !.ok = @ /\ t.symbols[known].value = s.value]
       ELSE IF s.name # NoName /\ s.type # "arg" /\ (known # 0 \/ s.name \in DOMAIN macros)
         THEN [t EXCEPT !.ok = FALSE]
       ELSE [t EXCEPT !.symbols = Append(@, s)]

\* A declaration takes an address even when its symbol is not added.
AddGpr(t, g) == [Add(t, Sym(g.name, g.type, t.ds, g.value)) EXCEPT !.ds = @ + 1]

Table == [symbols |-> symbols, ds |-> ds, ok |-> TRUE, values |-> <<>>]

\* Mutant: a skip counts from the start of the code.
DecodeFlat(t, o) ==
    LET at == Find(t.symbols, o.name, Depth)
        v == IF o.kind = "number" THEN 0 ELSE IF at # 0 THEN t.symbols[at].address ELSE 0
    IN IF o.kind = "label"
         THEN [AddGpr(t, [name |-> o.name, type |-> "static", value |-> 0])
                 EXCEPT !.values = Append(@, t.ds)]
         ELSE [t EXCEPT !.values = Append(@, v + o.add),
                        !.ok = @ /\ (o.kind = "symbol" => at # 0)]

\* arg_decode(): asking for a label makes a static gpr for it, which counts from here.
Decode(t, o) ==
    LET at == Find(t.symbols, o.name, Depth)
        v == IF o.kind = "number" THEN 0 ELSE IF at # 0 THEN t.symbols[at].address ELSE 0
    IN IF o.kind = "label"
         THEN [AddGpr(t, [name |-> o.name, type |-> "static", value |-> -Len(code)])
                 EXCEPT !.values = Append(@, t.ds)]
         ELSE [t EXCEPT !.values = Append(@, v + o.add),
                        !.ok = @ /\ (o.kind = "symbol" => at # 0)]

\* f(v), with v evaluated once.
Once(f(_), v) == CHOOSE r \in {f(u) : u \in {v}} : TRUE

\* One after another, from the symbols as they are.
InOrder(step(_, _), seq) ==
    FoldLeft(LAMBDA t, e : Once(LAMBDA u : step(u, e), t), Table, seq)

Decoded(ops) == InOrder(Decode, ops)

\* The symbol declared() finds for a register, 0 if there is none.
Register(syms, v) == SelectInSeq(syms, LAMBDA s : s.address = v /\ s.type \notin {"equate", "arg"})


Declared(syms, v, dest) ==
    /\ v \in HardwareBase .. 1023
    /\ v >= GprBase =>
          /\ Register(syms, v) # 0
          /\ dest => syms[Register(syms, v)].type # "constant"

\* An instruction writes the output of an IO pair, which follows its input.
Destination(syms, v) ==
    IF v >= GprBase /\ Register(syms, v) # 0 /\ syms[Register(syms, v)].type = "input"
      THEN v + 1 ELSE v

(***************************************************************************)
(* What makes as_exit() end the program: the statement is not accepted.    *)
(***************************************************************************)
Declares(s) ==  \* the gprs of a declaration, those before it having been added
    InOrder(AddGpr, s.gprs)

\* Arguments are evaluated outside the macro and defined inside, one after another.
BindTo(d, name) ==
    LET known == Find(d.symbols, name, Depth + 1)
        v == Last(d.values)
    IN IF known = 0 THEN Add(d, Sym(name, "arg", v, Depth + 1))
       ELSE [d EXCEPT !.symbols[known].address = v, !.ok = @ /\ d.symbols[known].type = "arg"]

Bind(t, k, s) == Once(LAMBDA d : BindTo(d, macros[s.name].args[k]), Decode(t, s.ops[k]))

Bound(s) == InOrder(LAMBDA t, k : Bind(t, k, s), [k \in DOMAIN s.ops |-> k])

NewName(name) == ~IsSymbol(symbols, name) /\ name \notin DOMAIN macros

\* Mutant: one level too many.
MayExpandDeep == Depth <= MaxMacroDepth

MayExpand == Depth + 1 <= MaxMacroDepth

\* A MACRO line without operands stores a pointer to nowhere, which a call with
\* operands follows; a call without operands is refused.
Wild(s) == s.op = "call" /\ ~defining /\ macros[s.name].args = <<>>

Accepted(s) ==
    CASE s.op = "instr" -> defining \/
            \E d \in {Decoded(s.ops)} :
               /\ d.ok /\ Len(code) < CodeSize
               /\ \A k \in DOMAIN d.values : Declared(d.symbols, d.values[k], k = 1)
      [] s.op = "gpr" -> IF defining THEN s.gprs[1].type = "constant" ELSE Declares(s).ok
      [] s.op \in {"delay", "table", "macro"} -> ~defining /\ NewName(s.name)
      [] s.op = "equate" -> ~defining /\ NewName(s.name) /\ Decoded(<<s.value>>).ok
      [] s.op = "access" -> /\ ~defining /\ NewName(s.name) /\ NewName(s.twin)
                            /\ Decoded(<<s.block>>).ok
      [] s.op = "call" -> /\ s.name \in DOMAIN macros
                          /\ defining \/ (/\ MayExpand /\ s.ops # <<>>
                                          /\ Wild(s) \/ (/\ Len(s.ops) = Len(macros[s.name].args)
                                                         /\ Bound(s).ok))
      [] s.op = "for" -> IsSymbol(symbols, s.var) \/ NewName(s.var)
      [] s.op = "include" -> ~defining /\ Open <= MaxInclude
      [] s.op = "endm" -> defining \/ Depth # 0
      [] s.op = "end" -> ~defining
      [] OTHER -> TRUE      \* a label, ENDFOR

(***************************************************************************)
(* Reading.                                                                *)
(***************************************************************************)
Init ==
    /\ text \in Starts /\ closed = [f \in Files |-> f # Main]
    /\ calls = <<File(Main)>> /\ done = 0 /\ defining = FALSE
    /\ macros = <<>> /\ symbols = <<>> /\ ds = GprBase /\ tram = 0
    /\ blocks = [delay |-> <<>>, table |-> <<>>]
    /\ code = <<>> /\ out = NoFile /\ status = "assembling"

Running == status = "assembling" /\ calls # <<>>
Wanting == Running /\ done = 0 /\ AtEnd
Reading == Running /\ done = 0 /\ ~AtEnd
Line == text[Top.file][Top.pos]
Parsing(op) == Reading /\ Line.op = op /\ Accepted(Line)

\* The source goes on, or ends here.
Write ==
    /\ Wanting /\ ~closed[Top.file]
    /\ \/ /\ Len(text[Main]) < MaxLines
          /\ \E s \in Statements : text' = [text EXCEPT ![Top.file] = Append(@, s)]
          /\ UNCHANGED closed
       \/ closed' = [closed EXCEPT ![Top.file] = TRUE] /\ UNCHANGED text
    /\ UNCHANGED <<calls, done, defining, macros, table, tram, blocks, code, out, status>>

Refuse ==
    /\ Reading /\ ~Accepted(Line)
    /\ status' = "failed"
    /\ UNCHANGED <<source, calls, done, defining, macros, table, tram, blocks, code, out>>

Returns(r) == calls' = Advanced /\ done' = r

Keeps(t) == \E u \in {t} : symbols' = u.symbols /\ ds' = u.ds

(***************************************************************************)
(* Statements: the cases of parse().                                       *)
(***************************************************************************)
Instr ==
    /\ Parsing("instr") /\ Returns(0)
    /\ IF defining THEN UNCHANGED <<table, code>>
       ELSE \E d \in {Decoded(Line.ops)} :
               /\ Keeps(d)
               /\ code' = Append(code, [k \in DOMAIN d.values |->
                              IF k = 1 THEN Destination(d.symbols, d.values[k]) ELSE d.values[k]])
    /\ UNCHANGED <<source, defining, macros, tram, blocks, out, status>>

Gpr ==
    /\ Parsing("gpr") /\ Returns(0)
    /\ IF defining THEN UNCHANGED table ELSE Keeps(Declares(Line))
    /\ UNCHANGED <<source, defining, macros, tram, blocks, code, out, status>>

Equate ==
    /\ Parsing("equate") /\ Returns(0)
    /\ LET d == Decoded(<<Line.value>>)
       IN Keeps(Add(d, Sym(Line.name, "equate", d.values[1], 0)))
    /\ UNCHANGED <<source, defining, macros, tram, blocks, code, out, status>>

\* DELAY and TABLE: the block's number, from 0x100 for a delay line.
Block ==
    /\ Running
    /\ \E kind \in {"delay", "table"} :
          /\ Parsing(kind) /\ Returns(0)
          /\ symbols' = Append(symbols, Sym(Line.name, "equate", Len(blocks[kind])
                                            + (IF kind = "delay" THEN GprBase ELSE 0), 0))
          /\ blocks' = [blocks EXCEPT ![kind] = Append(@, <<>>)]
    /\ UNCHANGED <<source, defining, macros, ds, tram, code, out, status>>

BlockOf(id) == IF id >= GprBase THEN <<"delay", id - GprBase + 1>> ELSE <<"table", id + 1>>
IsBlock(id) == BlockOf(id)[2] \in DOMAIN blocks[BlockOf(id)[1]]

\* TREAD and TWRITE: a data register, its address register, and a line of the block.
Access ==
    /\ Parsing("access")
    /\ \E d \in {Decoded(<<Line.block>>)} : \E id \in {d.values[1]} :
          /\ IsBlock(id) /\ Returns(0)
          /\ Keeps([d EXCEPT !.symbols = @ \o <<Sym(Line.name, "data", DataBase + tram, id),
                       Sym(Line.twin, Line.type, AddrBase + tram, Line.offset)>>])
          /\ blocks' = [blocks EXCEPT ![BlockOf(id)[1]][BlockOf(id)[2]] =
                            Append(@, [type |-> Line.type, line |-> tram, offset |-> Line.offset])]
    /\ tram' = tram + 1
    /\ UNCHANGED <<source, defining, macros, code, out, status>>

\* A second line for the same label counts again.
LabelLine ==
    /\ Parsing("label") /\ Returns(0)
    /\ symbols' = IF IsSymbol(symbols, Line.name)
                    THEN [symbols EXCEPT ![Find(symbols, Line.name, Depth + 1)].value =
                              @ + Len(code) - 1]
                    ELSE symbols
    /\ UNCHANGED <<source, defining, macros, ds, tram, blocks, code, out, status>>

Macro ==
    /\ Parsing("macro") /\ Returns(0)
    /\ macros' = macros @@ (Line.name :> [file |-> Top.file, pos |-> Top.pos, args |-> Line.args])
    /\ defining' = TRUE
    /\ UNCHANGED <<source, table, tram, blocks, code, out, status>>

Endm ==
    /\ Parsing("endm")
    /\ Returns(IF defining THEN 0 ELSE -1)
    /\ defining' = FALSE
    /\ UNCHANGED <<source, macros, table, tram, blocks, code, out, status>>

End == Parsing("end") /\ Returns(1)
       /\ UNCHANGED <<source, defining, macros, table, tram, blocks, code, out, status>>

Endfor == Parsing("endfor") /\ Returns(-2)
          /\ UNCHANGED <<source, defining, macros, table, tram, blocks, code, out, status>>

\* macro_expand(): the frame starts behind the MACRO line.  The first test of its
\* loop reads `done' before it is set (line 98); builds with gcc, optimized or not,
\* find it other than -1 and expand the macro, and so does the model.
Call ==
    /\ Parsing("call") /\ ~Wild(Line)
    /\ IF defining THEN Returns(0) /\ UNCHANGED table
       ELSE LET m == macros[Line.name]
            IN /\ calls' = Append(Advanced, [kind |-> "macro", file |-> m.file, pos |-> m.pos + 1])
               /\ done' = 0 /\ Keeps(Bound(Line))
    /\ UNCHANGED <<source, defining, macros, tram, blocks, code, out, status>>

Include ==
    /\ Parsing("include")
    /\ calls' = Append(Advanced, File(Line.file)) /\ done' = 0
    /\ UNCHANGED <<source, defining, macros, table, tram, blocks, code, out, status>>

Distance(s) == IF s.to > s.from THEN s.to - s.from ELSE s.from - s.to

\* for_handler(): one turn less than the loop has, the last is its caller's.
For ==
    /\ Parsing("for")
    /\ LET known == Find(symbols, Line.var, Depth + 1)
           at == IF known # 0 THEN known ELSE Len(symbols) + 1
       IN /\ symbols' = IF known # 0 THEN [symbols EXCEPT ![known].address = Line.from]
                        ELSE Append(symbols, Sym(Line.var, "equate", Line.from, 0))
          /\ IF Distance(Line) = 0 THEN Returns(-3)
             ELSE /\ calls' = Append(Advanced,
                        [kind |-> "for", file |-> Top.file, pos |-> Top.pos + 1,
                         begin |-> Top.pos + 1, var |-> at, from |-> Line.from,
                         step |-> IF Line.to > Line.from THEN 1 ELSE -1,
                         turn |-> 0, turns |-> Distance(Line)])
                  /\ done' = 0
    /\ UNCHANGED <<source, defining, macros, ds, tram, blocks, code, out, status>>

(***************************************************************************)
(* What the frames do with what parse() returned.                          *)
(***************************************************************************)
\* Mutant: the turns are one more.
MoreTurnsOne(c) == c.turn + 1 <= c.turns

MoreTurns(c) == c.turn + 1 < c.turns

\* Mutant: the loop forgets which turn it is.
TurnAgain(c) == [c EXCEPT !.pos = c.begin]

NextTurn(c) == [c EXCEPT !.pos = c.begin, !.turn = @ + 1]

\* Whatever is not 0 ends a turn, what a loop in the loop returns too.
Turn ==
    /\ Running /\ Top.kind = "for" /\ done # 0
    /\ symbols' = [symbols EXCEPT ![Top.var].address = Top.from + Top.step * (Top.turn + 1)]
    /\ IF MoreTurns(Top) THEN calls' = Append(Caller, NextTurn(Top)) /\ done' = 0
                         ELSE calls' = Caller /\ done' = -3
    /\ UNCHANGED <<source, defining, macros, ds, tram, blocks, code, out, status>>

\* A file goes on after all but END, a macro after all but ENDM.
Ignore ==
    /\ Running /\ done # 0
    /\ \/ Top.kind = "file" /\ done # 1
       \/ Top.kind = "macro" /\ done # -1
    /\ done' = 0
    /\ UNCHANGED <<source, calls, defining, macros, table, tram, blocks, code, out, status>>

MacroEnds ==
    /\ Running /\ Top.kind = "macro" /\ done = -1
    /\ calls' = Caller /\ done' = 0
    /\ UNCHANGED <<source, defining, macros, table, tram, blocks, code, out, status>>

FileEnds ==
    /\ Running /\ Top.kind = "file"
    /\ done = 1 \/ (done = 0 /\ AtEnd /\ closed[Top.file])
    /\ calls' = Caller /\ done' = IF Caller = <<>> THEN 0 ELSE -3
    /\ UNCHANGED <<source, defining, macros, table, tram, blocks, code, out, status>>

\* A loop without ENDFOR reads on past the buffer of its file; an access to a
\* block nobody declared follows a list head of zeros, a call may follow a pointer
\* to nowhere.  The program may do anything.
Stray ==
    /\ Running /\ done = 0
    /\ \/ Top.kind # "file" /\ AtEnd /\ closed[Top.file]
       \/ Parsing("access") /\ ~IsBlock(Decoded(<<Line.block>>).values[1])
       \/ Parsing("call") /\ Wild(Line)
    /\ status' = "astray"
    /\ UNCHANGED <<source, calls, done, defining, macros, table, tram, blocks, code, out>>

\* header(): the gprs by type, an IO pair as its input and the register after it.
Listed ==
    LET Of(t) == {symbols[k].address : k \in {n \in DOMAIN symbols : symbols[n].type = t}}
    IN Of("input") \cup {a + 1 : a \in Of("input")}
       \cup Of("dynamic") \cup Of("static") \cup Of("control") \cup Of("constant")

LinesOut == UNION {ToSet(b) : b \in ToSet(blocks.table) \cup ToSet(blocks.delay)}

Output ==
    /\ status = "assembling" /\ calls = <<>>
    /\ out' = [listed |-> Listed, lines |-> {l.line : l \in LinesOut}]
    /\ status' = "done"
    /\ UNCHANGED <<source, calls, done, defining, macros, table, tram, blocks, code>>

Next ==
    \/ Write \/ Refuse \/ Stray \/ Output
    \/ Instr \/ Gpr \/ Equate \/ Block \/ Access \/ LabelLine
    \/ Macro \/ Endm \/ Call \/ For \/ Endfor \/ Include \/ End
    \/ Turn \/ Ignore \/ MacroEnds \/ FileEnds

\* One process, which nothing stops; the author's file ends.
Spec == Init /\ [][Next]_vars /\ WF_vars(Next)

(***************************************************************************)
(* Properties.                                                             *)
(***************************************************************************)
\* One instruction, one register of 10 bits for every operand (op(),
\* assemble.c:66); one TRAM line for every register taken.
TypeOK ==
    /\ status \in {"assembling", "failed", "astray", "done"} /\ done \in -3 .. 1
    /\ Depth <= MaxMacroDepth /\ Open <= MaxInclude + 1
    /\ \A n \in DOMAIN code : \A k \in DOMAIN code[n] : code[n][k] \in 0 .. 1023
    /\ Cardinality(LinesOut) = tram

Items == MeaningOf(text, Main)
Meant == status = "done" /\ WellFormed(text) /\ Closed(text, Items)

\* The register an operand of the text should become.
AddressOf(name) == symbols[SelectInSeq(symbols, LAMBDA s : s.name = name /\ s.type # "arg")].address
Place(o, dest) ==
    LET v == o.add + (IF o.kind = "number" THEN 0 ELSE AddressOf(o.name))
    IN IF dest THEN Destination(symbols, v) ELSE v

\* The code is the text written out: every macro with the arguments of that call,
\* every loop once for each index from start to stop ("For <symbol>=<start>:<stop>",
\* README:450), whatever calls and loops came before.
CodeExact ==
    Meant => code = [n \in DOMAIN Instructions(Items) |->
                        [k \in DOMAIN Instructions(Items)[n].ops |->
                            Place(Instructions(Items)[n].ops[k], k = 1)]]

InMacro(name) ==
    \E f \in Files : \E k \in DOMAIN text[f] :
       text[f][k].op = "macro" /\ \E l \in ToSet(Body(text, text[f][k].name).lines) :
                                     l.op = "label" /\ l.name = name

\* A skip lands on the line of its label ("it will insert the number of instructions
\* to skip", README:472), if the label is on one line that is assembled once, behind
\* the skip and not in a macro, and the skip is the first instruction of the macro
\* that was given the label.
SkipsLand ==
    Meant => \A n \in DOMAIN Items : \A m \in n + 2 .. Len(Items) :
        (/\ Items[n].is = "ask" /\ Items[n + 1].is = "instr" /\ ~InMacro(Items[n].name)
         /\ {k \in DOMAIN Items : Items[k].is = "mark" /\ Items[k].name = Items[n].name} = {m})
        => symbols[Find(symbols, Items[n].name, 0)].value =
               Len(Instructions(SubSeq(Items, n + 2, m)))

\* The gprs that are the index of a loop, too: for_handler() gives such a symbol
\* another address, by which header() then lists it (parse.c:355, 393).
Indices == {s \in ToSet(symbols) :
               /\ s.type \in {"input", "dynamic", "static", "control", "constant"}
               /\ \E f \in Files : \E l \in ToSet(text[f]) : l.op = "for" /\ l.var = s.name}


\* Every source is assembled, refused or read past its end: no macro that calls
\* itself, file that includes itself or loop is expanded for ever.
AssemblyEnds == <>(status # "assembling")
=============================================================================
