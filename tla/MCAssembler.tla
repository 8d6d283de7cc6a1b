---------------------------- MODULE MCAssembler ----------------------------
(* Assembler for TLC: a main file that begins in one of a few ways, and a  *)
(* file to include.                                                        *)
EXTENDS Assembler

Statement(op) == [op |-> op]
Ins(ops) == [op |-> "instr", ops |-> ops]
Decl(name, type, v) == [name |-> name, type |-> type, value |-> v]
GprLine(gprs) == [op |-> "gpr", gprs |-> gprs]
Io(name, o) == GprLine(<<Decl(name, "input", 0), Decl(o, "output", 0)>>)
LoopOver(name, from, to) == [op |-> "for", var |-> name, from |-> from, to |-> to]
Loop(from, to) == LoopOver("i", from, to)
CallOf(name, ops) == [op |-> "call", name |-> name, ops |-> ops]
MacroLine(name, args) == [op |-> "macro", name |-> name, args |-> args]
LabelAt(name) == [op |-> "label", name |-> name]
AccessLine(name, twin, type, b) ==
    [op |-> "access", name |-> name, twin |-> twin, type |-> type, block |-> Symbol(b), offset |-> 0]
Include_(f) == [op |-> "include", file |-> f]

a == Symbol("a")
x == Symbol("x")
i == Symbol("i")
one == [Symbol("a") EXCEPT !.add = 1]
two == [Symbol("a") EXCEPT !.add = 2]

\* A macro whose skip comes first, one that calls it and loops, and a file of both.
Branch == <<MacroLine("m", <<"x">>), Ins(<<a, x>>), Statement("endm")>>
Nested == Branch \o <<MacroLine("n", <<"x", "y">>), CallOf("m", <<x>>), Ins(<<a, Symbol("y")>>),
                      Loop(66, 65), Ins(<<a, i>>), Statement("endfor"), Statement("endm")>>
Declared_ == <<Io("a", "a.o"),
               GprLine(<<Decl("b", "dynamic", 0), Decl(NoName, "dynamic", 0)>>),
               GprLine(<<Decl("c", "constant", 1)>>), GprLine(<<Decl("c", "constant", 1)>>),
               GprLine(<<Decl("s", "static", 1), Decl(NoName, "static", 2)>>),
               GprLine(<<Decl("k", "control", 1)>>),
               [op |-> "equate", name |-> "e", value |-> [Symbol("b") EXCEPT !.add = 1]],
               [op |-> "delay", name |-> "d"], [op |-> "table", name |-> "t"],
               AccessLine("w", "w.a", "write", "d"), AccessLine("r", "r.a", "read", "t"),
               Ins(<<Symbol("w.a"), Symbol("r"), Symbol("e"), Symbol("c")>>),
               MacroLine("o", <<>>), Statement("endm")>>

Lib == <<Ins(<<a, Number(64)>>), Statement("end")>>
Self == <<Ins(<<a, a>>), Include_("lib")>>

Start(lines, lib) == [f \in {"main", "lib"} |-> IF f = "main" THEN lines ELSE lib]
MCStarts == {Start(<<Io("a", "a.o")>> \o Nested, Self), Start(Declared_, Lib)}

MCStatements ==
    {Ins(<<a, i>>), Ins(<<a, one, Label(".l")>>),
     Loop(64, 66), LoopOver("a", 65, 65), Statement("endfor"), LabelAt(".l"),
     CallOf("m", <<Label(".l")>>), CallOf("m", <<two>>), CallOf("n", <<i, a>>), CallOf("p", <<a>>),
     CallOf("o", <<a>>), MacroLine("p", <<"x">>), Statement("endm"), Include_("lib"), Statement("end"),
     AccessLine("q", "q.a", "read", "e")}
=============================================================================
