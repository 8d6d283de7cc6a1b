--------------------------- MODULE SourceMeaning ---------------------------
(***************************************************************************)
(* What a source of as10k1 means, by recursion on its text: the            *)
(* instructions it stands for once macros and loops are written out        *)
(* (src/as10k1/README:385-475).  Nothing here is translated from the       *)
(* assembler: the runs compare the two.                                    *)
(*                                                                         *)
(* A source is read as intended only where it is WellFormed: outside that, *)
(* the assembler does something, but nothing says what it should be.       *)
(***************************************************************************)
EXTENDS Integers, Sequences, SequencesExt, FiniteSets, TLC

Number(n) == [kind |-> "number", name |-> "", add |-> n]
Symbol(n) == [kind |-> "symbol", name |-> n, add |-> 0]
Label(n) == [kind |-> "label", name |-> n, add |-> 0]

\* The first line after k with one of these operations, or the line past the end.
Following(lines, k, ops) ==
    LET later == {j \in k + 1 .. Len(lines) : lines[j].op \in ops}
    IN IF later = {} THEN Len(lines) + 1 ELSE CHOOSE j \in later : \A i \in later : j <= i

\* The lines of a macro, between its MACRO and its ENDM.
Body(text, name) ==
    LET f == CHOOSE g \in DOMAIN text : \E k \in DOMAIN text[g] :
                 text[g][k].op = "macro" /\ text[g][k].name = name
        k == CHOOSE j \in DOMAIN text[f] : text[f][j].op = "macro" /\ text[f][j].name = name
    IN [args |-> text[f][k].args,
        lines |-> SubSeq(text[f], k + 1, Following(text[f], k, {"endm"}) - 1)]

Defined(text, name) ==
    \E f \in DOMAIN text : \E k \in DOMAIN text[f] :
        text[f][k].op = "macro" /\ text[f][k].name = name

\* env.loop gives the running loops' indices, env.args the macro's arguments.
Resolve(o, env) ==
    LET known == env.loop @@ env.args
    IN IF o.kind = "symbol" /\ o.name \in DOMAIN known
         THEN [known[o.name] EXCEPT !.add = @ + o.add] ELSE o

\* Items: an instruction, the place where a label is asked for ("ask"), the line
\* it is on ("mark").
Asks(ops) == [k \in DOMAIN SelectSeq(ops, LAMBDA o : o.kind = "label") |->
                 [is |-> "ask", name |-> SelectSeq(ops, LAMBDA o : o.kind = "label")[k].name]]

LoopIndices(s) == IF s.to >= s.from THEN [k \in 1 .. s.to - s.from + 1 |-> s.from + k - 1]
                                    ELSE [k \in 1 .. s.from - s.to + 1 |-> s.from - k + 1]

RECURSIVE Meaning(_, _, _)
Meaning(text, lines, env) ==
    IF lines = <<>> THEN <<>> ELSE
    LET s == Head(lines)
        After(op) == SubSeq(lines, Following(lines, 1, {op}) + 1, Len(lines))
        Inner(op) == SubSeq(lines, 2, Following(lines, 1, {op}) - 1)
        Resolved(ops) == [k \in DOMAIN ops |-> Resolve(ops[k], env)]
        Rest == Meaning(text, Tail(lines), env)
    IN CASE s.op = "end" -> <<>>
         [] s.op = "instr" ->
              Asks(s.ops) \o <<[is |-> "instr", ops |-> Resolved(s.ops)]>> \o Rest
         [] s.op = "label" -> <<[is |-> "mark", name |-> s.name]>> \o Rest
         [] s.op = "macro" -> Meaning(text, After("endm"), env)
         [] s.op = "for" ->
              FlattenSeq([k \in DOMAIN LoopIndices(s) |->
                  Meaning(text, Inner("endfor"),
                          [env EXCEPT !.loop = (s.var :> Number(LoopIndices(s)[k])) @@ @])])
              \o Meaning(text, After("endfor"), env)
         [] s.op = "include" -> Meaning(text, text[s.file], env) \o Rest
         [] s.op = "call" ->
              LET m == Body(text, s.name)
                  Given(a) == Resolved(s.ops)[CHOOSE k \in DOMAIN m.args : m.args[k] = a]
              IN Asks(s.ops)
                 \o Meaning(text, m.lines, [env EXCEPT !.args = [a \in ToSet(m.args) |-> Given(a)]])
                 \o Rest
         [] OTHER -> Rest

MeaningOf(text, f) == Meaning(text, text[f], [loop |-> <<>>, args |-> <<>>])

Has(lines, op) == \E k \in DOMAIN lines : lines[k].op = op

\* Loops and macros are closed where they were opened; loops are not nested, and
\* neither files, macros nor the end of the source are in them; a macro with a loop
\* is called neither in a loop, which may be over the same index, nor in a macro.
WellFormed(text) ==
    /\ \A f \in DOMAIN text : \A k \in DOMAIN text[f] :
          LET Until(ops) == Following(text[f], k, ops)
              Found(j, op) == j <= Len(text[f]) /\ text[f][j].op = op
              fences == {"macro", "endm", "end", "include"}
          IN /\ text[f][k].op = "for" => Found(Until(fences \cup {"for", "endfor"}), "endfor")
             /\ text[f][k].op = "macro" => Found(Until(fences), "endm")
             /\ text[f][k].op = "endfor" =>
                   \E j \in 1 .. k - 1 : text[f][j].op = "for" /\ Following(text[f], j, {"endfor"}) = k
             /\ text[f][k].op = "endm" =>
                   \E j \in 1 .. k - 1 : text[f][j].op = "macro" /\ Following(text[f], j, {"endm"}) = k
    /\ \A f \in DOMAIN text : \A k \in DOMAIN text[f] :
          text[f][k].op \in {"for", "macro"} =>
             LET close == IF text[f][k].op = "for" THEN "endfor" ELSE "endm"
             IN \A j \in k .. Following(text[f], k, {close}) :
                   (text[f][j].op = "call" /\ Defined(text, text[f][j].name))
                      => ~Has(Body(text, text[f][j].name).lines, "for")

\* No operand is the index of a loop that does not run, or another macro's argument.
Closed(text, items) ==
    LET loose == UNION {UNION {IF text[f][k].op = "for" THEN {text[f][k].var}
                               ELSE IF text[f][k].op = "macro" THEN ToSet(text[f][k].args) ELSE {} :
                                  k \in DOMAIN text[f]} : f \in DOMAIN text}
    IN \A k \in DOMAIN items : items[k].is = "instr" =>
          \A n \in DOMAIN items[k].ops : items[k].ops[n].kind = "symbol" =>
             items[k].ops[n].name \notin loose

Instructions(items) == SelectSeq(items, LAMBDA i : i.is = "instr")
=============================================================================
