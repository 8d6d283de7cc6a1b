----------------------------- MODULE MCIoThread -----------------------------
(* IoThread for TLC: patches of one line and of two.                       *)
EXTENDS IoThread

CONSTANTS eq, echo, wide

MCLinesOf == (eq :> {0}) @@ (echo :> {0}) @@ (wide :> {0, 1})
Crossed == {<<0, 0, "plain">>, <<0, 0, "volume">>, <<1, 0, "volume">>, <<1, 1, "plain">>}
ToOne == {<<0, 0, "plain">>, <<1, 0, "plain">>, <<2, 0, "plain">>}

OneMiddle == (eq :> {1})

\* The two patches of one line can be taken for each other.
Alike == Permutations({eq, echo})

InLastOutFirst == {<<"in", "last">>, <<"out", "first">>}
InAnyOutFirst == InLastOutFirst \cup {<<"in", "first">>}
OutLast == {<<"out", "last">>}
=============================================================================
