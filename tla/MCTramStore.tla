---------------------------- MODULE MCTramStore ----------------------------
(* TramStore for three patches: a table and a delay, a delay that goes     *)
(* where there is room, and an external one with two lines.                *)
EXTENDS TramStore

CONSTANTS echo, chorus, reverb

Line(o, a) == [op |-> o, at |-> a]
Block(n, k, ls) == [size |-> n, kind |-> k, lines |-> ls]

MCTables == (echo :> <<Block(1, "internal", <<Line(READ, 0)>>)>>)
         @@ (chorus :> <<>>)
         @@ (reverb :> <<>>)
MCDelays == (echo :> <<Block(2, "any", <<Line(WRITE, 0), Line(READ, 1)>>)>>)
         @@ (chorus :> <<Block(2, "any", <<Line(WRITE, 0), Line(READ, 1)>>)>>)
         @@ (reverb :> <<Block(1, "external", <<Line(WRITE, 0)>>), Block(2, "external", <<Line(READ, 1)>>)>>)
=============================================================================
