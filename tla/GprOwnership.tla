---------------------------- MODULE GprOwnership ----------------------------
(***************************************************************************)
(* What the gpr allocator of the patch manager promises its clients.       *)
(*                                                                         *)
(* A general purpose register (gpr) of the DSP has a kind and the set of   *)
(* programs whose code uses it.  A register nobody uses can be taken with  *)
(* any kind; a register in use can be joined by another program unless it  *)
(* is STATIC; it keeps its kind as long as one program uses it, and it is  *)
(* free again in the step in which its last user drops it.                 *)
(***************************************************************************)
EXTENDS GprKinds

CONSTANTS Gpr,     \* the registers
          Owners   \* the programs: the patches and the routing patch

VARIABLES kind,    \* kind[g]: what register g is used for
          users    \* users[g]: the programs whose code uses g

avars == <<kind, users>>

AInit == /\ kind = [g \in Gpr |-> "NULL"]
         /\ users = [g \in Gpr |-> {}]

\* Program o takes the unused register g.
Take(o, g, k) ==
    /\ users[g] = {}
    /\ kind' = [kind EXCEPT ![g] = k]
    /\ users' = [users EXCEPT ![g] = {o}]

\* Program o shares register g with the programs that already use it.
Join(o, g) ==
    /\ users[g] # {}
    /\ kind[g] # "STATIC"
    /\ users' = [users EXCEPT ![g] = @ \cup {o}]
    /\ UNCHANGED kind

\* Program o stops using the registers in S.
Drop(o, S) ==
    /\ users' = [g \in Gpr |-> IF g \in S THEN users[g] \ {o} ELSE users[g]]
    /\ kind' = [g \in Gpr |-> IF g \in S /\ users[g] \subseteq {o}
                                THEN "NULL" ELSE kind[g]]

\* All programs are removed at once.
Clear == /\ kind' = [g \in Gpr |-> "NULL"]
         /\ users' = [g \in Gpr |-> {}]

ANext == \/ Clear
         \/ \E o \in Owners :
            \/ \E g \in Gpr : \/ \E k \in InUse : Take(o, g, k)
                              \/ Join(o, g)
            \/ \E S \in SUBSET Gpr : Drop(o, S)

ASpec == AInit /\ [][ANext]_avars
=============================================================================
