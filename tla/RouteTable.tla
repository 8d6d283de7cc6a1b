----------------------------- MODULE RouteTable -----------------------------
(***************************************************************************)
(* What the route commands of the patch manager promise.                   *)
(*                                                                         *)
(* An input line is connected to an output line with or without a volume   *)
(* control.  A connection is changed at any time; it is removed only if    *)
(* every program attached to its lines stays connected.                    *)
(***************************************************************************)
CONSTANTS
    Ins, Outs,  \* the input and the output lines
    Patches,    \* the dsp programs
    Detached    \* the place of a program that is not loaded

Routes == Ins \X Outs
Modes == {"off", "plain", "volume"}

VARIABLES
    mode,   \* how every route is connected
    place   \* the lines every program is attached to

avars == <<mode, place>>

Feeds(i, m) == \E o \in Outs : m[<<i, o>>] # "off"
Fed(o, m) == \E i \in Ins : m[<<i, o>>] # "off"

\* The lines of the programs in the list side.
Lines(side) == UNION {place[p].lines : p \in {q \in Patches :
                          place[q] # Detached /\ place[q].side = side}}

AInit == /\ mode = [r \in Routes |-> "off"]
         /\ place = [p \in Patches |-> Detached]

Connect(r, m) == /\ mode' = [mode EXCEPT ![r] = m]
                 /\ UNCHANGED place

Disconnect(r) ==
    /\ mode' = [mode EXCEPT ![r] = "off"]
    /\ r[1] \in Lines("in") => Feeds(r[1], mode')
    /\ r[2] \in Lines("out") => Fed(r[2], mode')
    /\ UNCHANGED place

\* A program on output lines is attached only where something is connected.
Attach(p, side, L) ==
    /\ place[p] = Detached
    /\ side = "out" => \A o \in L : Fed(o, mode)
    /\ place' = [place EXCEPT ![p] = [side |-> side, lines |-> L]]
    /\ UNCHANGED mode

Detach(p) == /\ place' = [place EXCEPT ![p] = Detached]
             /\ UNCHANGED mode

Clear == /\ mode' = [r \in Routes |-> "off"]
         /\ place' = [p \in Patches |-> Detached]

ANext == \/ \E r \in Routes : \/ Connect(r, "plain")
                              \/ Connect(r, "volume")
                              \/ Disconnect(r)
         \/ \E p \in Patches : \/ \E L \in SUBSET Ins : Attach(p, "in", L)
                               \/ \E L \in SUBSET Outs : Attach(p, "out", L)
                               \/ Detach(p)
         \/ Clear

ASpec == AInit /\ [][ANext]_avars
=============================================================================
