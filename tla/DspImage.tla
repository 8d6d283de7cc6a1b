------------------------------ MODULE DspImage ------------------------------
(***************************************************************************)
(* What loading promises: the instruction memory of the DSP holds the      *)
(* programs of the process that loaded last, the input patches in the      *)
(* order of their list, the routing patch, the output patches, in one      *)
(* block ("the remaining dsp code maybe moved in order to keep it in a     *)
(* continuous block", mixer/doc/README) and nothing else; the next process *)
(* finds the same patches in the same order.                               *)
(***************************************************************************)
EXTENDS Integers, Sequences, SequencesExt

CONSTANTS
    Patches,   \* the patches the files hold
    Routing,   \* the routing patch
    Size,      \* the code size of every patch
    RSizes,    \* the sizes the code of the routing patch may have
    CodeSize,  \* DSP_CODE_SIZE: 0x400 in the code
    Nop        \* an instruction word that does nothing

VARIABLES
    work,   \* the lists of the running process
    saved,  \* the lists of the last load
    mem     \* the instruction memory

avars == <<work, saved, mem>>

Lists(i, o) == [in |-> i, out |-> o]
NoPatches == Lists(<<>>, <<>>)

\* The words of a program of n words, the k-th word of p being <<p, k>>.
Code(p, n) == [k \in 1 .. n |-> <<p, k - 1>>]
Codes(list) == FlattenSeq([j \in 1 .. Len(list) |-> Code(list[j], Size[list[j]])])
Program(w, n) == Codes(w.in) \o Code(Routing, n) \o Codes(w.out)

Memory(prog) == [a \in 0 .. CodeSize - 1 |->
                    IF a < Len(prog) THEN prog[a + 1] ELSE Nop]

AInit == work = NoPatches /\ saved = NoPatches /\ mem = Memory(<<>>)

Loaded(w) == ToSet(w.in) \cup ToSet(w.out)

\* A patch comes first or last in its list.
AReadPatch(p) ==
    /\ p \notin Loaded(work)
    /\ \/ \E l \in {<<p>> \o work.in, work.in \o <<p>>} : work' = [work EXCEPT !.in = l]
       \/ \E l \in {<<p>> \o work.out, work.out \o <<p>>} : work' = [work EXCEPT !.out = l]
    /\ UNCHANGED <<saved, mem>>

AUnload(p) ==
    /\ \/ \E j \in DOMAIN work.in :
             work.in[j] = p /\ work' = [work EXCEPT !.in = RemoveAt(@, j)]
       \/ \E j \in DOMAIN work.out :
             work.out[j] = p /\ work' = [work EXCEPT !.out = RemoveAt(@, j)]
    /\ UNCHANGED <<saved, mem>>

AUnloadAll == work' = NoPatches /\ UNCHANGED <<saved, mem>>

ALoad == \E n \in RSizes :
            /\ mem' = Memory(Program(work, n))
            /\ saved' = work
            /\ UNCHANGED work

AStart == work' = saved /\ UNCHANGED <<saved, mem>>

ANext == \/ \E p \in Patches : AReadPatch(p) \/ AUnload(p)
         \/ AUnloadAll \/ ALoad \/ AStart

ASpec == AInit /\ [][ANext]_avars
=============================================================================
