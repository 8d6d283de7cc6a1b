----------------------------- MODULE AmpleCode -----------------------------
(***************************************************************************)
(* The instruction memory while the routing code is made whole and what    *)
(* is loaded has room in the memory, in the counts and in the chunks.      *)
(***************************************************************************)
EXTENDS CodeStore

\* Nothing fails half way, and no count reaches the end of its u16.
ASSUME CountAssumption ==
    /\ PartSizes = {}
    /\ \A n \in RSizes : n <= CodeSize
    /\ \A p \in Patches : Size[p] <= CodeSize
    /\ 3 * CodeSize < U16

\* The memory holds all there is.
ASSUME RoomAssumption == \A n \in RSizes \cup {0} : SizeOf(Patches) + n <= CodeSize

\* A chunk holds a whole code.
ASSUME ChunkAssumption == /\ \A p \in Patches : Size[p] <= Chunk
                          /\ \A n \in RSizes : n <= Chunk
=============================================================================
