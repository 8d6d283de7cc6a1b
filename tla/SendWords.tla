----------------------------- MODULE SendWords -----------------------------
(***************************************************************************)
(* The packed words of struct mix_settings (mixer/lib/mix.c): four sends   *)
(* of a voice share one word, 8 bits each for the amounts and 4 bits each  *)
(* for the buses.  A word is the set of its bits that are 1, the value of  *)
(* a send the set of the bits it has within the word.                      *)
(***************************************************************************)
EXTENDS Integers

Sends == 0 .. 3
Types == 0 .. 2                  \* MONO, LEFT, RIGHT

AmountBits == 0 .. 7
BusBits == 0 .. 3

AmountMask(i) == {8 * i + b : b \in AmountBits}
BusMask(i) == {4 * i + b : b \in BusBits}

GetAmount(word, i) == {b \in AmountBits : 8 * i + b \in word}
GetBus(word, i) == {b \in BusBits : 4 * i + b \in word}

\* Mutant: the mask of the amounts reaches into the next send.
SetAmountWide(word, i, v) ==
    (word \ {8 * i + b : b \in 0 .. 8}) \cup {8 * i + b : b \in v}

\* Mutant: the bus is shifted like an amount.
SetBusFar(word, i, v) == (word \ BusMask(i)) \cup {8 * i + b : b \in v}

SetAmount(word, i, v) == (word \ AmountMask(i)) \cup {8 * i + b : b \in v}
SetBus(word, i, v) == (word \ BusMask(i)) \cup {4 * i + b : b \in v}
=============================================================================
