------------------------------ MODULE Ac3Play ------------------------------
(***************************************************************************)
(* play-ac3: a stream of frames, found by the sync word of the first one,  *)
(* is sent to /dev/dsp in groups, each frame in a burst of its own         *)
(* (play-ac3/play-ac3.c, play-ac3/ac3-iec958.c).                           *)
(*                                                                         *)
(* Positions count in bytes of the stream.  What is in front of the first  *)
(* frame has no sync word in it, and all frames have one size, the one     *)
(* that the table gives for the first: 0 for the size codes that AC3       *)
(* reserves, which are not refused.  A file is read in full as far as it   *)
(* goes; a pipe on stdin may give any part of what is asked for.           *)
(***************************************************************************)
EXTENDS Integers, Sequences, FiniteSetsExt

CONSTANTS
    Probe,      \* bytes read to find the sync word: 4096 in the code
    SyncInfo,   \* bytes behind a sync word that are never searched: 8
    Frames,     \* FRAMES, the frames of a group: 4
    FrameSizes, \* at 48 kHz 128 to 2560, and 0 for size codes 38 to 63
    MaxLength   \* bound: bytes of a stream, and the bursts of no bytes that are followed

ASSUME SizeAssumption == /\ Probe \in Nat /\ SyncInfo \in 0 .. Probe /\ Frames \in Nat \ {0}
                         /\ FrameSizes \subseteq Nat /\ MaxLength \in Nat

VARIABLES
    stream,     \* what is played: size of a frame, the first one, length, a pipe or a file
    pos,        \* bytes read so far
    sent,       \* where in the stream the data of each burst was
    cut,        \* a pipe gave less than asked for when frames were skipped
    pc

vars == <<stream, pos, sent, cut, pc>>

Init ==
    /\ stream \in [size : FrameSizes, first : 0 .. Probe, length : 0 .. MaxLength,
                   pipe : BOOLEAN, rate48 : BOOLEAN]
    /\ stream.first <= stream.length
    /\ pos = 0 /\ sent = <<>> /\ cut = FALSE /\ pc = "check"

\* What read(n) may return.
Got(n) == LET most == Min({n, stream.length - pos})
          IN IF stream.pipe /\ most > 0 THEN 1 .. most ELSE {most}

\* The frame is seen if its sync word is in the part that is searched.
Check ==
    /\ pc = "check"
    /\ \E r \in Got(Probe) :
          /\ pos' = r
          /\ pc' = IF r = Probe /\ stream.first <= Probe - SyncInfo /\ stream.rate48
                     THEN "seek" ELSE "failed"
    /\ UNCHANGED <<stream, sent, cut>>

\* Mutant: the bytes in front of the first frame are forgotten.
SkipShort == stream.size - (Probe % stream.size)

\* From a pipe, to the start of a frame behind the probed bytes.
Skip == stream.size - (Probe % stream.size) + stream.first

\* Mutant: the file is played from where the probe has left it.
FileStartProbed == pos

FileStart == stream.first

\* The part behind the probed bytes is read into the buffer of the probe, which
\* may be too small for it: then the program may do anything.
Seek ==
    /\ pc = "seek" /\ ~(stream.pipe /\ stream.size = 0)
    /\ \E r \in IF stream.pipe THEN Got(Skip) ELSE {0} :
          /\ pos' = IF stream.pipe THEN pos + r ELSE FileStart
          /\ cut' = (stream.pipe /\ r # Skip)
          /\ pc' \in IF r > Probe THEN {"astray"} ELSE {"play", "failed"}   \* no device
    /\ UNCHANGED <<stream, sent>>

\* The length to skip is a remainder by the size of a frame.
DivideByZero ==
    /\ pc = "seek" /\ stream.pipe /\ stream.size = 0
    /\ pc' = "astray"
    /\ UNCHANGED <<stream, pos, sent, cut>>

Group == Frames * stream.size

\* A group that is not whole ends the program, whatever was read of it; the result
\* of write() is not looked at.  Groups of no bytes are whole at the end of the file,
\* too, and go on for ever.
Play ==
    /\ pc = "play" /\ Len(sent) <= MaxLength
    /\ \E r \in Got(Group) :
          /\ pos' = pos + r
          /\ IF r = Group
               THEN /\ sent' = sent \o [k \in 1 .. Frames |-> pos + (k - 1) * stream.size]
                    /\ UNCHANGED pc
               ELSE pc' = "done" /\ UNCHANGED sent
    /\ UNCHANGED <<stream, cut>>

Next == Check \/ Seek \/ DivideByZero \/ Play

Spec == Init /\ [][Next]_vars

\* Every burst holds exactly one frame of the stream, from its sync word on, and the
\* one after the burst before: a receiver that is given a frame out of step is
\* silent or worse.  Only a short read in Seek can break it; frames of no bytes make
\* bursts of nothing.
BurstsWhole ==
    cut \/ stream.size = 0 \/
        \A k \in DOMAIN sent :
            /\ (sent[k] - stream.first) % stream.size = 0
            /\ sent[k] + stream.size <= stream.length
            /\ k > 1 => sent[k] = sent[k - 1] + stream.size

\* A file is played from its first frame on, and less than a group of it is left.
WholeFile ==
    (pc = "done" /\ ~stream.pipe) =>
        /\ sent # <<>> => sent[1] = stream.first
        /\ stream.length - stream.first - Len(sent) * stream.size < Group
=============================================================================
