---------------------------- MODULE Ac3PlayProofs ----------------------------
(***************************************************************************)
(* play-ac3 for streams, frames and probes of any size.                    *)
(*                                                                         *)
(* The bursts sent are one run of whole frames, and until the last group   *)
(* the file position is where the next frame of the run starts.            *)
(***************************************************************************)
EXTENDS Ac3Play, TLAPS

-----------------------------------------------------------------------------
(* Whole frames.                                                           *)

LEMMA ModMultiple == ASSUME NEW n \in Nat \ {0}, NEW m \in Int PROVE (n * m) % n = 0
  BY SMTT(20)

\* Skip ends at the start of a frame: what the last frame of the probe lacks is
\* read, and the bytes in front of the first one once more.
LEMMA SkipReachesFrame ==
    ASSUME NEW n \in Nat \ {0}, NEW a \in Nat
    PROVE  /\ n - (a % n) \in Nat \ {0}
           /\ \E m \in Int : a + (n - (a % n)) = n * m
<1>1. a = n * (a \div n) + (a % n) /\ (a \div n) \in Int /\ a % n \in 0 .. n - 1
  BY SMTT(20)
<1> DEFINE q == a \div n
           r == a % n
<1>2. a = n * q + r /\ q \in Int /\ r \in 0 .. n - 1
  BY <1>1
<1> HIDE DEF q, r
<1>3. q + 1 \in Int /\ n * (q + 1) = n * q + n /\ n * q \in Int
  BY <1>2
<1>4. n - r \in Nat \ {0} /\ a + (n - r) = n * (q + 1)
  BY <1>2, <1>3
<1>5. QED
  BY <1>3, <1>4 DEF r

LEMMA LeastIsMin ==
    ASSUME NEW x \in Int, NEW y \in Int
    PROVE  Min({x, y}) = IF x <= y THEN x ELSE y
  BY DEF Min

-----------------------------------------------------------------------------
(* The inductive invariant.                                                *)

\* What does not change: the stream.
Stream ==
    /\ stream \in [size : FrameSizes, first : 0 .. Probe, length : 0 .. MaxLength,
                   pipe : BOOLEAN, rate48 : BOOLEAN]
    /\ stream.first <= stream.length

StartOfFrame(x) == \E m \in Int : x = stream.first + stream.size * m

\* The bursts are frames of the stream in a row, and end before x.
Run(x) ==
    \A k \in DOMAIN sent :
        /\ sent[k] \in Int
        /\ StartOfFrame(sent[k])
        /\ sent[k] + stream.size <= x
        /\ k > 1 => sent[k] = sent[k - 1] + stream.size

\* The position is behind the last burst.
Behind == /\ StartOfFrame(pos)
          /\ Run(pos)
          /\ sent # <<>> => pos = sent[Len(sent)] + stream.size

\* A file is played from its first frame.
FromFirst == /\ pos = stream.first + Len(sent) * stream.size
             /\ sent # <<>> => sent[1] = stream.first

IInv ==
    /\ Stream
    /\ pos \in 0 .. stream.length
    /\ sent \in Seq(Int)
    /\ cut \in BOOLEAN
    /\ pc \in {"check", "seek", "play", "astray", "done", "failed"}
    /\ pc \in {"check", "seek", "astray", "failed"} => sent = <<>>
    /\ pc = "seek" => pos = Probe
    /\ pc = "play" => /\ ~cut => Behind
                      /\ ~stream.pipe => FromFirst
    /\ pc = "done" => /\ ~cut => Run(stream.length)
                      /\ ~stream.pipe => WholeFile


LEMMA StreamType ==
    ASSUME Stream
    PROVE  /\ stream.size \in Nat /\ stream.first \in Nat /\ stream.length \in Nat
           /\ Probe \in Nat /\ Frames \in Nat \ {0}
           /\ Group \in Nat /\ Group = Frames * stream.size
<1>1. stream.size \in FrameSizes /\ stream.first \in 0 .. Probe /\ stream.length \in 0 .. MaxLength
  BY DEF Stream
<1>2. Probe \in Nat /\ Frames \in Nat \ {0} /\ FrameSizes \subseteq Nat /\ MaxLength \in Nat
  BY SizeAssumption
<1>3. stream.size \in Nat /\ stream.first \in Nat /\ stream.length \in Nat
  <2>1. stream.first \in Nat
    BY <1>1, <1>2
  <2>2. stream.length \in Nat
    BY <1>1, <1>2
  <2>3. \A x \in FrameSizes : x \in Nat
    BY <1>2
  <2>4. stream.size \in Nat
    BY <1>1, <2>3, Zenon
  <2>5. QED
    BY <2>1, <2>2, <2>4
<1> DEFINE n == stream.size
<1>4. n \in Nat
  BY <1>3
<1> HIDE DEF n
<1>5. Frames * n \in Nat
  BY <1>2, <1>4
<1>6. QED
  BY <1>2, <1>3, <1>5 DEF Group, n

LEMMA InitIInv == Init => IInv
<1>1. SUFFICES ASSUME Init PROVE IInv
  OBVIOUS
<1>2. Stream
  BY <1>1 DEF Init, Stream
<1>3. pos \in 0 .. stream.length /\ sent \in Seq(Int)
  BY <1>1, <1>2, StreamType DEF Init
<1>4. QED
  BY <1>1, <1>2, <1>3 DEF Init, IInv

LEMMA GotBounds ==
    ASSUME Stream, pos \in 0 .. stream.length, NEW n \in Nat, NEW r \in Got(n)
    PROVE  /\ r \in 0 .. n /\ pos + r <= stream.length
           /\ ~stream.pipe => r = n \/ pos + r = stream.length
<1>1. stream.length - pos \in Nat /\ Min({n, stream.length - pos}) =
         IF n <= stream.length - pos THEN n ELSE stream.length - pos
  BY StreamType, LeastIsMin
<1>2. CASE stream.pipe
  BY <1>1, <1>2, StreamType DEF Got
<1>3. CASE ~stream.pipe
  BY <1>1, <1>3, StreamType DEF Got
<1>4. QED
  BY <1>2, <1>3

LEMMA CheckIInv == ASSUME IInv, Check PROVE IInv'
<1>1. PICK r \in Got(Probe) :
         /\ pos' = r
         /\ pc' = IF r = Probe /\ stream.first <= Probe - SyncInfo /\ stream.rate48
                    THEN "seek" ELSE "failed"
  BY DEF Check
<1>2. pos' \in 0 .. stream.length
  BY <1>1, GotBounds, StreamType DEF IInv, Check
<1>3. QED
  BY <1>1, <1>2 DEF IInv, Check, Stream

LEMMA SeekIInv == ASSUME IInv, Seek PROVE IInv'
<1>1. PICK r \in IF stream.pipe THEN Got(Skip) ELSE {0} :
         /\ pos' = IF stream.pipe THEN pos + r ELSE FileStart
         /\ cut' = (stream.pipe /\ r # Skip)
         /\ pc' \in IF r > Probe THEN {"astray"} ELSE {"play", "failed"}
  BY DEF Seek
<1>2. pos = Probe /\ sent = <<>> /\ UNCHANGED <<stream, sent>> /\ Stream
  BY DEF IInv, Seek
<1>3. stream.pipe => stream.size \in Nat \ {0} /\ Skip \in Nat
  <2>1. SUFFICES ASSUME stream.pipe PROVE stream.size \in Nat \ {0} /\ Skip \in Nat
    OBVIOUS
  <2>2. stream.size \in Nat \ {0}
    BY <1>2, <2>1, StreamType DEF Seek
  <2>3. stream.size - (Probe % stream.size) \in Nat /\ stream.first \in Nat
    BY <1>2, <2>2, StreamType, SkipReachesFrame
  <2>4. QED
    BY <2>2, <2>3 DEF Skip
<1>4. pos' \in 0 .. stream.length
  BY <1>1, <1>3, GotBounds, StreamType DEF IInv, FileStart, Stream
<1>5. ~cut' => \E m \in Int : pos' = stream.first + stream.size * m
  <2>1. CASE stream.pipe /\ r = Skip
    <3>1. PICK m \in Int : Probe + (stream.size - (Probe % stream.size)) = stream.size * m
      BY <1>2, <1>3, <2>1, StreamType, SkipReachesFrame
    <3>2. stream.size - (Probe % stream.size) \in Nat
      BY <1>2, <1>3, <2>1, StreamType, SkipReachesFrame
    <3>3. pos' = stream.first + stream.size * m
      BY <1>1, <1>2, <2>1, <3>1, <3>2, StreamType DEF Skip
    <3>4. QED
      BY <3>3
  <2>2. CASE ~stream.pipe
    <3>1. pos' = stream.first + stream.size * 0
      BY <1>1, <1>2, <2>2, StreamType DEF FileStart
    <3>2. QED
      BY <3>1
  <2>3. QED
    BY <1>1, <2>1, <2>2
<1>6. ~stream.pipe => FromFirst'
  BY <1>1, <1>2, StreamType DEF FromFirst, FileStart
<1>7. ~cut' => Behind'
  BY <1>2, <1>5 DEF Behind, Run, StartOfFrame
<1>8. pc' \in {"astray", "play", "failed"} /\ cut' \in BOOLEAN
  BY <1>1
<1>9. QED
  BY <1>2, <1>4, <1>6, <1>7, <1>8 DEF IInv, Stream

\* A whole group: Frames bursts behind the ones before.
Burst(k) == pos + (k - 1) * stream.size
Bursts == [k \in 1 .. Frames |-> Burst(k)]

LEMMA BurstType ==
    ASSUME IInv, NEW k \in 1 .. Frames
    PROVE  /\ Burst(k) \in Int
           /\ k > 1 => Burst(k) = Burst(k - 1) + stream.size
           /\ Burst(k) + stream.size <= pos + Group
           /\ Burst(1) = pos /\ Burst(Frames) + stream.size = pos + Group
           /\ StartOfFrame(pos) => StartOfFrame(Burst(k))
<1> DEFINE n == stream.size
<1>1. n \in Nat /\ Frames \in Nat \ {0} /\ pos \in Nat /\ k \in Nat \ {0} /\ k <= Frames
      /\ Group = Frames * n /\ stream.first \in Nat
  BY StreamType DEF IInv
<1> HIDE DEF n
<1>2. /\ (k - 1) * n \in Int /\ Frames * n \in Int
      /\ (k - 1) * n = ((k - 1) - 1) * n + n
      /\ (k - 1) * n + n <= Frames * n
      /\ (Frames - 1) * n + n = Frames * n /\ (1 - 1) * n = 0
      /\ (Frames - 1) * n \in Int /\ ((k - 1) - 1) * n \in Int
  <2>1. (k - 1) * n + n = k * n /\ (k - 1) * n = ((k - 1) - 1) * n + n
    BY <1>1
  <2>2. k * n <= Frames * n
    BY <1>1
  <2>3. QED
    BY <1>1, <2>1, <2>2
<1>3. ASSUME NEW m \in Int, pos = stream.first + n * m
      PROVE  Burst(k) = stream.first + n * (m + (k - 1))
  <2>1. n * (m + (k - 1)) = n * m + (k - 1) * n /\ n * m \in Int
    BY <1>1
  <2>2. QED
    BY <1>1, <1>2, <1>3, <2>1 DEF Burst, n
<1>4. StartOfFrame(pos) => StartOfFrame(Burst(k))
  <2>1. \A m \in Int : m + (k - 1) \in Int
    BY <1>1
  <2>2. QED
    BY <1>3, <2>1 DEF StartOfFrame, n
<1>5. QED
  BY <1>1, <1>2, <1>4 DEF Burst, n

LEMMA Joined ==
    ASSUME NEW s \in Seq(Int), NEW t \in Seq(Int)
    PROVE  /\ s \o t \in Seq(Int) /\ Len(s \o t) = Len(s) + Len(t)
           /\ \A k \in 1 .. Len(s) : (s \o t)[k] = s[k]
           /\ \A k \in 1 .. Len(t) : (s \o t)[Len(s) + k] = t[k]
  OBVIOUS

LEMMA PlayWhole ==
    ASSUME IInv, pc = "play", pos' = pos + Group, pos + Group <= stream.length,
           sent' = sent \o Bursts, UNCHANGED <<stream, cut, pc>>
    PROVE  IInv'
<1>1. /\ Stream /\ sent \in Seq(Int) /\ pos \in Nat /\ Group \in Nat
      /\ Frames \in Nat \ {0} /\ stream.size \in Nat /\ stream.first \in Nat
      /\ stream.length \in Nat
  BY StreamType DEF IInv
<1>2. Bursts \in Seq(Int) /\ Len(Bursts) = Frames /\ \A k \in 1 .. Frames : Bursts[k] = Burst(k)
  BY <1>1, BurstType DEF Bursts
<1> DEFINE n == Len(sent)
<1>3. /\ sent' \in Seq(Int) /\ Len(sent') = n + Frames /\ n \in Nat
      /\ DOMAIN sent = 1 .. n /\ DOMAIN sent' = 1 .. n + Frames
      /\ \A k \in 1 .. n : sent'[k] = sent[k]
      /\ \A k \in 1 .. Frames : sent'[n + k] = Burst(k)
  <2>1. n \in Nat /\ DOMAIN sent = 1 .. n
    BY <1>1
  <2>2. sent' \in Seq(Int) /\ Len(sent') = n + Frames
    BY <1>1, <1>2, Joined
  <2>3. DOMAIN sent' = 1 .. n + Frames
    BY <2>2
  <2>4. \A k \in 1 .. n : sent'[k] = sent[k]
    BY <1>1, <1>2, Joined
  <2>5. \A k \in 1 .. Frames : sent'[n + k] = Burst(k)
    BY <1>1, <1>2, Joined
  <2>6. QED
    BY <2>1, <2>2, <2>3, <2>4, <2>5
<1> HIDE DEF n
<1>4. /\ Burst(1) = pos /\ Burst(Frames) + stream.size = pos + Group
      /\ sent'[n + 1] = pos /\ sent'[n + Frames] = Burst(Frames) /\ sent' # <<>>
  <2>1. 1 \in 1 .. Frames /\ Frames \in 1 .. Frames
    BY <1>1
  <2>2. Burst(1) = pos /\ Burst(Frames) + stream.size = pos + Group
    BY <2>1, BurstType
  <2>3. sent'[n + 1] = Burst(1) /\ sent'[n + Frames] = Burst(Frames)
    BY <1>3, <2>1
  <2>4. sent' # <<>>
    BY <1>1, <1>3
  <2>5. QED
    BY <2>2, <2>3, <2>4
<1>5. ASSUME Behind PROVE Behind'
  <2>1. StartOfFrame(pos)'
    <3>1. PICK m \in Int : pos = stream.first + stream.size * m
      BY <1>5 DEF Behind, StartOfFrame
    <3>2. Group = stream.size * Frames
      BY <1>1 DEF Group
    <3>3. stream.size * (m + Frames) = stream.size * m + stream.size * Frames
          /\ stream.size * m \in Int /\ stream.size * Frames \in Int
      BY <1>1
    <3>4. m + Frames \in Int
      BY <1>1
    <3> DEFINE x == stream.size * m
               y == stream.size * Frames
    <3>5. x \in Int /\ y \in Int /\ Group = y /\ pos = stream.first + x
          /\ stream.size * (m + Frames) = x + y
      BY <3>1, <3>2, <3>3
    <3> HIDE DEF x, y
    <3>6. pos + Group = stream.first + stream.size * (m + Frames)
      <4>1. \A f, u, v \in Int : (f + u) + v = f + (u + v)
        OBVIOUS
      <4>2. stream.first \in Int
        BY <1>1
      <4>3. QED
        BY <3>5, <4>1, <4>2
    <3>7. pos' = stream'.first + stream'.size * (m + Frames)
      BY <3>6
    <3>8. QED
      BY <3>4, <3>7 DEF StartOfFrame
  <2>2. ASSUME NEW k \in 1 .. n + Frames
        PROVE  /\ sent'[k] \in Int
               /\ StartOfFrame(sent'[k])
               /\ sent'[k] + stream.size <= pos + Group
               /\ k > 1 => sent'[k] = sent'[k - 1] + stream.size
    <3>1. CASE k \in 1 .. n
      <4>1. /\ sent[k] \in Int /\ StartOfFrame(sent[k]) /\ sent[k] + stream.size <= pos
            /\ k > 1 => sent[k] = sent[k - 1] + stream.size
        BY <1>3, <1>5, <3>1 DEF Behind, Run
      <4>2. sent'[k] = sent[k] /\ (k > 1 => sent'[k - 1] = sent[k - 1])
        BY <1>3, <3>1
      <4>3. sent'[k] + stream.size <= pos + Group
        BY <1>1, <4>1, <4>2
      <4>4. QED
        BY <4>1, <4>2, <4>3
    <3>2. CASE k = n + 1
      <4>1. 1 \in 1 .. Frames /\ sent'[k] = Burst(1)
        BY <1>1, <1>3, <3>2
      <4>2. n > 0 => sent'[k - 1] = sent[n] /\ pos = sent[n] + stream.size
        <5>1. ASSUME n > 0 PROVE sent # <<>> /\ n \in 1 .. n
          BY <1>3, <5>1 DEF n
        <5>2. QED
          BY <1>3, <1>5, <3>2, <5>1 DEF Behind, n
      <4>3. QED
        BY <1>3, <1>4, <1>5, <3>2, <4>1, <4>2, BurstType DEF Behind
    <3>3. CASE k \in n + 2 .. n + Frames
      <4> DEFINE j == k - n
      <4>1. j \in 2 .. Frames /\ k = n + j /\ k - 1 = n + (j - 1) /\ j - 1 \in 1 .. Frames
        BY <1>1, <1>3, <3>3
      <4>2. sent'[n + j] = Burst(j) /\ sent'[n + (j - 1)] = Burst(j - 1)
        <5>1. j \in 1 .. Frames
          BY <1>1, <4>1
        <5>2. QED
          BY <1>3, <4>1, <5>1
      <4> HIDE DEF j
      <4>3. sent'[k] = Burst(j) /\ sent'[k - 1] = Burst(j - 1)
        BY <4>1, <4>2
      <4>4. j \in 1 .. Frames /\ j > 1
        BY <1>1, <4>1
      <4>5. /\ Burst(j) \in Int /\ Burst(j) = Burst(j - 1) + stream.size
            /\ Burst(j) + stream.size <= pos + Group /\ StartOfFrame(Burst(j))
        BY <1>5, <4>4, BurstType DEF Behind
      <4>6. QED
        BY <4>3, <4>5
    <3>4. QED
      BY <1>1, <1>3, <2>2, <3>1, <3>2, <3>3
  <2>3. Run(pos)'
    BY <1>3, <2>2 DEF Run, StartOfFrame
  <2>4. pos' = sent'[Len(sent')] + stream'.size
    BY <1>3, <1>4
  <2>5. QED
    BY <2>1, <2>3, <2>4 DEF Behind
<1>6. ASSUME FromFirst PROVE FromFirst'
  <2>1. (n + Frames) * stream.size = n * stream.size + Frames * stream.size
        /\ n * stream.size \in Int /\ Frames * stream.size \in Int
    BY <1>1, <1>3
  <2>2. pos' = stream.first + Len(sent') * stream.size
    <3> DEFINE x == n * stream.size
               y == Frames * stream.size
    <3>1. /\ x \in Int /\ y \in Int /\ Group = y /\ (n + Frames) * stream.size = x + y
      BY <2>1 DEF Group
    <3>2. pos = stream.first + x
      BY <1>6 DEF FromFirst, n
    <3>3. Len(sent') * stream.size = x + y
      BY <1>3, <3>1
    <3> HIDE DEF x, y
    <3>4. \A f, u, v \in Int : (f + u) + v = f + (u + v)
      OBVIOUS
    <3>5. stream.first \in Int /\ pos' = pos + Group
      BY <1>1
    <3>6. QED
      BY <3>1, <3>2, <3>3, <3>4, <3>5
  <2>3. sent'[1] = stream.first
    <3>1. CASE n = 0
      <4>1. n * stream.size = 0 /\ sent'[1] = pos
        BY <1>1, <1>3, <1>4, <3>1
      <4>2. QED
        BY <1>1, <1>6, <4>1 DEF FromFirst, n
    <3>2. CASE n > 0
      BY <1>3, <1>6, <3>2 DEF FromFirst, n
    <3>3. n \in Nat
      BY <1>3
    <3>4. n = 0 \/ n > 0
      BY <3>3
    <3>5. QED
      BY <3>1, <3>2, <3>4
  <2>4. QED
    BY <2>2, <2>3 DEF FromFirst
<1>7. QED
  BY <1>1, <1>3, <1>5, <1>6 DEF IInv, Stream

LEMMA PlayLast ==
    ASSUME IInv, pc = "play", NEW r \in Got(Group), r # Group, pos' = pos + r, pc' = "done",
           UNCHANGED <<stream, sent, cut>>
    PROVE  IInv'
<1>1. /\ Stream /\ Group \in Nat /\ pos \in Nat /\ stream.length \in Nat
      /\ stream.size \in Nat /\ pos <= stream.length
  BY StreamType DEF IInv
<1>2. r \in 0 .. Group /\ pos + r <= stream.length /\ (~stream.pipe => pos + r = stream.length)
  BY <1>1, GotBounds DEF IInv
<1>3. ASSUME ~cut PROVE Run(stream.length)'
  <2>1. Run(pos)
    BY <1>3 DEF IInv, Behind
  <2>2. Run(stream.length)
    BY <1>1, <2>1 DEF Run
  <2>3. QED
    BY <2>2 DEF Run, StartOfFrame
<1>4. ASSUME ~stream.pipe PROVE WholeFile'
  <2>1. FromFirst
    BY <1>4 DEF IInv
  <2>2. stream.first \in Nat /\ Len(sent) * stream.size \in Int
    BY <1>1, StreamType DEF IInv
  <2>3. stream.length - stream.first - Len(sent) * stream.size = r
    <3> DEFINE run == Len(sent) * stream.size
    <3>1. pos = stream.first + run /\ run \in Int
      BY <2>1, <2>2 DEF FromFirst
    <3> HIDE DEF run
    <3>2. pos + r = stream.length /\ r \in Int
      BY <1>1, <1>2, <1>4
    <3>3. \A f, x, y \in Int : ((f + x) + y) - f - x = y
      OBVIOUS
    <3>4. (stream.first + run) + r = stream.length /\ stream.first \in Int
      BY <2>2, <3>1, <3>2
    <3>5. stream.length - stream.first - run = r
      BY <3>1, <3>2, <3>3, <3>4
    <3>6. QED
      BY <3>5 DEF run
  <2>4. QED
    BY <1>1, <1>2, <2>1, <2>3 DEF WholeFile, FromFirst, Group
<1>5. QED
  BY <1>1, <1>2, <1>3, <1>4 DEF IInv, Stream

LEMMA PlayIInv == ASSUME IInv, Play PROVE IInv'
<1>1. PICK r \in Got(Group) :
         /\ pos' = pos + r
         /\ IF r = Group
              THEN /\ sent' = sent \o [k \in 1 .. Frames |-> pos + (k - 1) * stream.size]
                   /\ UNCHANGED pc
              ELSE pc' = "done" /\ UNCHANGED sent
  BY DEF Play
<1>2. CASE r = Group
  <2>1. pos + Group <= stream.length
    BY <1>2, GotBounds, StreamType DEF IInv
  <2>2. QED
    BY <1>1, <1>2, <2>1, PlayWhole DEF Play, Bursts, Burst
<1>3. CASE r # Group
  BY <1>1, <1>3, PlayLast DEF Play
<1>4. QED
  BY <1>2, <1>3

LEMMA NextIInv == ASSUME IInv, [Next]_vars PROVE IInv'
<1>1. CASE UNCHANGED vars
  BY <1>1 DEF vars, IInv, Stream, Behind, Run, StartOfFrame, FromFirst, WholeFile, Group
<1>2. CASE DivideByZero
  BY <1>2 DEF DivideByZero, IInv, Stream
<1>3. QED
  BY <1>1, <1>2, CheckIInv, SeekIInv, PlayIInv DEF Next

-----------------------------------------------------------------------------
(* The properties.                                                         *)

LEMMA RunIsWhole == ASSUME IInv, ~cut, stream.size # 0 PROVE BurstsWhole
<1>1. Stream /\ pos <= stream.length /\ sent \in Seq(Int) /\ stream.size \in Nat \ {0}
  BY StreamType DEF IInv
<1>2. Run(stream.length)
  <2>1. CASE sent = <<>>
    BY <2>1 DEF Run
  <2>2. CASE pc = "done"
    BY <2>2 DEF IInv
  <2>3. CASE pc = "play"
    <3>1. Run(pos) /\ pos \in Int /\ stream.length \in Int /\ stream.size \in Int
      BY <1>1, <2>3, StreamType DEF IInv, Behind
    <3>2. QED
      BY <1>1, <3>1 DEF Run
  <2>4. QED
    BY <2>1, <2>2, <2>3 DEF IInv
<1>3. ASSUME NEW k \in DOMAIN sent PROVE (sent[k] - stream.first) % stream.size = 0
  <2>1. PICK m \in Int : sent[k] = stream.first + stream.size * m
    BY <1>2 DEF Run, StartOfFrame
  <2>2. sent[k] - stream.first = stream.size * m
    <3> DEFINE x == stream.size * m
    <3>1. x \in Int /\ stream.first \in Int /\ sent[k] = stream.first + x
      BY <1>1, <2>1, StreamType
    <3> HIDE DEF x
    <3>2. sent[k] - stream.first = x
      BY <3>1
    <3>3. QED
      BY <3>2 DEF x
  <2>3. QED
    BY <1>1, <2>2, StreamType, ModMultiple
<1>4. QED
  BY <1>2, <1>3 DEF BurstsWhole, Run

\* Every burst is exactly one frame of the stream and the next one follows it,
\* for frames, probes and streams of any size, unless a pipe cut Seek short.
THEOREM BurstsAreWhole == Spec => []BurstsWhole
<1>1. IInv => BurstsWhole
  BY RunIsWhole DEF IInv, BurstsWhole
<1>2. QED
  BY InitIInv, NextIInv, <1>1, PTL DEF Spec

\* A file is played from its first frame on and to less than a group of its end.
THEOREM FilesArePlayedWhole == Spec => []WholeFile
<1>1. IInv => WholeFile
  BY DEF IInv, WholeFile
<1>2. QED
  BY InitIInv, NextIInv, <1>1, PTL DEF Spec
=============================================================================
