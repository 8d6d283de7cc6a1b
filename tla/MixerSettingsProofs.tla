------------------------ MODULE MixerSettingsProofs ------------------------
(***************************************************************************)
(* Theorems about MixerSettings, for any number of programs, options and   *)
(* clicks.                                                                 *)
(***************************************************************************)
EXTENDS MixerSettings, TLAPS

-----------------------------------------------------------------------------
(* Words: a send is set within its own bits *)

LEMMA SetAmountType ==
    ASSUME NEW w \in SUBSET (0 .. 31), NEW i \in Sends, NEW v \in SUBSET AmountBits
    PROVE  SetAmount(w, i, v) \in SUBSET (0 .. 31)
<1>1. \A b \in AmountBits : 8 * i + b \in 0 .. 31
  BY DEF AmountBits, Sends
<1>2. {8 * i + b : b \in v} \subseteq 0 .. 31
  BY <1>1
<1> QED BY <1>2 DEF SetAmount

LEMMA SetBusType ==
    ASSUME NEW w \in SUBSET (0 .. 15), NEW i \in Sends, NEW v \in SUBSET BusBits
    PROVE  SetBus(w, i, v) \in SUBSET (0 .. 15)
<1>1. \A b \in BusBits : 4 * i + b \in 0 .. 15
  BY DEF BusBits, Sends
<1>2. {4 * i + b : b \in v} \subseteq 0 .. 15
  BY <1>1
<1> QED BY <1>2 DEF SetBus

LEMMA SetAmountApart ==
    ASSUME NEW w, NEW i \in Sends, NEW j \in Sends, i # j, NEW v \in SUBSET AmountBits
    PROVE  GetAmount(SetAmount(w, i, v), j) = GetAmount(w, j)
<1>1. ASSUME NEW b \in AmountBits
      PROVE  8 * j + b \in SetAmount(w, i, v) <=> 8 * j + b \in w
  <2>1. \A c \in AmountBits : 8 * i + c # 8 * j + b
    BY DEF AmountBits, Sends
  <2> QED BY <2>1 DEF SetAmount, AmountMask
<1> QED BY <1>1 DEF GetAmount

LEMMA SetBusApart ==
    ASSUME NEW w, NEW i \in Sends, NEW j \in Sends, i # j, NEW v \in SUBSET BusBits
    PROVE  GetBus(SetBus(w, i, v), j) = GetBus(w, j)
<1>1. ASSUME NEW b \in BusBits
      PROVE  4 * j + b \in SetBus(w, i, v) <=> 4 * j + b \in w
  <2>1. \A c \in BusBits : 4 * i + c # 4 * j + b
    BY DEF BusBits, Sends
  <2> QED BY <2>1 DEF SetBus, BusMask
<1> QED BY <1>1 DEF GetBus

-----------------------------------------------------------------------------
(* Settings: what two of them differ in *)

LEMMA DifferSym ==
    ASSUME NEW a, NEW b
    PROVE  Differ(a, b) = Differ(b, a)
BY DEF Differ

LEMMA DifferSelf ==
    ASSUME NEW a
    PROVE  Differ(a, a) = {}
BY DEF Differ

LEMMA DifferVia ==
    ASSUME NEW a, NEW b, NEW c
    PROVE  Differ(a, c) \subseteq Differ(a, b) \cup Differ(b, c)
BY DEF Differ

LEMMA HalvesAreAll == Fields = RecFields \cup VoiceFields
BY DEF Fields

LEMMA SettingsType ==
    ASSUME NEW c \in Settings
    PROVE  /\ c.src \in 0 .. 3 /\ c.fxwc \in SUBSET (0 .. 15)
           /\ c.routing \in [Types -> SUBSET (0 .. 15)]
           /\ c.amount \in [Types -> SUBSET (0 .. 31)]
           /\ c = [src |-> c.src, fxwc |-> c.fxwc, routing |-> c.routing, amount |-> c.amount]
BY DEF Settings

LEMMA JoinedType ==
    ASSUME NEW a \in Settings, NEW b \in Settings
    PROVE  /\ Joined(a, b) \in Settings
           /\ Joined(a, b).src = a.src /\ Joined(a, b).fxwc = a.fxwc
           /\ Joined(a, b).routing = b.routing /\ Joined(a, b).amount = b.amount
BY SettingsType DEF Joined, Settings

LEMMA ZeroType == Zero \in Settings
BY DEF Zero, Settings

LEMMA FieldKinds ==
    /\ \A f \in RecFields : f[1] \in {"src", "fx"}
    /\ \A f \in VoiceFields : f[1] \in {"bus", "amount"}
BY DEF RecFields, VoiceFields

\* The recording half written, what differs is in the voice half.
LEMMA RecOfDiffers ==
    ASSUME NEW a \in Settings, NEW b \in Settings
    PROVE  Differ(RecOf(a, b), b) \subseteq Differ(a, b) \ RecFields
<1> DEFINE r == RecOf(a, b)
<1>1. r.src = b.src /\ r.fxwc = b.fxwc /\ r.routing = a.routing /\ r.amount = a.amount
  BY JoinedType DEF RecOf
<1> HIDE DEF r
<1>2. SUFFICES ASSUME NEW f \in Differ(r, b)
               PROVE  f \in Differ(a, b) \ RecFields
  BY DEF r
<1>3. f \in Fields /\ f[1] \in {"bus", "amount"} /\ f \in Differ(a, b)
  BY <1>1 DEF Differ
<1> QED BY <1>3, FieldKinds

LEMMA VoiceOfDiffers ==
    ASSUME NEW a \in Settings, NEW b \in Settings
    PROVE  Differ(VoiceOf(a, b), b) \subseteq Differ(a, b) \ VoiceFields
<1> DEFINE r == VoiceOf(a, b)
<1>1. r.src = a.src /\ r.fxwc = a.fxwc /\ r.routing = b.routing /\ r.amount = b.amount
  BY JoinedType DEF VoiceOf
<1> HIDE DEF r
<1>2. SUFFICES ASSUME NEW f \in Differ(r, b)
               PROVE  f \in Differ(a, b) \ VoiceFields
  BY DEF r
<1>3. f \in Fields /\ f[1] \in {"src", "fx"} /\ f \in Differ(a, b)
  BY <1>1 DEF Differ
<1> QED BY <1>3, FieldKinds

-----------------------------------------------------------------------------
(* Setters: they return settings that differ in the field they set *)

LEMMA FieldForms ==
    ASSUME NEW f \in Fields
    PROVE  /\ f = <<f[1], f[2], f[3]>>
           /\ f[1] = "src" => f = <<"src", 0, 0>>
           /\ f[1] = "fx" => f[3] = 0
           /\ f[1] \in {"bus", "amount"} => f[2] \in Types /\ f[3] \in Sends
<1>1. CASE f = <<"src", 0, 0>>
  BY <1>1
<1>2. CASE f \in {"fx"} \X (0 .. 15) \X {0}
  BY <1>2
<1>3. CASE f \in {"bus", "amount"} \X Types \X Sends
  BY <1>3
<1> QED BY <1>1, <1>2, <1>3 DEF Fields, RecFields, VoiceFields

LEMMA WithSourceGood ==
    ASSUME NEW c \in Settings, NEW s \in 0 .. 3
    PROVE  /\ WithSource(c, s) \in Settings
           /\ Differ(c, WithSource(c, s)) \subseteq {<<"src", 0, 0>>}
<1> DEFINE d == WithSource(c, s)
<1>1. d \in Settings /\ d.fxwc = c.fxwc /\ d.routing = c.routing /\ d.amount = c.amount
  BY DEF WithSource, Settings
<1> HIDE DEF d
<1>2. ASSUME NEW f \in Differ(c, d)
      PROVE  f = <<"src", 0, 0>>
  <2>1. f \in Fields /\ f[1] = "src"
    BY <1>1 DEF Differ
  <2> QED BY <2>1, FieldForms
<1> QED BY <1>1, <1>2 DEF d

LEMMA FxGood ==
    ASSUME NEW c \in Settings, NEW b \in 0 .. 15, NEW fx \in SUBSET (0 .. 15),
           \A x \in (0 .. 15) \ {b} : x \in fx <=> x \in c.fxwc
    PROVE  /\ [c EXCEPT !.fxwc = fx] \in Settings
           /\ Differ(c, [c EXCEPT !.fxwc = fx]) \subseteq {<<"fx", b, 0>>}
<1> DEFINE d == [c EXCEPT !.fxwc = fx]
<1>1. d \in Settings /\ d.src = c.src /\ d.routing = c.routing /\ d.amount = c.amount
  BY DEF Settings
<1>2. d.fxwc = fx
  BY DEF Settings
<1> HIDE DEF d
<1>3. ASSUME NEW f \in Differ(c, d)
      PROVE  f = <<"fx", b, 0>>
  <2>1. f \in Fields /\ f[1] = "fx" /\ ~(f[2] \in c.fxwc <=> f[2] \in fx)
    BY <1>1, <1>2 DEF Differ
  <2>2. f[2] \in 0 .. 15 /\ f[2] = b
    BY <2>1 DEF Settings
  <2> QED BY <2>1, <2>2, FieldForms
<1> QED BY <1>1, <1>3 DEF d

LEMMA WithFxGood ==
    ASSUME NEW c \in Settings, NEW b \in 0 .. 15
    PROVE  /\ WithFx(c, b) \in Settings /\ WithoutFx(c, b) \in Settings
           /\ Differ(c, WithFx(c, b)) \subseteq {<<"fx", b, 0>>}
           /\ Differ(c, WithoutFx(c, b)) \subseteq {<<"fx", b, 0>>}
<1>1. c.fxwc \cup {b} \in SUBSET (0 .. 15) /\ c.fxwc \ {b} \in SUBSET (0 .. 15)
  BY SettingsType
<1>2. WithFx(c, b) \in Settings /\ Differ(c, WithFx(c, b)) \subseteq {<<"fx", b, 0>>}
  BY <1>1, FxGood DEF WithFx
<1>3. WithoutFx(c, b) \in Settings /\ Differ(c, WithoutFx(c, b)) \subseteq {<<"fx", b, 0>>}
  BY <1>1, FxGood DEF WithoutFx
<1> QED BY <1>2, <1>3

LEMMA WithAmountGood ==
    ASSUME NEW c \in Settings, NEW t \in Types, NEW i \in Sends, NEW v \in SUBSET AmountBits
    PROVE  /\ WithAmount(c, t, i, v) \in Settings
           /\ Differ(c, WithAmount(c, t, i, v)) \subseteq {<<"amount", t, i>>}
<1> DEFINE w == SetAmount(c.amount[t], i, v)
           d == WithAmount(c, t, i, v)
<1>1. w \in SUBSET (0 .. 31)
  BY SetAmountType, SettingsType
<1>2. /\ d \in Settings
      /\ d.src = c.src /\ d.fxwc = c.fxwc /\ d.routing = c.routing
      /\ d.amount = [c.amount EXCEPT ![t] = w]
  <2> HIDE DEF w
  <2>1. d = [c EXCEPT !.amount = [c.amount EXCEPT ![t] = w]]
    BY DEF WithAmount, w
  <2>2. [c.amount EXCEPT ![t] = w] \in [Types -> SUBSET (0 .. 31)]
    BY <1>1, SettingsType
  <2> HIDE DEF d
  <2> QED BY <2>1, <2>2 DEF Settings
<1> HIDE DEF d
<1>3. ASSUME NEW f \in Differ(c, d)
      PROVE  f = <<"amount", t, i>>
  <2>1. /\ f \in Fields /\ f[1] = "amount"
        /\ GetAmount(c.amount[f[2]], f[3]) # GetAmount(d.amount[f[2]], f[3])
    BY <1>2 DEF Differ
  <2>2. f[2] \in Types /\ f[3] \in Sends
    BY <2>1, FieldForms
  <2>3. f[2] = t
    BY <2>1, <2>2, <1>2, SettingsType
  <2>4. d.amount[t] = w
    BY <1>2, SettingsType
  <2>5. f[3] = i
    BY <2>1, <2>2, <2>3, <2>4, SetAmountApart
  <2> QED BY <2>1, <2>3, <2>5, FieldForms
<1> QED BY <1>2, <1>3 DEF d

LEMMA WithBusGood ==
    ASSUME NEW c \in Settings, NEW t \in Types, NEW i \in Sends, NEW v \in SUBSET BusBits
    PROVE  /\ WithBus(c, t, i, v) \in Settings
           /\ Differ(c, WithBus(c, t, i, v)) \subseteq {<<"bus", t, i>>}
<1> DEFINE w == SetBus(c.routing[t], i, v)
           d == WithBus(c, t, i, v)
<1>1. w \in SUBSET (0 .. 15)
  BY SetBusType, SettingsType
<1>2. /\ d \in Settings
      /\ d.src = c.src /\ d.fxwc = c.fxwc /\ d.amount = c.amount
      /\ d.routing = [c.routing EXCEPT ![t] = w]
  <2> HIDE DEF w
  <2>1. d = [c EXCEPT !.routing = [c.routing EXCEPT ![t] = w]]
    BY DEF WithBus, w
  <2>2. [c.routing EXCEPT ![t] = w] \in [Types -> SUBSET (0 .. 15)]
    BY <1>1, SettingsType
  <2> HIDE DEF d
  <2> QED BY <2>1, <2>2 DEF Settings
<1> HIDE DEF d
<1>3. ASSUME NEW f \in Differ(c, d)
      PROVE  f = <<"bus", t, i>>
  <2>1. /\ f \in Fields /\ f[1] = "bus"
        /\ GetBus(c.routing[f[2]], f[3]) # GetBus(d.routing[f[2]], f[3])
    BY <1>2 DEF Differ
  <2>2. f[2] \in Types /\ f[3] \in Sends
    BY <2>1, FieldForms
  <2>3. f[2] = t
    BY <2>1, <2>2, <1>2, SettingsType
  <2>4. d.routing[t] = w
    BY <1>2, SettingsType
  <2>5. f[3] = i
    BY <2>1, <2>2, <2>3, <2>4, SetBusApart
  <2> QED BY <2>1, <2>3, <2>5, FieldForms
<1> QED BY <1>2, <1>3 DEF d

-----------------------------------------------------------------------------
(* The copies.  A step of a program does to its copy and to the driver one *)
(* of five things: it keeps a copy, writes a half, reads a half, ends, or  *)
(* touches neither.                                                        *)

CopyTypes ==
    /\ hw \in Settings
    /\ copy \in [Procs -> Settings]
    /\ touched \in [Procs -> SUBSET Fields]
    /\ stale \in [Procs -> SUBSET Fields]

CopyInv == CopyTypes /\ CopyExplained

\* The step leaves the other programs their copies, and tells them what changed.
LEMMA OthersExplained ==
    ASSUME CopyInv, NEW p \in Procs, NEW q \in Procs, p # q,
           copy'[q] = copy[q], touched'[q] = touched[q],
           stale'[q] = stale[q] \cup Differ(hw, hw')
    PROVE  Differ(hw', copy'[q]) \subseteq touched'[q] \cup stale'[q]
<1>1. Differ(hw', copy[q]) \subseteq Differ(hw', hw) \cup Differ(hw, copy[q])
  BY DifferVia
<1>2. Differ(hw', hw) = Differ(hw, hw')
  BY DifferSym
<1> QED BY <1>1, <1>2 DEF CopyInv, CopyExplained

LEMMA KeepGood ==
    ASSUME CopyInv, NEW p \in Procs, NEW c \in Settings, NEW fs \in SUBSET Fields,
           Keep(p, c, fs), Differ(copy[p], c) \subseteq fs
    PROVE  CopyInv'
<1>1. CopyTypes'
  BY DEF CopyInv, CopyTypes, Keep
<1>2. ASSUME NEW q \in Procs
      PROVE  Differ(hw', copy'[q]) \subseteq touched'[q] \cup stale'[q]
  <2>1. CASE q # p
    BY <2>1 DEF CopyInv, CopyTypes, CopyExplained, Keep
  <2>2. CASE q = p
    <3>1. copy'[p] = c /\ touched'[p] = touched[p] \cup fs /\ hw' = hw /\ stale' = stale
      BY DEF CopyInv, CopyTypes, Keep
    <3>2. Differ(hw, c) \subseteq Differ(hw, copy[p]) \cup Differ(copy[p], c)
      BY DifferVia
    <3> QED BY <2>2, <3>1, <3>2 DEF CopyInv, CopyExplained
  <2> QED BY <2>1, <2>2
<1> QED BY <1>1, <1>2 DEF CopyInv, CopyExplained

LEMMA WriteGood ==
    ASSUME CopyInv, NEW p \in Procs, NEW c \in Settings,
           NEW half \in SUBSET Fields, NEW new \in Settings,
           Differ(copy[p], c) \subseteq half, Differ(new, c) \subseteq Differ(hw, c) \ half,
           Write(p, c, new, half)
    PROVE  CopyInv'
<1>1. /\ hw' = new /\ copy' = [copy EXCEPT ![p] = c]
      /\ touched' = [touched EXCEPT ![p] = @ \ half]
      /\ stale' = [StaleAfter(p, new) EXCEPT ![p] = @ \ half]
  BY DEF Write
<1>2. Differ(hw, new) \in SUBSET Fields
  BY DEF Differ
<1>3. StaleAfter(p, new) \in [Procs -> SUBSET Fields]
  BY <1>2 DEF StaleAfter, CopyInv, CopyTypes
<1>4. CopyTypes'
  BY <1>1, <1>3 DEF CopyInv, CopyTypes
<1>5. ASSUME NEW q \in Procs
      PROVE  Differ(hw', copy'[q]) \subseteq touched'[q] \cup stale'[q]
  <2>1. CASE q # p
    <3>1. stale'[q] = stale[q] \cup Differ(hw, hw')
      BY <2>1, <1>1, <1>3 DEF StaleAfter
    <3>2. copy'[q] = copy[q] /\ touched'[q] = touched[q]
      BY <2>1, <1>1 DEF CopyInv, CopyTypes
    <3> QED BY <2>1, <3>1, <3>2, OthersExplained
  <2>2. CASE q = p
    <3>1. copy'[p] = c /\ touched'[p] = touched[p] \ half /\ stale'[p] = stale[p] \ half
      BY <1>1, <1>3 DEF CopyInv, CopyTypes, StaleAfter
    <3>2. Differ(hw, c) \subseteq Differ(hw, copy[p]) \cup Differ(copy[p], c)
      BY DifferVia
    <3>3. Differ(hw, copy[p]) \subseteq touched[p] \cup stale[p]
      BY DEF CopyInv, CopyExplained
    <3> QED BY <2>2, <1>1, <3>1, <3>2, <3>3
  <2> QED BY <2>1, <2>2
<1> QED BY <1>4, <1>5 DEF CopyInv, CopyExplained

LEMMA WriteRecGood ==
    ASSUME CopyInv, NEW p \in Procs, NEW c \in Settings,
           Differ(copy[p], c) \subseteq RecFields, WriteRec(p, c)
    PROVE  CopyInv'
<1>1. hw \in Settings
  BY DEF CopyInv, CopyTypes
<1> QED BY <1>1, WriteGood, RecOfDiffers, JoinedType, HalvesAreAll DEF WriteRec, RecOf

LEMMA WriteVoiceGood ==
    ASSUME CopyInv, NEW p \in Procs, NEW c \in Settings,
           Differ(copy[p], c) \subseteq VoiceFields, WriteVoice(p, c)
    PROVE  CopyInv'
<1>1. hw \in Settings
  BY DEF CopyInv, CopyTypes
<1> QED BY <1>1, WriteGood, VoiceOfDiffers, JoinedType, HalvesAreAll DEF WriteVoice, VoiceOf

LEMMA GoneGood ==
    ASSUME CopyInv, NEW p \in Procs, NEW how, Gone(p, how),
           UNCHANGED hw, stale' = [stale EXCEPT ![p] = Fields]
    PROVE  CopyInv'
<1>1. CopyTypes'
  BY ZeroType DEF CopyInv, CopyTypes, Gone
<1>2. ASSUME NEW q \in Procs
      PROVE  Differ(hw', copy'[q]) \subseteq touched'[q] \cup stale'[q]
  <2>1. CASE q # p
    BY <2>1 DEF CopyInv, CopyTypes, CopyExplained, Gone
  <2>2. CASE q = p
    <3>1. stale'[p] = Fields
      BY DEF CopyInv, CopyTypes
    <3> QED BY <2>2, <3>1 DEF Differ
  <2> QED BY <2>1, <2>2
<1> QED BY <1>1, <1>2 DEF CopyInv, CopyExplained

LEMMA CommitVoiceGood ==
    ASSUME CopyInv, NEW p \in Procs, CommitVoice(p)
    PROVE  CopyInv'
<1>1. /\ hw' = VoiceOf(hw, copy[p])
      /\ stale' = [StaleAfter(p, hw') EXCEPT ![p] = Fields]
      /\ copy' = [copy EXCEPT ![p] = Zero]
      /\ touched' = [touched EXCEPT ![p] = {}]
  BY DEF CommitVoice, Gone
<1>2. hw' \in Settings
  BY <1>1, JoinedType DEF CopyInv, CopyTypes, VoiceOf
<1>3. StaleAfter(p, hw') \in [Procs -> SUBSET Fields]
  BY DEF StaleAfter, CopyInv, CopyTypes, Differ
<1>4. CopyTypes'
  BY <1>1, <1>2, <1>3, ZeroType DEF CopyInv, CopyTypes
<1>5. ASSUME NEW q \in Procs
      PROVE  Differ(hw', copy'[q]) \subseteq touched'[q] \cup stale'[q]
  <2>1. CASE q # p
    <3>1. stale'[q] = stale[q] \cup Differ(hw, hw')
      BY <2>1, <1>1, <1>3 DEF StaleAfter
    <3>2. copy'[q] = copy[q] /\ touched'[q] = touched[q]
      BY <2>1, <1>1 DEF CopyInv, CopyTypes
    <3> QED BY <2>1, <3>1, <3>2, OthersExplained
  <2>2. CASE q = p
    <3>1. stale'[p] = Fields
      BY <1>1, <1>3
    <3> QED BY <2>2, <3>1 DEF Differ
  <2> QED BY <2>1, <2>2
<1> QED BY <1>4, <1>5 DEF CopyInv, CopyExplained

\* A read half is the driver's half; the other half is as it was.
LEMMA ReadGood ==
    ASSUME CopyInv, NEW p \in Procs, NEW half \in SUBSET Fields, NEW c \in Settings,
           Differ(c, hw) \subseteq Differ(copy[p], hw) \ half,
           copy' = [copy EXCEPT ![p] = c], stale' = [stale EXCEPT ![p] = @ \ half],
           UNCHANGED <<hw, touched>>
    PROVE  CopyInv'
<1>1. CopyTypes'
  BY DEF CopyInv, CopyTypes
<1>2. ASSUME NEW q \in Procs
      PROVE  Differ(hw', copy'[q]) \subseteq touched'[q] \cup stale'[q]
  <2>1. CASE q # p
    BY <2>1 DEF CopyInv, CopyTypes, CopyExplained
  <2>2. CASE q = p
    <3>1. copy'[p] = c /\ stale'[p] = stale[p] \ half
      BY DEF CopyInv, CopyTypes
    <3>2. Differ(hw, c) = Differ(c, hw) /\ Differ(copy[p], hw) = Differ(hw, copy[p])
      BY DifferSym
    <3>3. Differ(hw, copy[p]) \subseteq touched[p] \cup stale[p]
      BY DEF CopyInv, CopyExplained
    <3> QED BY <2>2, <3>1, <3>2, <3>3
  <2> QED BY <2>1, <2>2
<1> QED BY <1>1, <1>2 DEF CopyInv, CopyExplained

LEMMA SameGood ==
    ASSUME CopyInv, UNCHANGED <<hw, copy, touched, stale>>
    PROVE  CopyInv'
BY DEF CopyInv, CopyTypes, CopyExplained

LEMMA Values ==
    /\ Amounts \subseteq SUBSET AmountBits /\ VoiceBuses \subseteq SUBSET BusBits
    /\ Voices \subseteq Types /\ Moved \subseteq Sends
    /\ Sources \subseteq 0 .. 3 /\ RecBuses \subseteq 0 .. 15
BY ValueAssumption

LEMMA FieldsSet ==
    /\ <<"src", 0, 0>> \in RecFields
    /\ \A b \in 0 .. 15 : <<"fx", b, 0>> \in RecFields
    /\ \A t \in Types, i \in Sends : /\ <<"amount", t, i>> \in VoiceFields
                                     /\ <<"bus", t, i>> \in VoiceFields
BY DEF RecFields, VoiceFields

LEMMA ReadsKeepCopies ==
    ASSUME CopyInv, NEW p \in Procs, ReadRecording(p) \/ ReadVoice(p) \/ FailInit(p)
    PROVE  CopyInv'
<1>1. hw \in Settings /\ copy[p] \in Settings
  BY DEF CopyInv, CopyTypes
<1>2. CASE ReadRecording(p)
  <2> DEFINE c == RecOf(copy[p], hw)
  <2>1. c \in Settings /\ Differ(c, hw) \subseteq Differ(copy[p], hw) \ RecFields
    BY <1>1, JoinedType, RecOfDiffers DEF RecOf
  <2>2. /\ copy' = [copy EXCEPT ![p] = c] /\ stale' = [stale EXCEPT ![p] = @ \ RecFields]
        /\ UNCHANGED <<hw, touched>>
    BY <1>2 DEF ReadRecording, Settled
  <2> HIDE DEF c
  <2> QED BY <2>1, <2>2, ReadGood, HalvesAreAll
<1>3. CASE ReadVoice(p)
  <2> DEFINE c == VoiceOf(copy[p], hw)
  <2>1. c \in Settings /\ Differ(c, hw) \subseteq Differ(copy[p], hw) \ VoiceFields
    BY <1>1, JoinedType, VoiceOfDiffers DEF VoiceOf
  <2>2. /\ copy' = [copy EXCEPT ![p] = c] /\ stale' = [stale EXCEPT ![p] = @ \ VoiceFields]
        /\ UNCHANGED <<hw, touched>>
    BY <1>3 DEF ReadVoice, Settled
  <2> HIDE DEF c
  <2> QED BY <2>1, <2>2, ReadGood, HalvesAreAll
<1>4. CASE FailInit(p)
  <2>1. CASE p \in Configs
    BY <1>4, <2>1, GoneGood DEF FailInit
  <2>2. CASE p \notin Configs
    BY <1>4, <2>2, SameGood DEF FailInit
  <2> QED BY <2>1, <2>2
<1> QED BY <1>2, <1>3, <1>4

LEMMA OptionsKeepCopies ==
    ASSUME CopyInv, NEW p \in Procs,
           \/ \E b \in RecBuses, on \in BOOLEAN : FxBusOption(p, b, on)
           \/ \E s \in Sources : SourceOption(p, s)
    PROVE  CopyInv'
<1>1. copy[p] \in Settings
  BY DEF CopyInv, CopyTypes
<1>2. ASSUME NEW b \in RecBuses, NEW on \in BOOLEAN, FxBusOption(p, b, on)
      PROVE  CopyInv'
  <2> DEFINE c == IF on THEN WithFx(copy[p], b) ELSE WithoutFx(copy[p], b)
  <2>1. c \in Settings /\ Differ(copy[p], c) \subseteq {<<"fx", b, 0>>}
    BY <1>1, WithFxGood, Values
  <2>2. Keep(p, c, {<<"fx", b, 0>>})
    BY <1>2 DEF FxBusOption
  <2>3. {<<"fx", b, 0>>} \in SUBSET Fields
    BY FieldsSet, HalvesAreAll, Values
  <2> HIDE DEF c
  <2> QED BY <2>1, <2>2, <2>3, KeepGood
<1>3. ASSUME NEW s \in Sources, SourceOption(p, s)
      PROVE  CopyInv'
  <2> DEFINE c == WithSource(copy[p], s)
  <2>1. c \in Settings /\ Differ(copy[p], c) \subseteq {<<"src", 0, 0>>}
    BY <1>1, WithSourceGood, Values
  <2>2. Keep(p, c, {<<"src", 0, 0>>})
    BY <1>3 DEF SourceOption
  <2>3. {<<"src", 0, 0>>} \in SUBSET Fields
    BY FieldsSet, HalvesAreAll
  <2> HIDE DEF c
  <2> QED BY <2>1, <2>2, <2>3, KeepGood
<1> QED BY <1>2, <1>3

LEMMA CommitKeepsCopies ==
    ASSUME CopyInv, NEW p \in Procs,
           BadOption(p) \/ CommitRecording(p) \/ CommitVoice(p) \/ FailCommit(p)
    PROVE  CopyInv'
<1>1. CASE BadOption(p)
  BY <1>1, GoneGood DEF BadOption
<1>2. CASE CommitRecording(p)
  <2>1. copy[p] \in Settings /\ Differ(copy[p], copy[p]) \subseteq RecFields
    BY DifferSelf DEF CopyInv, CopyTypes
  <2> QED BY <1>2, <2>1, WriteRecGood DEF CommitRecording, CommitRec
<1>3. CASE CommitVoice(p)
  BY <1>3, CommitVoiceGood
<1>4. CASE FailCommit(p)
  BY <1>4, GoneGood DEF FailCommit
<1> QED BY <1>1, <1>2, <1>3, <1>4

LEMMA OthersKeepCopies ==
    ASSUME CopyInv, NEW p \in Procs,
           \/ \E r \in Registers, v \in 0 .. 1 : RegisterOption(p, r, v)
           \/ \E v \in 0 .. 1 : SwitchOption(p, v)
           \/ SwitchSecond(p) \/ FailSwitch(p)
           \/ IrOption(p) \/ IrStep(p) \/ FailIr(p) \/ EndOptions(p)
    PROVE  CopyInv'
<1>1. UNCHANGED <<hw, copy, touched, stale>>
  BY DEF RegisterOption, SwitchOption, SwitchSecond, FailSwitch, IrOption, IrStep,
         FailIr, EndOptions, Unsettled
<1> QED BY <1>1, SameGood

LEMMA ClickVoiceGood ==
    ASSUME CopyInv, NEW p \in Procs, NEW c \in Settings, NEW f \in VoiceFields,
           Differ(copy[p], c) \subseteq {f}, ClickVoice(p, c, {f})
    PROVE  CopyInv'
<1>1. CASE WriteVoice(p, c)
  BY <1>1, WriteVoiceGood
<1>2. CASE Keep(p, c, {f})
  <2>1. {f} \in SUBSET Fields
    BY HalvesAreAll
  <2> QED BY <1>2, <2>1, KeepGood
<1> QED BY <1>1, <1>2 DEF ClickVoice

LEMMA ClickRecGood ==
    ASSUME CopyInv, NEW p \in Procs, NEW c \in Settings, NEW fs \in SUBSET RecFields,
           Differ(copy[p], c) \subseteq fs, ClickRec(p, c, fs)
    PROVE  CopyInv'
<1>1. CASE WriteRec(p, c)
  BY <1>1, WriteRecGood
<1>2. CASE Keep(p, c, fs)
  <2>1. fs \in SUBSET Fields
    BY HalvesAreAll
  <2> QED BY <1>2, <2>1, KeepGood
<1> QED BY <1>1, <1>2 DEF ClickRec

LEMMA ClicksKeepCopies ==
    ASSUME CopyInv, NEW p \in Procs,
           \/ \E t \in Voices, i \in Moved, v \in Amounts : ClickAmount(p, t, i, v)
           \/ \E t \in Voices, i \in Moved, v \in VoiceBuses : ClickBus(p, t, i, v)
           \/ \E b \in RecBuses : ClickFx(p, b)
           \/ \E s \in Sources : ClickSource(p, s)
           \/ OpenRecPage(p)
    PROVE  CopyInv'
<1>1. copy[p] \in Settings
  BY DEF CopyInv, CopyTypes
<1>2. ASSUME NEW t \in Voices, NEW i \in Moved, NEW v \in Amounts, ClickAmount(p, t, i, v)
      PROVE  CopyInv'
  <2> DEFINE c == WithAmount(copy[p], t, i, v)
  <2>1. c \in Settings /\ Differ(copy[p], c) \subseteq {<<"amount", t, i>>}
    BY <1>1, WithAmountGood, Values
  <2>2. ClickVoice(p, c, {<<"amount", t, i>>}) /\ <<"amount", t, i>> \in VoiceFields
    BY <1>2, FieldsSet, Values DEF ClickAmount
  <2> HIDE DEF c
  <2> QED BY <2>1, <2>2, ClickVoiceGood
<1>3. ASSUME NEW t \in Voices, NEW i \in Moved, NEW v \in VoiceBuses, ClickBus(p, t, i, v)
      PROVE  CopyInv'
  <2> DEFINE c == WithBus(copy[p], t, i, v)
  <2>1. c \in Settings /\ Differ(copy[p], c) \subseteq {<<"bus", t, i>>}
    BY <1>1, WithBusGood, Values
  <2>2. ClickVoice(p, c, {<<"bus", t, i>>}) /\ <<"bus", t, i>> \in VoiceFields
    BY <1>3, FieldsSet, Values DEF ClickBus
  <2> HIDE DEF c
  <2> QED BY <2>1, <2>2, ClickVoiceGood
<1>4. ASSUME NEW b \in RecBuses, ClickFx(p, b)
      PROVE  CopyInv'
  <2> DEFINE c == IF b \in copy[p].fxwc THEN WithoutFx(copy[p], b) ELSE WithFx(copy[p], b)
  <2>1. c \in Settings /\ Differ(copy[p], c) \subseteq {<<"fx", b, 0>>}
    BY <1>1, WithFxGood, Values
  <2>2. ClickRec(p, c, {<<"fx", b, 0>>}) /\ {<<"fx", b, 0>>} \in SUBSET RecFields
    BY <1>4, FieldsSet, Values DEF ClickFx
  <2> HIDE DEF c
  <2> QED BY <2>1, <2>2, ClickRecGood
<1>5. ASSUME NEW s \in Sources, ClickSource(p, s)
      PROVE  CopyInv'
  <2> DEFINE c == WithSource(copy[p], s)
  <2>1. c \in Settings /\ Differ(copy[p], c) \subseteq {<<"src", 0, 0>>}
    BY <1>1, WithSourceGood, Values
  <2>2. ClickRec(p, c, {<<"src", 0, 0>>}) /\ {<<"src", 0, 0>>} \in SUBSET RecFields
    BY <1>5, FieldsSet DEF ClickSource
  <2> HIDE DEF c
  <2> QED BY <2>1, <2>2, ClickRecGood
<1>6. CASE OpenRecPage(p)
  <2>1. ClickRec(p, copy[p], {}) /\ Differ(copy[p], copy[p]) = {}
    BY <1>6, DifferSelf DEF OpenRecPage
  <2>2. {} \in SUBSET RecFields
    OBVIOUS
  <2> QED BY <1>1, <2>1, <2>2, ClickRecGood
<1> QED BY <1>2, <1>3, <1>4, <1>5, <1>6

LEMMA NextKeepsCopies ==
    ASSUME CopyInv, [Next]_vars
    PROVE  CopyInv'
<1>1. ASSUME NEW p \in Configs, Config(p)
      PROVE  CopyInv'
  BY <1>1, ReadsKeepCopies, OptionsKeepCopies, CommitKeepsCopies, OthersKeepCopies
     DEF Config, Procs
<1>2. ASSUME NEW p \in Guis, Gui(p)
      PROVE  CopyInv'
  BY <1>2, ReadsKeepCopies, ClicksKeepCopies DEF Gui, Procs
<1>3. CASE UNCHANGED vars
  BY <1>3, SameGood DEF vars
<1> QED BY <1>1, <1>2, <1>3 DEF Next

LEMMA InitCopies == Init => CopyInv
<1> SUFFICES ASSUME Init PROVE CopyInv
  OBVIOUS
<1>1. hw \in Settings
  BY DEF Init, Settings, AC97
<1>2. CopyTypes
  BY <1>1, ZeroType DEF Init, CopyTypes
<1>3. CopyExplained
  BY DEF Init, CopyExplained, Differ
<1> QED BY <1>2, <1>3 DEF CopyInv

\* What a program writes back undoes nothing but what changed behind its back: for
\* any number of runs of emu-config and of GUIs, any of whose ioctls may fail.
THEOREM CopiesExplained == Spec => []CopyExplained
<1>1. Init => CopyInv
  BY InitCopies
<1>2. CopyInv /\ [Next]_vars => CopyInv'
  BY NextKeepsCopies
<1>3. CopyInv => CopyExplained
  BY DEF CopyInv
<1> QED BY <1>1, <1>2, <1>3, PTL DEF Spec

-----------------------------------------------------------------------------
(* The pins.  Only enable_ir() and set_51() touch them: every other step   *)
(* of a program begins and ends outside both.                              *)

Calm == {"readrec", "readvoice", "options", "idle", "commitrec", "commitvoice", "done", "failed"}
Places == Calm \cup {"analog", "digital", "ir1", "ir2", "ir3"}

Quiet(p) ==
    /\ pc[p] \in Calm
    /\ (\E to \in Calm : pc' = [pc EXCEPT ![p] = to]) \/ UNCHANGED pc
    /\ UNCHANGED <<gpout, slips>>

OnPins(p) ==
    \/ \E v \in 0 .. 1 : SwitchOption(p, v)
    \/ SwitchSecond(p) \/ FailSwitch(p)
    \/ IrOption(p) \/ IrStep(p) \/ FailIr(p)

LEMMA MostAreQuiet ==
    ASSUME NEW p \in Procs, Config(p) \/ Gui(p)
    PROVE  Quiet(p) \/ OnPins(p)
<1>1. ASSUME ReadRecording(p) \/ ReadVoice(p) \/ FailInit(p) PROVE Quiet(p)
  BY <1>1 DEF ReadRecording, ReadVoice, FailInit, Settled, GoTo, Gone, Ready, Quiet, Calm
<1>2. ASSUME NEW b, NEW on, FxBusOption(p, b, on) PROVE Quiet(p)
  BY <1>2 DEF FxBusOption, CanAct, Quiet, Calm
<1>3. ASSUME NEW s, SourceOption(p, s) PROVE Quiet(p)
  BY <1>3 DEF SourceOption, CanAct, Quiet, Calm
<1>4. ASSUME NEW r, NEW v, RegisterOption(p, r, v) PROVE Quiet(p)
  BY <1>4 DEF RegisterOption, CanAct, Quiet, Calm
<1>5. ASSUME BadOption(p) \/ EndOptions(p) \/ FailCommit(p) PROVE Quiet(p)
  BY <1>5 DEF BadOption, EndOptions, FailCommit, GoTo, Gone, Quiet, Calm
<1>6. ASSUME CommitRecording(p) \/ CommitVoice(p) PROVE Quiet(p)
  BY <1>6 DEF CommitRecording, CommitVoice, GoTo, Gone, Quiet, Calm
<1>7. ASSUME NEW c, NEW fs, ClickVoice(p, c, fs) \/ ClickRec(p, c, fs) PROVE Quiet(p)
  BY <1>7 DEF ClickVoice, ClickRec, CanAct, Quiet, Calm
<1>8. CASE Config(p)
  BY <1>8, <1>1, <1>2, <1>3, <1>4, <1>5, <1>6 DEF Config, OnPins
<1>9. CASE Gui(p)
  BY <1>9, <1>1, <1>7
     DEF Gui, ClickAmount, ClickBus, ClickFx, ClickSource, OpenRecPage
<1> QED BY <1>8, <1>9

PinTypes == gpout \in [Pins -> 0 .. 1] /\ pc \in [Procs -> Places]

LEMMA PinTypesKept ==
    ASSUME PinTypes, NEW p \in Procs, Quiet(p) \/ OnPins(p)
    PROVE  PinTypes'
<1>1. CASE Quiet(p)
  BY <1>1 DEF Quiet, PinTypes, Calm, Places
<1>2. ASSUME NEW v \in 0 .. 1, SwitchOption(p, v) PROVE PinTypes'
  BY <1>2 DEF SwitchOption, SetPin, GoTo, Switching, Pins, PinTypes, Places
<1>3. CASE SwitchSecond(p)
  BY <1>3 DEF SwitchSecond, SetPin, GoTo, Switched, Pins, PinTypes, Places, Calm
<1>4. CASE FailSwitch(p)
  BY <1>4 DEF FailSwitch, GoTo, PinTypes, Places, Calm
<1>5. CASE IrOption(p)
  BY <1>5 DEF IrOption, SetPin, GoTo, Pins, PinTypes, Places
<1>6. CASE IrStep(p)
  <2>1. IrSteps(pc[p]).pin \in {0, 1} /\ IrSteps(pc[p]).level \in 0 .. 1
        /\ IrSteps(pc[p]).next \in Places
    BY <1>6 DEF IrStep, InIr, IrSteps, Places, Calm
  <2> QED BY <1>6, <2>1 DEF IrStep, SetPin, GoTo, Pins, PinTypes
<1>7. CASE FailIr(p)
  BY <1>7 DEF FailIr, GoTo, PinTypes, Places, Calm
<1> QED BY <1>1, <1>2, <1>3, <1>4, <1>5, <1>6, <1>7 DEF OnPins

\* While no sequence failed, pin 0 is high only while some program is in
\* enable_ir(), and pin 1 only while one is in its pulse.
IrHeld ==
    "ir" \notin slips =>
        /\ gpout[0] = 0 \/ \E p \in Procs : InIr(p)
        /\ gpout[1] = 0 \/ \E p \in Procs : pc[p] = "ir2"

LEMMA IrHeldKept ==
    ASSUME PinTypes, IrHeld, NEW p \in Procs, Quiet(p) \/ OnPins(p)
    PROVE  IrHeld'
<1>1. ASSUME pc[p] \notin {"ir1", "ir2", "ir3"}, gpout'[0] = gpout[0], gpout'[1] = gpout[1],
             \A q \in Procs \ {p} : pc'[q] = pc[q], slips \subseteq slips'
      PROVE  IrHeld'
  BY <1>1 DEF IrHeld, InIr
<1>2. CASE Quiet(p)
  BY <1>1, <1>2 DEF Quiet, Calm, PinTypes
<1>3. ASSUME NEW v \in 0 .. 1, SwitchOption(p, v) PROVE IrHeld'
  <2>1. pc[p] = "options" /\ slips \subseteq slips' /\ \A q \in Procs \ {p} : pc'[q] = pc[q]
    BY <1>3 DEF SwitchOption, CanAct, Slip, GoTo, PinTypes
  <2>2. gpout'[0] = gpout[0] /\ gpout'[1] = gpout[1]
    BY <1>3 DEF SwitchOption, SetPin, PinTypes, Pins
  <2> QED BY <2>1, <2>2, <1>1
<1>4. CASE SwitchSecond(p)
  <2>1. pc[p] \in {"analog", "digital"} /\ slips' = slips /\ \A q \in Procs \ {p} : pc'[q] = pc[q]
    BY <1>4 DEF SwitchSecond, GoTo, PinTypes
  <2>2. gpout'[0] = gpout[0] /\ gpout'[1] = gpout[1]
    BY <1>4 DEF SwitchSecond, SetPin, PinTypes, Pins
  <2> QED BY <2>1, <2>2, <1>1
<1>5. CASE FailSwitch(p)
  <2>1. pc[p] \in {"analog", "digital"} /\ slips \subseteq slips' /\ gpout' = gpout
        /\ \A q \in Procs \ {p} : pc'[q] = pc[q]
    BY <1>5 DEF FailSwitch, Slip, GoTo, PinTypes
  <2> QED BY <2>1, <1>1
<1>6. CASE IrOption(p)
  <2>1. pc'[p] = "ir1" /\ slips' = slips /\ \A q \in Procs \ {p} : pc'[q] = pc[q]
    BY <1>6 DEF IrOption, GoTo, PinTypes, Places
  <2>2. gpout'[1] = gpout[1] /\ pc[p] = "options"
    BY <1>6 DEF IrOption, SetPin, CanAct, PinTypes, Pins
  <2> QED BY <2>1, <2>2 DEF IrHeld, InIr
<1>7. CASE IrStep(p)
  <2>1. slips' = slips /\ \A q \in Procs \ {p} : pc'[q] = pc[q]
    BY <1>7 DEF IrStep, GoTo, PinTypes
  <2>2. CASE pc[p] = "ir1"
    <3>1. gpout'[0] = gpout[0] /\ pc'[p] = "ir2"
      BY <1>7, <2>2 DEF IrStep, IrSteps, SetPin, GoTo, PinTypes, Pins
    <3> QED BY <2>1, <2>2, <3>1 DEF IrHeld, InIr
  <2>3. CASE pc[p] = "ir2"
    <3>1. gpout'[0] = gpout[0] /\ gpout'[1] = 0 /\ pc'[p] = "ir3"
      BY <1>7, <2>3 DEF IrStep, IrSteps, SetPin, GoTo, PinTypes, Pins
    <3> QED BY <2>1, <2>3, <3>1 DEF IrHeld, InIr
  <2>4. CASE pc[p] = "ir3"
    <3>1. gpout'[0] = 0 /\ gpout'[1] = gpout[1] /\ pc'[p] = "options"
      BY <1>7, <2>4 DEF IrStep, IrSteps, SetPin, GoTo, PinTypes, Pins
    <3> QED BY <2>1, <2>4, <3>1 DEF IrHeld, InIr
  <2> QED BY <1>7, <2>2, <2>3, <2>4 DEF IrStep, InIr
<1>8. CASE FailIr(p)
  BY <1>8 DEF FailIr, Slip, IrHeld
<1> QED BY <1>2, <1>3, <1>4, <1>5, <1>6, <1>7, <1>8 DEF OnPins

\* While no set_51() failed and none overlapped, one program at most is between the
\* two pins of an Audigy, and the first one is as it wants the second to be.
OneSwitches ==
    Audigy /\ "51" \notin slips =>
        /\ \A p, q \in Procs : pc[p] \in {"analog", "digital"} /\ pc[q] \in {"analog", "digital"} => p = q
        /\ \A p \in Procs : /\ pc[p] = "analog" => gpout[6] = 0
                            /\ pc[p] = "digital" => gpout[6] = 1
        /\ (\A p \in Procs : pc[p] \notin {"analog", "digital"}) => gpout[2] = gpout[6]

LEMMA OneSwitchesKept ==
    ASSUME PinTypes, OneSwitches, NEW p \in Procs, Quiet(p) \/ OnPins(p)
    PROVE  OneSwitches'
<1>1. ASSUME pc[p] \notin {"analog", "digital"}, pc'[p] \notin {"analog", "digital"},
             gpout'[2] = gpout[2], gpout'[6] = gpout[6],
             \A q \in Procs \ {p} : pc'[q] = pc[q], slips \subseteq slips'
      PROVE  OneSwitches'
  BY <1>1 DEF OneSwitches
<1>2. CASE Quiet(p)
  BY <1>1, <1>2 DEF Quiet, Calm, PinTypes
<1>3. ASSUME NEW v \in 0 .. 1, SwitchOption(p, v) PROVE OneSwitches'
  <2>1. CASE Audigy /\ "51" \notin slips'
    <3>1. /\ \A q \in Procs \ {p} : pc[q] \notin {"analog", "digital"} /\ pc'[q] = pc[q]
          /\ pc[p] = "options" /\ "51" \notin slips
      BY <1>3, <2>1 DEF SwitchOption, Overlaps, Slip, GoTo, CanAct, PinTypes
    <3>2. pc'[p] = Switching(v) /\ gpout'[6] = v
      BY <1>3, <2>1 DEF SwitchOption, SetPin, GoTo, PinTypes, Pins
    <3> QED BY <3>1, <3>2 DEF OneSwitches, Switching
  <2> QED BY <2>1 DEF OneSwitches
<1>4. CASE SwitchSecond(p)
  <2>1. CASE Audigy /\ "51" \notin slips'
    <3>1. /\ pc[p] \in {"analog", "digital"} /\ pc'[p] = "options" /\ slips' = slips
          /\ \A q \in Procs \ {p} : pc'[q] = pc[q]
      BY <1>4 DEF SwitchSecond, GoTo, PinTypes
    <3>2. gpout'[6] = gpout[6] /\ gpout'[2] = IF pc[p] = "analog" THEN 0 ELSE 1
      BY <1>4 DEF SwitchSecond, SetPin, Switched, PinTypes, Pins
    <3> QED BY <2>1, <3>1, <3>2 DEF OneSwitches
  <2> QED BY <2>1 DEF OneSwitches
<1>5. CASE FailSwitch(p)
  BY <1>5 DEF FailSwitch, Slip, OneSwitches
<1>6. CASE IrOption(p)
  <2>1. pc[p] = "options" /\ pc'[p] = "ir1" /\ slips' = slips /\ \A q \in Procs \ {p} : pc'[q] = pc[q]
    BY <1>6 DEF IrOption, CanAct, GoTo, PinTypes
  <2>2. gpout'[2] = gpout[2] /\ gpout'[6] = gpout[6]
    BY <1>6 DEF IrOption, SetPin, PinTypes, Pins
  <2> QED BY <2>1, <2>2, <1>1
<1>7. CASE IrStep(p)
  <2>1. /\ IrSteps(pc[p]).pin \in {0, 1} /\ IrSteps(pc[p]).next \in {"ir2", "ir3", "options"}
        /\ pc[p] \in {"ir1", "ir2", "ir3"}
    BY <1>7 DEF IrStep, InIr, IrSteps
  <2>2. pc'[p] \notin {"analog", "digital"} /\ slips' = slips /\ \A q \in Procs \ {p} : pc'[q] = pc[q]
    BY <1>7, <2>1 DEF IrStep, GoTo, PinTypes
  <2>3. gpout'[2] = gpout[2] /\ gpout'[6] = gpout[6]
    BY <1>7, <2>1 DEF IrStep, SetPin, PinTypes, Pins
  <2> QED BY <2>1, <2>2, <2>3, <1>1
<1>8. CASE FailIr(p)
  <2>1. /\ pc[p] \in {"ir1", "ir2", "ir3"} /\ pc'[p] = "options" /\ slips \subseteq slips'
        /\ gpout' = gpout /\ \A q \in Procs \ {p} : pc'[q] = pc[q]
    BY <1>8 DEF FailIr, InIr, Slip, GoTo, PinTypes
  <2> QED BY <2>1, <1>1
<1> QED BY <1>2, <1>3, <1>4, <1>5, <1>6, <1>7, <1>8 DEF OnPins

PinInv == PinTypes /\ IrHeld /\ OneSwitches

LEMMA InitPins == Init => PinInv
BY DEF Init, PinInv, PinTypes, IrHeld, OneSwitches, Pins, Places, Calm

LEMMA NextKeepsPins ==
    ASSUME PinInv, [Next]_vars
    PROVE  PinInv'
<1>1. ASSUME NEW p \in Procs, Config(p) \/ Gui(p)
      PROVE  PinInv'
  <2>1. Quiet(p) \/ OnPins(p)
    BY <1>1, MostAreQuiet
  <2> QED BY <2>1, PinTypesKept, IrHeldKept, OneSwitchesKept DEF PinInv
<1>2. CASE UNCHANGED vars
  BY <1>2 DEF vars, PinInv, PinTypes, IrHeld, InIr, OneSwitches
<1> QED BY <1>1, <1>2 DEF Next, Procs

LEMMA AlwaysPinInv == Spec => []PinInv
<1>1. Init => PinInv
  BY InitPins
<1>2. PinInv /\ [Next]_vars => PinInv'
  BY NextKeepsPins
<1> QED BY <1>1, <1>2, PTL DEF Spec

\* The pins of the IR port are low while no program is inside enable_ir() and none
\* failed there, however many of them overlapped.
THEOREM IrReleased == Spec => []PinsReleased
<1>1. PinInv => PinsReleased
  BY DEF PinInv, PinTypes, IrHeld, PinsReleased, InIr
<1> QED BY <1>1, AlwaysPinInv, PTL

\* The two pins that switch an Audigy agree, unless a set_51() failed or overlapped.
THEOREM SwitchAgrees == Spec => []OutputPinsAgree
<1>1. PinInv => OutputPinsAgree
  BY DEF PinInv, OneSwitches, OutputPinsAgree
<1> QED BY <1>1, AlwaysPinInv, PTL

-----------------------------------------------------------------------------
(* Types: the copies and the pins above, and what is left *)

RestTypes ==
    /\ regs \in [Registers -> 0 .. 1]
    /\ used \in [Procs -> Nat]
    /\ slips \subseteq {"51", "ir"}

LEMMA RestKept ==
    ASSUME RestTypes, NEW p \in Procs, Config(p) \/ Gui(p)
    PROVE  RestTypes'
<1>1. ASSUME Act(p) \/ UNCHANGED used, UNCHANGED regs,
             Slip("51") \/ Slip("ir") \/ UNCHANGED slips
      PROVE  RestTypes'
  <2>1. used' \in [Procs -> Nat]
    BY <1>1 DEF RestTypes, Act
  <2>2. slips' \subseteq {"51", "ir"}
    BY <1>1 DEF RestTypes, Slip
  <2> QED BY <1>1, <2>1, <2>2 DEF RestTypes
<1>2. CASE ReadRecording(p) \/ ReadVoice(p) \/ FailInit(p)
  BY <1>1, <1>2 DEF ReadRecording, ReadVoice, FailInit, Settled
<1>3. ASSUME NEW b \in RecBuses, NEW on \in BOOLEAN, FxBusOption(p, b, on)
      PROVE  RestTypes'
  BY <1>1, <1>3 DEF FxBusOption
<1>4. ASSUME NEW s \in Sources, SourceOption(p, s)
      PROVE  RestTypes'
  BY <1>1, <1>4 DEF SourceOption
<1>5. CASE BadOption(p) \/ EndOptions(p)
  BY <1>1, <1>5 DEF BadOption, EndOptions
<1>6. ASSUME NEW r \in Registers, NEW v \in 0 .. 1, RegisterOption(p, r, v)
      PROVE  RestTypes'
  <2>1. /\ regs' = regs \/ regs' = [regs EXCEPT ![r] = v]
        /\ Act(p) /\ UNCHANGED slips
    BY <1>6 DEF RegisterOption
  <2>2. regs' \in [Registers -> 0 .. 1]
    BY <2>1 DEF RestTypes
  <2> QED BY <2>1, <2>2 DEF RestTypes, Act
<1>7. ASSUME NEW v \in 0 .. 1, SwitchOption(p, v)
      PROVE  RestTypes'
  BY <1>1, <1>7 DEF SwitchOption, Unsettled
<1>8. CASE SwitchSecond(p) \/ FailSwitch(p)
  BY <1>1, <1>8 DEF SwitchSecond, FailSwitch, Unsettled
<1>9. CASE IrOption(p) \/ IrStep(p) \/ FailIr(p)
  BY <1>1, <1>9 DEF IrOption, IrStep, FailIr, Unsettled
<1>10. CASE CommitRecording(p) \/ CommitVoice(p) \/ FailCommit(p)
  BY <1>1, <1>10 DEF CommitRecording, CommitVoice, FailCommit
<1>11. ASSUME NEW c, NEW fs, ClickVoice(p, c, fs) \/ ClickRec(p, c, fs)
       PROVE  RestTypes'
  BY <1>1, <1>11 DEF ClickVoice, ClickRec
<1>12. CASE Config(p)
  BY <1>12, <1>2, <1>3, <1>4, <1>5, <1>6, <1>7, <1>8, <1>9, <1>10 DEF Config
<1>13. CASE Gui(p)
  BY <1>13, <1>2, <1>11
     DEF Gui, ClickAmount, ClickBus, ClickFx, ClickSource, OpenRecPage
<1> QED BY <1>12, <1>13

\* The words stay within their widths and the pins are 0 or 1.
THEOREM SettingsTyped == Spec => []TypeOK
<1> DEFINE Inv == CopyInv /\ PinInv /\ RestTypes
<1>1. Init => Inv
  <2>1. Init => RestTypes
    BY DEF Init, RestTypes
  <2> QED BY <2>1, InitCopies, InitPins
<1>2. Inv /\ [Next]_vars => Inv'
  <2> SUFFICES ASSUME Inv, [Next]_vars PROVE Inv'
    OBVIOUS
  <2>1. CASE UNCHANGED vars
    <3>1. RestTypes'
      BY <2>1 DEF vars, RestTypes
    <3> QED BY <3>1, NextKeepsCopies, NextKeepsPins
  <2>2. ASSUME NEW p \in Procs, Config(p) \/ Gui(p)
        PROVE  Inv'
    BY <2>2, RestKept, NextKeepsCopies, NextKeepsPins
  <2> QED BY <2>1, <2>2 DEF Next, Procs
<1>3. Inv => TypeOK
  BY DEF CopyInv, CopyTypes, PinInv, PinTypes, RestTypes, TypeOK, Places, Calm
<1> QED BY <1>1, <1>2, <1>3, PTL DEF Spec
=============================================================================
