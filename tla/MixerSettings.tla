--------------------------- MODULE MixerSettings ---------------------------
(***************************************************************************)
(* The settings of the mixer and the programs that change them: several    *)
(* runs of emu-config and several GUIs (mixer/lib/mix.c, emu-config.c,     *)
(* emu-gtkcontrol.c).                                                      *)
(*                                                                         *)
(* Each program reads the settings once, changes its copy, and writes      *)
(* whole halves of it back: emu-config both at its end, the GUI the one it *)
(* changed after each click.  Nothing locks the driver, and any ioctl may  *)
(* fail.  One ioctl is one step.  A click on a page of the GUI and the     *)
(* ioctl its callback makes are one step too: nothing else of that process *)
(* happens in between, and the other processes see only the ioctl.         *)
(*                                                                         *)
(* touched and stale are history variables: no operation reads them.       *)
(***************************************************************************)
EXTENDS SendWords, FiniteSets

CONSTANTS
    Configs,    \* the runs of emu-config
    Guis,       \* the runs of emu-gtkcontrol
    Audigy,     \* card_type: TRUE for an Audigy
    Amounts,    \* the amounts that sends are set to
    VoiceBuses, \* the buses that sends are routed to
    Voices,     \* the voice types whose pages the GUI opens
    Moved,      \* the sends it moves there
    Sources,    \* the recording sources chosen: AC97, MIC, FX
    RecBuses,   \* the FX buses chosen for recording
    Registers,  \* the single values emu-config writes at once
    MaxOptions  \* bound: the options of an emu-config, the clicks in a GUI

ASSUME ProcAssumption == Configs \cap Guis = {}
ASSUME ValueAssumption == /\ Amounts \subseteq SUBSET AmountBits
                          /\ VoiceBuses \subseteq SUBSET BusBits
                          /\ Voices \subseteq Types /\ Moved \subseteq Sends
                          /\ Sources \subseteq 1 .. 3
                          /\ RecBuses \subseteq 0 .. 15
                          /\ Registers \subseteq {"spdif", "boost", "mchfx", "passthrough"}
                          /\ Audigy \in BOOLEAN
                          /\ MaxOptions \in [Configs \cup Guis -> Nat]

Procs == Configs \cup Guis

VARIABLES
    hw,       \* the settings in the driver
    gpout,    \* the general purpose output pins
    regs,     \* the registers that are written at once
    pc,       \* where each process is
    copy,     \* struct mix_settings of each process
    used,     \* options or clicks each process has had
    touched,  \* fields of its copy a process set and has not written
    stale,    \* fields another process changed behind the copy
    slips     \* the pin sequences that failed or overlapped

vars == <<hw, gpout, regs, pc, copy, used, touched, stale, slips>>

-----------------------------------------------------------------------------
(* The settings *)

AC97 == 1
MIC == 2
FX == 3

Settings == [src     : 0 .. 3,
             fxwc    : SUBSET (0 .. 15),
             routing : [Types -> SUBSET (0 .. 15)],
             amount  : [Types -> SUBSET (0 .. 31)]]

\* mix_set of the GUI before mix_init().
Zero == [src |-> 0, fxwc |-> {},
         routing |-> [t \in Types |-> {}], amount |-> [t \in Types |-> {}]]

RecFields == {<<"src", 0, 0>>} \cup ({"fx"} \X (0 .. 15) \X {0})
VoiceFields == {"bus", "amount"} \X Types \X Sends
Fields == RecFields \cup VoiceFields

\* The fields two settings differ in.
Differ(a, b) ==
    {f \in Fields :
        \/ f[1] = "src" /\ a.src # b.src
        \/ f[1] = "fx" /\ ~(f[2] \in a.fxwc <=> f[2] \in b.fxwc)
        \/ f[1] = "bus" /\ GetBus(a.routing[f[2]], f[3]) # GetBus(b.routing[f[2]], f[3])
        \/ f[1] = "amount" /\ GetAmount(a.amount[f[2]], f[3]) # GetAmount(b.amount[f[2]], f[3])}

\* One half from one setting, the other from another.
Joined(rec, voice) ==
    [src |-> rec.src, fxwc |-> rec.fxwc, routing |-> voice.routing, amount |-> voice.amount]
RecOf(to, from) == Joined(from, to)
VoiceOf(to, from) == Joined(to, from)

Pins == {0, 1, 2, 6}

Init ==
    /\ hw = [src |-> AC97, fxwc |-> {0},
             routing |-> [t \in Types |-> {0, 4}], amount |-> [t \in Types |-> 0 .. 31]]
    /\ gpout = [n \in Pins |-> 0]
    /\ regs = [r \in Registers |-> 0]
    /\ pc = [p \in Procs |-> "readrec"]
    /\ copy = [p \in Procs |-> Zero]
    /\ used = [p \in Procs |-> 0]
    /\ touched = [p \in Procs |-> {}]
    /\ stale = [p \in Procs |-> Fields]
    /\ slips = {}

-----------------------------------------------------------------------------
(* mix_init(): emu-config gives up when it fails, the GUI goes on.  Its    *)
(* third ioctl only asks for the card: emu-config failing there is the     *)
(* same as a bad option.                                                   *)

GoTo(p, to) == pc' = [pc EXCEPT ![p] = to]

\* With the process its copy is gone.
Gone(p, how) ==
    /\ GoTo(p, how)
    /\ copy' = [copy EXCEPT ![p] = Zero]
    /\ touched' = [touched EXCEPT ![p] = {}]

Ready(p) == IF p \in Configs THEN "options" ELSE "idle"
Settled == UNCHANGED <<hw, gpout, regs, used, touched, slips>>

ReadRecording(p) ==
    /\ pc[p] = "readrec"
    /\ copy' = [copy EXCEPT ![p] = RecOf(@, hw)]
    /\ stale' = [stale EXCEPT ![p] = @ \ RecFields]
    /\ GoTo(p, "readvoice")
    /\ Settled

ReadVoice(p) ==
    /\ pc[p] = "readvoice"
    /\ copy' = [copy EXCEPT ![p] = VoiceOf(@, hw)]
    /\ stale' = [stale EXCEPT ![p] = @ \ VoiceFields]
    /\ GoTo(p, Ready(p))
    /\ Settled

FailInit(p) ==
    /\ pc[p] \in {"readrec", "readvoice"}
    /\ IF p \in Configs THEN Gone(p, "failed") ELSE GoTo(p, "idle") /\ UNCHANGED <<copy, touched>>
    /\ stale' = IF p \in Configs THEN [stale EXCEPT ![p] = Fields] ELSE stale
    /\ UNCHANGED <<hw, gpout, regs, used, slips>>

-----------------------------------------------------------------------------
(* Setting a field of the copy, and writing a half of it to the driver     *)

CanAct(p, where) == pc[p] = where /\ used[p] < MaxOptions[p]
Act(p) == used' = [used EXCEPT ![p] = @ + 1]

\* The copy of p becomes c, whose fields fs were set.
Keep(p, c, fs) ==
    /\ copy' = [copy EXCEPT ![p] = c]
    /\ touched' = [touched EXCEPT ![p] = @ \cup fs]
    /\ UNCHANGED <<hw, stale>>

\* What p changes in the driver is news to all others.
StaleAfter(p, new) ==
    [q \in Procs |-> IF q = p THEN stale[q] ELSE stale[q] \cup Differ(hw, new)]

\* The copy of p becomes c, and half of it, the fields fs, is written.
Write(p, c, new, fs) ==
    /\ copy' = [copy EXCEPT ![p] = c]
    /\ hw' = new
    /\ touched' = [touched EXCEPT ![p] = @ \ fs]
    /\ stale' = [StaleAfter(p, new) EXCEPT ![p] = @ \ fs]

WriteRec(p, c) == Write(p, c, RecOf(hw, c), RecFields)
WriteVoice(p, c) == Write(p, c, VoiceOf(hw, c), VoiceFields)

WithFx(c, b) == [c EXCEPT !.fxwc = @ \cup {b}]
WithoutFx(c, b) == [c EXCEPT !.fxwc = @ \ {b}]
WithSource(c, s) == [c EXCEPT !.src = s]
WithAmount(c, t, i, v) == [c EXCEPT !.amount[t] = SetAmount(@, i, v)]
WithBus(c, t, i, v) == [c EXCEPT !.routing[t] = SetBus(@, i, v)]

-----------------------------------------------------------------------------
(* emu-config: the options, in the order of the command line *)

\* -b and -r: only when the copy records from FX, else argp_failure() exits.
FxBusOption(p, b, on) ==
    /\ CanAct(p, "options")
    /\ copy[p].src = FX
    /\ Act(p)
    /\ Keep(p, IF on THEN WithFx(copy[p], b) ELSE WithoutFx(copy[p], b), {<<"fx", b, 0>>})
    /\ UNCHANGED <<pc, gpout, regs, slips>>

\* -s
SourceOption(p, s) ==
    /\ CanAct(p, "options")
    /\ Act(p)
    /\ Keep(p, WithSource(copy[p], s), {<<"src", 0, 0>>})
    /\ UNCHANGED <<pc, gpout, regs, slips>>

\* A bus without FX, a source that does not exist, an unknown option: exit()
\* with nothing committed.
BadOption(p) ==
    /\ pc[p] = "options"
    /\ Gone(p, "failed")
    /\ stale' = [stale EXCEPT ![p] = Fields]
    /\ UNCHANGED <<hw, gpout, regs, used, slips>>

OnThisCard(r) == CASE r = "spdif" -> Audigy
                   [] r = "boost" -> ~Audigy
                   [] OTHER -> TRUE

\* -f, -B, -m, -t: one ioctl, at once; its failure is not looked at.
RegisterOption(p, r, v) ==
    /\ CanAct(p, "options")
    /\ Act(p)
    /\ regs' \in IF OnThisCard(r) THEN {regs, [regs EXCEPT ![r] = v]} ELSE {regs}
    /\ UNCHANGED <<hw, gpout, pc, copy, touched, stale, slips>>

Unsettled == UNCHANGED <<hw, regs, copy, touched, stale>>
SetPin(n, v) == gpout' = [gpout EXCEPT ![n] = v]
Slip(what) == slips' = slips \cup {what}

Switching(v) == IF v = 0 THEN "analog" ELSE "digital"
Overlaps(p) == \E q \in Procs \ {p} : pc[q] \in {"analog", "digital"}

\* -a and -d: set_51() switches pin 6 of an Audigy, then pin 2.
SwitchOption(p, v) ==
    /\ CanAct(p, "options")
    /\ Act(p)
    /\ IF Audigy THEN SetPin(6, v) /\ GoTo(p, Switching(v))
                 ELSE SetPin(2, v) /\ UNCHANGED pc
    /\ IF Overlaps(p) THEN Slip("51") ELSE UNCHANGED slips
    /\ Unsettled

\* Mutant: the second pin is switched the other way.
SwitchedOther(v) == 1 - v

Switched(v) == v

SwitchSecond(p) ==
    /\ pc[p] \in {"analog", "digital"}
    /\ SetPin(2, Switched(IF pc[p] = "analog" THEN 0 ELSE 1))
    /\ GoTo(p, "options")
    /\ UNCHANGED <<used, slips>>
    /\ Unsettled

FailSwitch(p) ==
    /\ pc[p] \in {"analog", "digital"}
    /\ GoTo(p, "options")
    /\ Slip("51")
    /\ UNCHANGED <<used, gpout>>
    /\ Unsettled

\* -i: enable_ir() raises pin 0, pulses pin 1 and lowers pin 0 again.
IrOption(p) ==
    /\ CanAct(p, "options")
    /\ Act(p)
    /\ SetPin(0, 1)
    /\ GoTo(p, "ir1")
    /\ UNCHANGED slips
    /\ Unsettled

\* Mutant: the pulse on pin 1 is never ended.
IrStepsLong(at) ==
    CASE at = "ir1" -> [pin |-> 1, level |-> 1, next |-> "ir2"]
      [] at = "ir2" -> [pin |-> 1, level |-> 1, next |-> "ir3"]
      [] at = "ir3" -> [pin |-> 0, level |-> 0, next |-> "options"]

\* Mutant: after the last pin the sequence starts over.
IrStepsAgain(at) ==
    CASE at = "ir1" -> [pin |-> 1, level |-> 1, next |-> "ir2"]
      [] at = "ir2" -> [pin |-> 1, level |-> 0, next |-> "ir3"]
      [] at = "ir3" -> [pin |-> 0, level |-> 0, next |-> "ir1"]

IrSteps(at) ==
    CASE at = "ir1" -> [pin |-> 1, level |-> 1, next |-> "ir2"]
      [] at = "ir2" -> [pin |-> 1, level |-> 0, next |-> "ir3"]
      [] at = "ir3" -> [pin |-> 0, level |-> 0, next |-> "options"]

InIr(p) == pc[p] \in {"ir1", "ir2", "ir3"}

IrStep(p) ==
    /\ InIr(p)
    /\ SetPin(IrSteps(pc[p]).pin, IrSteps(pc[p]).level)
    /\ GoTo(p, IrSteps(pc[p]).next)
    /\ UNCHANGED <<used, slips>>
    /\ Unsettled

FailIr(p) ==
    /\ InIr(p)
    /\ GoTo(p, "options")
    /\ Slip("ir")
    /\ UNCHANGED <<used, gpout>>
    /\ Unsettled

\* The end of the command line: mix_commit().
EndOptions(p) ==
    /\ pc[p] = "options"
    /\ GoTo(p, "commitrec")
    /\ UNCHANGED <<hw, gpout, regs, copy, used, touched, stale, slips>>

\* Mutant: the recording settings are not written by mix_commit().
CommitNoRec(p) == Keep(p, copy[p], {})

CommitRec(p) == WriteRec(p, copy[p])

CommitRecording(p) ==
    /\ pc[p] = "commitrec"
    /\ CommitRec(p)
    /\ GoTo(p, "commitvoice")
    /\ UNCHANGED <<gpout, regs, used, slips>>

CommitVoice(p) ==
    /\ pc[p] = "commitvoice"
    /\ hw' = VoiceOf(hw, copy[p])
    /\ stale' = [StaleAfter(p, hw') EXCEPT ![p] = Fields]
    /\ Gone(p, "done")
    /\ UNCHANGED <<gpout, regs, used, slips>>

FailCommit(p) ==
    /\ pc[p] \in {"commitrec", "commitvoice"}
    /\ Gone(p, "failed")
    /\ stale' = [stale EXCEPT ![p] = Fields]
    /\ UNCHANGED <<hw, gpout, regs, used, slips>>

Config(p) ==
    \/ ReadRecording(p) \/ ReadVoice(p) \/ FailInit(p)
    \/ \E b \in RecBuses, on \in BOOLEAN : FxBusOption(p, b, on)
    \/ \E s \in Sources : SourceOption(p, s)
    \/ BadOption(p)
    \/ \E r \in Registers, v \in 0 .. 1 : RegisterOption(p, r, v)
    \/ \E v \in 0 .. 1 : SwitchOption(p, v)
    \/ SwitchSecond(p) \/ FailSwitch(p)
    \/ IrOption(p) \/ IrStep(p) \/ FailIr(p)
    \/ EndOptions(p) \/ CommitRecording(p) \/ CommitVoice(p) \/ FailCommit(p)

-----------------------------------------------------------------------------
(* The GUI: a callback sets the copy and writes the half; failures are not *)
(* looked at                                                               *)

ClickVoice(p, c, fs) ==
    /\ CanAct(p, "idle")
    /\ Act(p)
    /\ WriteVoice(p, c) \/ Keep(p, c, fs)
    /\ UNCHANGED <<pc, gpout, regs, slips>>

ClickRec(p, c, fs) ==
    /\ CanAct(p, "idle")
    /\ Act(p)
    /\ WriteRec(p, c) \/ Keep(p, c, fs)
    /\ UNCHANGED <<pc, gpout, regs, slips>>

ClickAmount(p, t, i, v) == ClickVoice(p, WithAmount(copy[p], t, i, v), {<<"amount", t, i>>})
ClickBus(p, t, i, v) == ClickVoice(p, WithBus(copy[p], t, i, v), {<<"bus", t, i>>})

\* A toggle button shows what the copy holds, a click turns it over.
ClickFx(p, b) ==
    ClickRec(p, IF b \in copy[p].fxwc THEN WithoutFx(copy[p], b) ELSE WithFx(copy[p], b),
             {<<"fx", b, 0>>})

\* Of the radio buttons the first is down unless the copy names another one.
Shown(p) == IF copy[p].src = 0 THEN AC97 ELSE copy[p].src
ClickSource(p, s) == s # Shown(p) /\ ClickRec(p, WithSource(copy[p], s), {<<"src", 0, 0>>})

\* Opening the page sets the buttons after their callbacks are connected: each
\* one that has to go down writes the recording half, as the copy has it.
OpenRecPage(p) ==
    /\ Shown(p) # AC97 \/ copy[p].fxwc # {}
    /\ ClickRec(p, copy[p], {})

Gui(p) ==
    \/ ReadRecording(p) \/ ReadVoice(p) \/ FailInit(p)
    \/ \E t \in Voices, i \in Moved, v \in Amounts : ClickAmount(p, t, i, v)
    \/ \E t \in Voices, i \in Moved, v \in VoiceBuses : ClickBus(p, t, i, v)
    \/ \E b \in RecBuses : ClickFx(p, b)
    \/ \E s \in Sources : ClickSource(p, s)
    \/ OpenRecPage(p)

-----------------------------------------------------------------------------
Next == (\E p \in Configs : Config(p)) \/ (\E p \in Guis : Gui(p))

\* emu-config runs through its arguments without waiting for anyone; what a
\* user clicks in the GUI is up to the user.
Fairness == \A p \in Configs : WF_vars(Config(p))

Spec == Init /\ [][Next]_vars /\ Fairness
-----------------------------------------------------------------------------
(* Properties *)

\* Types and ranges: the words stay within their widths (send_routing is a u16,
\* fxwc is cut to 16 bits), the pins are 0 or 1.
TypeOK ==
    /\ hw \in Settings
    /\ gpout \in [Pins -> 0 .. 1]
    /\ regs \in [Registers -> 0 .. 1]
    /\ pc \in [Procs -> {"readrec", "readvoice", "options", "idle",
                         "analog", "digital", "ir1", "ir2", "ir3",
                         "commitrec", "commitvoice", "done", "failed"}]
    /\ copy \in [Procs -> Settings]
    /\ used \in [Procs -> Nat]
    /\ touched \in [Procs -> SUBSET Fields]
    /\ stale \in [Procs -> SUBSET Fields]
    /\ slips \subseteq {"51", "ir"}

\* Where a program's copy and the driver differ, the program has set that very
\* field (and not written it), or another program changed it since, or it was
\* never read.  So what a program writes back undoes nothing but changes made
\* behind its back: setting one send never moves another one of its word, and
\* no half is written from the wrong place.
CopyExplained == \A p \in Procs : Differ(hw, copy[p]) \subseteq touched[p] \cup stale[p]

\* The pins of the IR port are low whenever no program is inside enable_ir() and
\* no ioctl of one has failed, however many of them overlapped.
PinsReleased ==
    "ir" \notin slips /\ (\A p \in Procs : ~InIr(p)) => gpout[0] = 0 /\ gpout[1] = 0

\* The two pins that switch an Audigy between analog and digital agree, unless
\* one set_51() failed half way or two of them overlapped.
OutputPinsAgree ==
    Audigy /\ "51" \notin slips /\ (\A p \in Procs : pc[p] \notin {"analog", "digital"})
        => gpout[2] = gpout[6]

\* A run of emu-config ends, whatever the other programs do.
ConfigEnds == \A p \in Configs : <>(pc[p] \in {"done", "failed"})

\* The recording source that emu-config has at the end of its options is in the
\* driver some time later, or emu-config ends with a failure.
SourceArrives ==
    \A p \in Configs : \A s \in Sources :
        (pc[p] = "commitrec" /\ copy[p].src = s) ~> (hw.src = s \/ pc[p] = "failed")
=============================================================================
