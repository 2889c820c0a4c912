------------------------------ MODULE PontProofs ----------------------------
(***************************************************************************)
(* What the bridge promises for every bench it may run on: with or without  *)
(* lock-step, a one- or two-phase DSP, crashes, machine resets and a        *)
(* firmware as slow as it likes, until the DSP first misses the end of the  *)
(* short wait.  The invariant says where the one frame in flight is and     *)
(* what else may be in the two links by then.                               *)
(*                                                                         *)
(* Three more parts build on it: the ends of service that phase B waits for *)
(* (ServiceInv), with any DSP; the two-phase tick with peers that keep      *)
(* their times (Prompt; PromptInv), as on the Nominal and SinglePhase       *)
(* benches of MCPont; and, on such a bench, the steps of FrameOrder.        *)
(***************************************************************************)
EXTENDS Pont, FiniteSetTheorems, TLAPS

Answers == [phase_a : BOOLEAN, api : BOOLEAN]

\* Neither a TICK nor a DCCH is queued to the DSP.
Quiet(s) == \A i \in 1 .. Len(s) : s[i].type \notin {"TICK", "DCCH"}

\* Nor a GO.
NoGo(s) == \A i \in 1 .. Len(s) : s[i].type # "GO"

\* One TICK is queued, of frame f, two-phase or not; a DCCH or a GO only before it.
TickAt(s, i, two, same, f) ==
  /\ i \in 1 .. Len(s) /\ s[i].type = "TICK"
  /\ s[i].two = two
  /\ same => s[i].fn = f
  /\ \A k \in 1 .. Len(s) : (s[k].type = "TICK" => k = i) /\ (s[k].type \in {"DCCH", "GO"} => k < i)
TickIn(s, two, same, f) == \E i \in 1 .. Len(s) : TickAt(s, i, two, same, f)

\* The answers on their way: none, phase A, the final one, or both.
NoAnswer(q) == q = <<>>
OnlyA(q) == Len(q) = 1 /\ q[1].phase_a
OnlyF(q) == Len(q) = 1 /\ ~ q[1].phase_a
AThenF(q) == Len(q) = 2 /\ q[1].phase_a /\ ~ q[2].phase_a

PhaseOne == tick_phase = 1
OnFrame == Lockstep => dsp_fn = fn

\* The DSP owes nothing; the TICK is queued; its ISR is played; the ISR is over;
\* the frame is over and its answer is queued.
Nothing ==
  /\ ~ pont_pending /\ dsp = "idle" /\ Quiet(toDsp) /\ NoAnswer(toQemu)
  /\ PhaseOne => phase_a_recue
Sent ==
  /\ pont_pending /\ dsp = "idle" /\ TickIn(toDsp, PhaseOne, Lockstep, fn) /\ NoAnswer(toQemu)
  /\ PhaseOne => ~ phase_a_recue
InIsr ==
  /\ pont_pending /\ dsp = "isr" /\ Quiet(toDsp) /\ NoGo(toDsp) /\ NoAnswer(toQemu)
  /\ PhaseOne => ~ phase_a_recue
  /\ dsp_two = (TwoPhaseDsp /\ PhaseOne)
  /\ OnFrame
AfterIsr ==
  /\ pont_pending /\ dsp \in {"wait_go", "burst"} /\ Quiet(toDsp)
  /\ PhaseOne => NoGo(toDsp)
  /\ \/ NoAnswer(toQemu) /\ (PhaseOne => phase_a_recue)
     \/ OnlyA(toQemu) /\ PhaseOne /\ ~ phase_a_recue
  /\ OnFrame
Answered ==
  /\ pont_pending /\ dsp = "idle" /\ Quiet(toDsp)
  /\ OnlyF(toQemu) \/ (AThenF(toQemu) /\ PhaseOne /\ ~ phase_a_recue)

Flight == Nothing \/ Sent \/ InIsr \/ AfterIsr \/ Answered

\* The state outside the links.
Outside ==
  /\ bench \in Bench
  /\ fd \in BOOLEAN /\ pont_pending \in BOOLEAN /\ phase_a_recue \in BOOLEAN
  /\ dsp_en \in BOOLEAN /\ dcch_a_dire \in BOOLEAN /\ tdma_running \in BOOLEAN
  /\ pas \in BOOLEAN /\ dsp_two \in BOOLEAN
  /\ tick_phase \in {0, 1} /\ fn \in 0 .. Hyperframe - 1 /\ late \in Nat
  /\ toDsp \in Seq(Messages) /\ toQemu \in Seq(Answers)
  /\ Alive => fd
  /\ PhaseOne => tdma_running
  /\ pas => pont_pending /\ ~ tdma_running /\ fd
  /\ ~ tdma_running => fn = 0

InTime == late = 0 /\ Alive
PontInv == Outside /\ (InTime => Flight)

-----------------------------------------------------------------------------
(* The link to the DSP.                                                     *)
LEMMA MessageTypes ==
  /\ \A f \in 0 .. Hyperframe - 1, irq, two \in BOOLEAN :
       /\ Tick(f, irq, two) \in Messages /\ Tick(f, irq, two).type = "TICK"
       /\ Tick(f, irq, two).two = two /\ Tick(f, irq, two).fn = f
  /\ \A f \in 0 .. Hyperframe - 1 : Go(f) \in Messages /\ Go(f).type = "GO"
  /\ Dcch \in Messages /\ Dcch.type = "DCCH"
  /\ ResetMsg \in Messages /\ ResetMsg.type = "RESET"
BY DEF Messages, Tick, Go, Dcch, ResetMsg

LEMMA TailShift ==
  ASSUME NEW S, NEW s \in Seq(S), s # <<>>
  PROVE  /\ Tail(s) \in Seq(S) /\ Len(Tail(s)) = Len(s) - 1 /\ Len(s) \in Nat \ {0}
         /\ \A k \in 1 .. Len(Tail(s)) : Tail(s)[k] = s[k + 1]
         /\ Head(s) = s[1]
OBVIOUS

LEMMA AppendEntries ==
  ASSUME NEW S, NEW s \in Seq(S), NEW m \in S
  PROVE  /\ Append(s, m) \in Seq(S) /\ Len(Append(s, m)) = Len(s) + 1
         /\ Append(s, m)[Len(s) + 1] = m
         /\ \A k \in 1 .. Len(s) : Append(s, m)[k] = s[k]
OBVIOUS

LEMMA QuietTail ==
  ASSUME NEW s \in Seq(Messages), s # <<>>, Quiet(s)
  PROVE  Quiet(Tail(s)) /\ (NoGo(s) => NoGo(Tail(s)))
BY TailShift DEF Quiet, NoGo

LEMMA QuietAppend ==
  ASSUME NEW s \in Seq(Messages), Quiet(s), NEW m \in Messages, m.type \in {"GO", "RESET"}
  PROVE  Quiet(Append(s, m)) /\ (NoGo(s) /\ m.type # "GO" => NoGo(Append(s, m)))
<1> SUFFICES ASSUME NEW i \in 1 .. Len(s) + 1
             PROVE  /\ Append(s, m)[i].type \notin {"TICK", "DCCH"}
                    /\ NoGo(s) /\ m.type # "GO" => Append(s, m)[i].type # "GO"
  BY DEF Quiet, NoGo
<1>1. CASE i = Len(s) + 1
  BY <1>1
<1>2. CASE i \in 1 .. Len(s)
  BY <1>2 DEF Quiet, NoGo
<1> QED BY <1>1, <1>2

LEMMA TickAppend ==
  ASSUME NEW s \in Seq(Messages), NEW two \in BOOLEAN, NEW same \in BOOLEAN, NEW f,
         TickIn(s, two, same, f), NEW m \in Messages, m.type = "RESET"
  PROVE  TickIn(Append(s, m), two, same, f)
<1>1. PICK i \in 1 .. Len(s) : TickAt(s, i, two, same, f)
  BY DEF TickIn
<1>2. /\ Len(Append(s, m)) = Len(s) + 1 /\ Len(s) \in Nat
      /\ \A k \in 1 .. Len(s) : Append(s, m)[k] = s[k]
      /\ Append(s, m)[Len(s) + 1] = m
  OBVIOUS
<1>3. \A k \in 1 .. Len(s) + 1 : k \in 1 .. Len(s) \/ k = Len(s) + 1
  BY <1>2
<1>4. TickAt(Append(s, m), i, two, same, f)
  BY <1>1, <1>2, <1>3 DEF TickAt
<1> QED BY <1>4 DEF TickIn, TickAt

\* A message ahead of the TICK is taken.
LEMMA TickTail ==
  ASSUME NEW s \in Seq(Messages), NEW two \in BOOLEAN, NEW same \in BOOLEAN, NEW f,
         TickIn(s, two, same, f), Head(s).type # "TICK"
  PROVE  TickIn(Tail(s), two, same, f)
<1>1. PICK i \in 1 .. Len(s) : TickAt(s, i, two, same, f)
  BY DEF TickIn
<1>2. s # <<>>
  OBVIOUS
<1>3. i # 1 /\ i - 1 \in 1 .. Len(Tail(s))
  BY <1>1, <1>2, TailShift DEF TickAt
<1>4. TickAt(Tail(s), i - 1, two, same, f)
  <2>1. Tail(s)[i - 1] = s[i]
    BY <1>2, <1>3, TailShift
  <2>2. ASSUME NEW k \in 1 .. Len(Tail(s))
        PROVE  (Tail(s)[k].type = "TICK" => k = i - 1) /\ (Tail(s)[k].type \in {"DCCH", "GO"} => k < i - 1)
    <3>1. k + 1 \in 1 .. Len(s) /\ Tail(s)[k] = s[k + 1]
      BY <1>2, <2>2, TailShift
    <3> QED BY <1>1, <3>1 DEF TickAt
  <2> QED BY <1>1, <1>3, <2>1, <2>2 DEF TickAt
<1> QED BY <1>3, <1>4 DEF TickIn

\* The TICK itself is taken.
LEMMA TickHead ==
  ASSUME NEW s \in Seq(Messages), NEW two \in BOOLEAN, NEW same \in BOOLEAN, NEW f,
         TickIn(s, two, same, f), Head(s).type = "TICK"
  PROVE  Quiet(Tail(s)) /\ NoGo(Tail(s)) /\ Head(s).two = two /\ (same => Head(s).fn = f)
<1>1. PICK i \in 1 .. Len(s) : TickAt(s, i, two, same, f)
  BY DEF TickIn
<1>2. s # <<>>
  OBVIOUS
<1>3. i = 1 /\ Head(s) = s[1]
  BY <1>1, <1>2, TailShift DEF TickAt
<1>4. ASSUME NEW k \in 1 .. Len(Tail(s)) PROVE Tail(s)[k].type \notin {"TICK", "DCCH", "GO"}
  <2>1. k + 1 \in 1 .. Len(s) /\ Tail(s)[k] = s[k + 1] /\ k + 1 # 1 /\ ~ (k + 1 < 1)
    BY <1>2, <1>4, TailShift
  <2> QED BY <1>1, <1>3, <2>1 DEF TickAt
<1> QED BY <1>1, <1>3, <1>4 DEF Quiet, NoGo, TickAt

\* A TICK queued behind a link without one, after a DCCH if one is due.
LEMMA TickSent ==
  ASSUME NEW s \in Seq(Messages), Quiet(s), NEW f \in 0 .. Hyperframe - 1,
         NEW irq \in BOOLEAN, NEW two \in BOOLEAN, NEW same \in BOOLEAN,
         NEW first \in {<<>>, <<Dcch>>}
  PROVE  /\ s \o first \o <<Tick(f, irq, two)>> \in Seq(Messages)
         /\ TickIn(s \o first \o <<Tick(f, irq, two)>>, two, same, f)
<1> DEFINE m == Tick(f, irq, two)  r == s \o first \o <<m>>
<1>0. m \in Messages /\ m.type = "TICK" /\ m.two = two /\ m.fn = f
  BY MessageTypes
<1> HIDE DEF m
<1>1. CASE first = <<>>
  <2>1. r = Append(s, m) /\ Len(s) \in Nat
    BY <1>0, <1>1
  <2> HIDE DEF r
  <2>2. /\ r \in Seq(Messages) /\ Len(r) = Len(s) + 1 /\ r[Len(s) + 1] = m
        /\ \A k \in 1 .. Len(s) : r[k] = s[k]
    BY <1>0, <2>1
  <2>3. \A k \in 1 .. Len(r) : k \in 1 .. Len(s) \/ k = Len(s) + 1
    BY <2>1, <2>2
  <2>4. TickAt(r, Len(s) + 1, two, same, f)
    BY <1>0, <2>1, <2>2, <2>3 DEF TickAt, Quiet
  <2> QED BY <2>2, <2>4 DEF TickIn, TickAt, r, m
<1>2. CASE first = <<Dcch>>
  <2>0. Dcch \in Messages /\ Dcch.type = "DCCH"
    BY MessageTypes
  <2>1. r = Append(Append(s, Dcch), m) /\ Len(s) \in Nat
    BY <1>0, <1>2, <2>0
  <2> HIDE DEF r
  <2>2. /\ r \in Seq(Messages) /\ Len(r) = Len(s) + 2 /\ r[Len(s) + 2] = m /\ r[Len(s) + 1] = Dcch
        /\ \A k \in 1 .. Len(s) : r[k] = s[k]
    BY <1>0, <2>0, <2>1
  <2>3. \A k \in 1 .. Len(r) : k \in 1 .. Len(s) \/ k = Len(s) + 1 \/ k = Len(s) + 2
    BY <2>1, <2>2
  <2>4. TickAt(r, Len(s) + 2, two, same, f)
    BY <1>0, <2>0, <2>1, <2>2, <2>3 DEF TickAt, Quiet
  <2> QED BY <2>2, <2>4 DEF TickIn, TickAt, r, m
<1> QED BY <1>1, <1>2

-----------------------------------------------------------------------------
(* The steps.                                                               *)
core == <<bench, fd, pont_pending, phase_a_recue, tick_phase, fn, late, tdma_running, pas,
          dspv, links>>

LEMMA PontInitInv == Init => PontInv
<1> SUFFICES ASSUME Init PROVE PontInv
  OBVIOUS
<1>1. fn \in 0 .. Hyperframe - 1 /\ late \in Nat
  BY PontAssumption DEF PontAssumption, Init
<1>2. toDsp \in Seq(Messages) /\ toQemu \in Seq(Answers) /\ Quiet(toDsp)
  BY DEF Init, Quiet
<1>3. /\ fd \in BOOLEAN /\ pont_pending \in BOOLEAN /\ phase_a_recue \in BOOLEAN
      /\ dsp_en \in BOOLEAN /\ dcch_a_dire \in BOOLEAN /\ tdma_running \in BOOLEAN
      /\ pas \in BOOLEAN /\ dsp_two \in BOOLEAN
  BY Zenon DEF Init
<1>4. tick_phase = 0 /\ fn = 0 /\ fd /\ ~ pas /\ dsp = "idle" /\ ~ pont_pending /\ toQemu = <<>>
  BY DEF Init
<1>5. Outside
  <2>1. bench \in Bench
    BY PontAssumption DEF PontAssumption, Init
  <2> QED BY <1>1, <1>2, <1>3, <1>4, <2>1 DEF Outside, PhaseOne
<1>6. Nothing
  BY <1>2, <1>4 DEF Nothing, NoAnswer, PhaseOne
<1> QED BY <1>5, <1>6 DEF PontInv, Flight

LEMMA Untouched ==
  ASSUME PontInv, UNCHANGED core, dsp_en' \in BOOLEAN, dcch_a_dire' \in BOOLEAN
  PROVE  PontInv'
BY DEF PontInv, core, dspv, links, Outside, InTime, Alive, Flight, Nothing, Sent, InIsr, AfterIsr,
       Answered, PhaseOne, OnFrame, Lockstep, TwoPhaseDsp

\* The end of file of a dead peer closes the socket.
LEMMA Closed ==
  ASSUME PontInv, UNCHANGED <<bench, pont_pending, phase_a_recue, tick_phase, fn, late,
                              tdma_running, pas, dspv, links, dsp_en, dcch_a_dire>>,
         ~ pas, fd' = (fd /\ ~ PeerGone)
  PROVE  PontInv'
<1>1. fd' \in BOOLEAN /\ (Alive => fd' = fd)
  BY DEF PeerGone, PontInv, Outside
<1> QED BY <1>1 DEF PontInv, dspv, links, Outside, InTime, Alive, Flight, Nothing, Sent, InIsr,
       AfterIsr, Answered, PhaseOne, OnFrame, Lockstep, TwoPhaseDsp

LEMMA NextFnType ==
  ASSUME Outside, NEW f \in NextFn
  PROVE  f \in 0 .. Hyperframe - 1
<1>1. Hyperframe \in Nat \ {0, 1} /\ fn \in 0 .. Hyperframe - 1
  BY PontAssumption DEF PontAssumption, Outside
<1>2. (fn + 1) % Hyperframe \in 0 .. Hyperframe - 1
  BY <1>1
<1> QED BY <1>2 DEF NextFn

\* pont_echange(): what a TICK changes, whoever sends it.
LEMMA SendTypes ==
  ASSUME Outside, NEW f \in 0 .. Hyperframe - 1, NEW two \in BOOLEAN, SendTick(f, two)
  PROVE  /\ toDsp' \in Seq(Messages) /\ pont_pending' = Alive
         /\ dsp_en' = FALSE /\ dcch_a_dire' = FALSE
         /\ Alive /\ Quiet(toDsp) => \A same \in BOOLEAN : TickIn(toDsp', two, same, f)
<1>1. DcchFirst \in {<<>>, <<Dcch>>} /\ DcchFirst \in Seq(Messages)
  BY MessageTypes DEF DcchFirst
<1>2. dsp_en \in BOOLEAN /\ toDsp \in Seq(Messages) /\ Tick(f, dsp_en, two) \in Messages
  BY MessageTypes DEF Outside
<1>3. toDsp' \in Seq(Messages)
  <2>1. toDsp \o DcchFirst \in Seq(Messages)
    BY <1>1, <1>2
  <2>2. toDsp \o DcchFirst \o <<Tick(f, dsp_en, two)>> \in Seq(Messages)
    BY <1>2, <2>1
  <2> QED BY <1>2, <2>2 DEF SendTick
<1>4. ASSUME Alive, Quiet(toDsp), NEW same \in BOOLEAN PROVE TickIn(toDsp', two, same, f)
  <2>1. toDsp' = toDsp \o DcchFirst \o <<Tick(f, dsp_en, two)>>
    BY <1>4 DEF SendTick
  <2>2. TickIn(toDsp \o DcchFirst \o <<Tick(f, dsp_en, two)>>, two, same, f)
    BY <1>1, <1>2, <1>4, TickSent, Zenon
  <2> QED BY <2>1, <2>2
<1> QED BY <1>3, <1>4 DEF SendTick

\* With the previous DONE in, nothing is left in flight.
LEMMA Collected ==
  ASSUME Outside, tick_phase = 0, DspFree, CollectDone
  PROVE  /\ toQemu' \in Seq(Answers)
         /\ Flight => dsp = "idle" /\ Quiet(toDsp) /\ toQemu' = <<>>
<1>1. CASE pont_pending
  <2>1. toQemu # <<>> /\ toQemu \in Seq(Answers) /\ toQemu' = Tail(toQemu)
    BY <1>1 DEF DspFree, CanRecv, CollectDone, Outside
  <2>2. toQemu' \in Seq(Answers) /\ (Len(toQemu) = 1 => toQemu' = <<>>)
    BY <2>1
  <2>3. Flight => Answered /\ OnlyF(toQemu)
    BY <1>1, <2>1 DEF Flight, Nothing, Sent, InIsr, AfterIsr, Answered, NoAnswer, PhaseOne
  <2> QED BY <2>2, <2>3 DEF Answered, OnlyF
<1>2. CASE ~ pont_pending
  BY <1>2 DEF CollectDone, Outside, Flight, Nothing, Sent, InIsr, AfterIsr, Answered, NoAnswer
<1> QED BY <1>1, <1>2 DEF Outside

LEMMA BenchTypes ==
  ASSUME Outside
  PROVE  Lockstep \in BOOLEAN /\ ArmFirstOn \in BOOLEAN /\ TwoPhaseDsp \in BOOLEAN
BY DEF Outside, Bench, Lockstep, ArmFirst, ArmFirstOn, TwoPhaseDsp

\* The start of a frame.
LEMMA FrameTickInv ==
  ASSUME PontInv, FrameTick, UNCHANGED bench, tdma_running, ~ pas
  PROVE  PontInv'
<1>0. Outside /\ tick_phase = 0
  BY DEF PontInv, FrameTick
<1>1. fn' \in 0 .. Hyperframe - 1
  BY <1>0, NextFnType DEF FrameTick
<1>2. /\ fd' = fd /\ pas' = pas /\ tdma_running' = tdma_running /\ late' = late
      /\ dsp' = dsp /\ dsp_two' = dsp_two /\ dsp_fn' = dsp_fn
  BY DEF FrameTick, arm, dspv, FreshFrame
<1>3. /\ toDsp' \in Seq(Messages) /\ pont_pending' = Alive
      /\ dsp_en' = FALSE /\ dcch_a_dire' = FALSE
      /\ Alive /\ Quiet(toDsp) => \A same \in BOOLEAN : TickIn(toDsp', ArmFirstOn, same, fn')
  BY <1>0, <1>1, SendTypes, BenchTypes DEF FrameTick
<1>4. /\ toQemu' \in Seq(Answers)
      /\ Flight => dsp = "idle" /\ Quiet(toDsp) /\ toQemu' = <<>>
  BY <1>0, Collected DEF FrameTick
<1>5. /\ tick_phase' = IF ArmFirstOn /\ Alive THEN 1 ELSE 0
      /\ phase_a_recue' = IF ArmFirstOn /\ Alive THEN FALSE ELSE phase_a_recue
  BY <1>0 DEF FrameTick
<1>6. Outside'
  <2>1. pont_pending' \in BOOLEAN /\ phase_a_recue' \in BOOLEAN /\ dsp_en' \in BOOLEAN
        /\ dcch_a_dire' \in BOOLEAN
    BY <1>0, <1>3, <1>5 DEF Outside, Alive
  <2>2. tick_phase' \in {0, 1} /\ Alive' = Alive
    BY <1>2, <1>5 DEF Alive
  <2> QED BY <1>0, <1>1, <1>2, <1>3, <1>4, <2>1, <2>2 DEF Outside
<1>7. ASSUME InTime' PROVE Sent'
  <2>1. InTime /\ Alive
    BY <1>2, <1>7 DEF InTime, Alive
  <2>2. dsp' = "idle" /\ NoAnswer(toQemu') /\ Quiet(toDsp)
    BY <1>2, <1>4, <2>1 DEF PontInv, NoAnswer
  <2>3. Lockstep' = Lockstep /\ Lockstep \in BOOLEAN
    BY <1>0, BenchTypes DEF Lockstep
  <2>4. PhaseOne' = ArmFirstOn
    BY <1>0, <1>5, <2>1, BenchTypes DEF PhaseOne
  <2>5. TickIn(toDsp', PhaseOne', Lockstep', fn')
    BY <1>3, <2>1, <2>2, <2>3, <2>4
  <2>6. pont_pending' /\ (PhaseOne' => ~ phase_a_recue')
    BY <1>3, <1>5, <2>1, <2>4
  <2> QED BY <2>2, <2>5, <2>6 DEF Sent
<1> QED BY <1>6, <1>7 DEF PontInv, Flight

\* A frame without a TICK: with a DSP alive only where there is no lock-step.
LEMMA FrameWithoutTickInv ==
  ASSUME PontInv, FrameWithoutTick, UNCHANGED bench, tdma_running, ~ pas
  PROVE  PontInv'
<1>0. Outside /\ tick_phase = 0
  BY DEF PontInv, FrameWithoutTick
<1>1. fn' \in 0 .. Hyperframe - 1
  BY <1>0, NextFnType DEF FrameWithoutTick
<1>2. /\ UNCHANGED <<pont_pending, tick_phase, phase_a_recue, pas, dcch_a_dire, tdma_running, late>>
      /\ UNCHANGED <<dsp, dsp_two, dsp_fn, toDsp, toQemu>>
  BY DEF FrameWithoutTick, arm, dspv, links, FreshFrame
<1>3. fd' \in BOOLEAN /\ dsp_en' \in BOOLEAN /\ (Alive => fd')
  BY <1>0 DEF FrameWithoutTick, PeerGone, Outside
<1>4. Alive' = Alive /\ PhaseOne' = PhaseOne
  BY <1>2 DEF Alive, PhaseOne
<1>5. Outside'
  BY <1>0, <1>1, <1>2, <1>3, <1>4 DEF Outside
<1>6. ASSUME InTime' PROVE Flight'
  <2>1. InTime /\ Flight
    BY <1>2, <1>4, <1>6 DEF InTime, PontInv
  <2>2. ~ Lockstep /\ Lockstep' = Lockstep
    BY <1>0, <2>1 DEF FrameWithoutTick, NoTickNow, InTime, Outside, Lockstep
  <2>3. TickIn(toDsp, PhaseOne, Lockstep, fn) => TickIn(toDsp', PhaseOne', Lockstep', fn')
    BY <1>2, <1>4, <2>2 DEF TickIn, TickAt
  <2>4. OnFrame'
    BY <2>2 DEF OnFrame
  <2> QED BY <1>2, <1>4, <2>1, <2>3, <2>4
          DEF Flight, Nothing, Sent, InIsr, AfterIsr, Answered, TwoPhaseDsp
<1> QED BY <1>5, <1>6 DEF PontInv

\* Phase one once the answer of the ISR, or the final one, is in.
LEMMA Received ==
  ASSUME Outside, Flight, Alive, tick_phase = 1, PhaseA, PhaseOneReceive
  PROVE  /\ phase_a_recue' /\ Quiet(toDsp)
         /\ \/ ~ pont_pending' /\ dsp = "idle" /\ NoAnswer(toQemu')
            \/ /\ pont_pending' /\ dsp \in {"wait_go", "burst"} /\ NoAnswer(toQemu')
               /\ NoGo(toDsp) /\ OnFrame
            \/ pont_pending' /\ dsp = "idle" /\ OnlyF(toQemu')
<1>0. phase_a_recue' /\ toQemu \in Seq(Answers) /\ pont_pending' = (pont_pending /\ ~ FinalDone)
  BY DEF PhaseOneReceive, Outside
<1>1. CASE phase_a_recue
  <2>1. toQemu' = toQemu /\ pont_pending' = pont_pending
    BY <1>0, <1>1 DEF PhaseOneReceive, ReceivesPhaseA, FinalDone, Outside
  <2> QED BY <1>0, <1>1, <2>1 DEF Flight, Nothing, Sent, InIsr, AfterIsr, Answered, PhaseOne
<1>2. CASE ~ phase_a_recue
  <2>1. ReceivesPhaseA /\ toQemu # <<>> /\ toQemu' = Tail(toQemu)
    BY <1>2 DEF PhaseA, ReceivesPhaseA, CanRecv, PhaseOneReceive
  <2>2. FinalDone = (~ toQemu[1].phase_a)
    BY <1>0, <2>1, TailShift DEF FinalDone
  <2>3. CASE AfterIsr
    <3>1. OnlyA(toQemu) /\ pont_pending
      BY <2>1, <2>3 DEF AfterIsr, NoAnswer
    <3>2. pont_pending'
      BY <1>0, <2>2, <3>1, Zenon DEF OnlyA
    <3>3. toQemu' = <<>>
      BY <1>0, <2>1, <3>1 DEF OnlyA
    <3> QED BY <1>0, <2>3, <3>2, <3>3 DEF AfterIsr, NoAnswer, PhaseOne
  <2>4. CASE Answered /\ OnlyF(toQemu)
    <3>1. ~ pont_pending'
      BY <1>0, <2>2, <2>4, Zenon DEF OnlyF
    <3>2. toQemu' = <<>>
      BY <1>0, <2>1, <2>4 DEF OnlyF
    <3> QED BY <1>0, <2>4, <3>1, <3>2 DEF Answered, NoAnswer
  <2>5. CASE Answered /\ AThenF(toQemu)
    <3>1. Len(toQemu') = 1 /\ toQemu'[1] = toQemu[2]
      BY <1>0, <2>1, <2>5, TailShift DEF AThenF
    <3>2. OnlyF(toQemu') /\ pont_pending'
      BY <1>0, <2>2, <2>5, <3>1 DEF AThenF, OnlyF, Answered
    <3> QED BY <1>0, <2>5, <3>2 DEF Answered
  <2> QED BY <1>2, <2>1, <2>3, <2>4, <2>5
          DEF Flight, Nothing, Sent, InIsr, Answered, NoAnswer, PhaseOne
<1> QED BY <1>1, <1>2 DEF Outside

\* What phase one leaves outside the links.
LEMMA ReceiveTypes ==
  ASSUME Outside, PhaseOneReceive
  PROVE  /\ fd' \in BOOLEAN /\ (Alive => fd') /\ phase_a_recue' \in BOOLEAN
         /\ pont_pending' \in BOOLEAN /\ toQemu' \in Seq(Answers)
<1>1. fd' \in BOOLEAN /\ (Alive => fd')
  BY DEF PhaseOneReceive, PeerGone, Outside
<1>2. phase_a_recue' \in BOOLEAN
  BY DEF PhaseOneReceive, PhaseA, ReceivesPhaseA, CanRecv, Outside
<1>3. pont_pending' \in BOOLEAN
  BY DEF PhaseOneReceive, Outside
<1>4. toQemu' \in Seq(Answers)
  <2>1. CASE ReceivesPhaseA
    BY <2>1 DEF PhaseOneReceive, ReceivesPhaseA, CanRecv, Outside
  <2>2. CASE ~ ReceivesPhaseA
    BY <2>2 DEF PhaseOneReceive, Outside
  <2> QED BY <2>1, <2>2
<1> QED BY <1>1, <1>2, <1>3, <1>4

LEMMA PhaseOneWaitInv ==
  ASSUME PontInv, PhaseOneWait, UNCHANGED bench, tdma_running, ~ pas
  PROVE  PontInv'
<1>0. Outside /\ tick_phase = 1 /\ PhaseOneReceive
  BY DEF PontInv, PhaseOneWait
<1>1. /\ UNCHANGED <<tick_phase, fn, pas, dsp_en, dcch_a_dire, tdma_running, late>>
      /\ UNCHANGED <<dsp, dsp_two, dsp_fn, toDsp>>
  BY DEF PhaseOneWait, arm, dspv
<1>2. Alive' = Alive /\ PhaseOne' = PhaseOne /\ OnFrame' = OnFrame /\ Lockstep' = Lockstep
  BY <1>1 DEF Alive, PhaseOne, OnFrame, Lockstep
<1>3. Outside'
  BY <1>0, <1>1, <1>2, ReceiveTypes DEF Outside
<1>4. ASSUME InTime' PROVE Flight'
  <2>1. Flight /\ Alive
    BY <1>1, <1>2, <1>4 DEF InTime, PontInv
  <2>2. CASE PhaseA
    BY <1>0, <1>1, <1>2, <2>1, <2>2, Received DEF Flight, Nothing, AfterIsr, Answered
  <2>3. CASE ~ PhaseA
    <3>1. ~ ReceivesPhaseA /\ ~ FinalDone /\ ~ phase_a_recue
      BY <2>3 DEF PhaseA, FinalDone
    <3>2. UNCHANGED <<phase_a_recue, pont_pending, toQemu>>
      BY <1>0, <2>3, <3>1 DEF PhaseOneReceive, Outside, PhaseA
    <3> QED BY <1>1, <1>2, <2>1, <3>2
            DEF Flight, Nothing, Sent, InIsr, AfterIsr, Answered, TwoPhaseDsp
  <2> QED BY <2>2, <2>3
<1> QED BY <1>3, <1>4 DEF PontInv

\* The end of phase one: a GO behind a quiet link, or a DSP that is late.
LEMMA PhaseOneGoInv ==
  ASSUME PontInv, PhaseOneGo, UNCHANGED bench, tdma_running, ~ pas
  PROVE  PontInv'
<1>0. Outside /\ tick_phase = 1 /\ PhaseOneReceive /\ tick_phase' = 0
  BY DEF PontInv, PhaseOneGo
<1>1. UNCHANGED <<fn, pas, dsp_en, dcch_a_dire, tdma_running, dsp, dsp_two, dsp_fn>>
  BY DEF PhaseOneGo, arm, dspv
<1>2. Alive' = Alive /\ ~ PhaseOne' /\ OnFrame' = OnFrame
  BY <1>0, <1>1 DEF Alive, PhaseOne, OnFrame, Lockstep
<1>3. toDsp' \in {toDsp, Append(toDsp, Go(fn))}
  BY DEF PhaseOneGo
<1>4. /\ Go(fn) \in Messages /\ Go(fn).type \in {"GO", "RESET"} /\ toDsp \in Seq(Messages)
  BY <1>0, MessageTypes DEF Outside
<1>5. toDsp' \in Seq(Messages) /\ (Quiet(toDsp) => Quiet(toDsp'))
  <2>1. Append(toDsp, Go(fn)) \in Seq(Messages)
    BY <1>4
  <2>2. Quiet(toDsp) => Quiet(Append(toDsp, Go(fn)))
    BY <1>4, QuietAppend
  <2> QED BY <1>3, <1>4, <2>1, <2>2
<1>6. late' \in Nat /\ (late' = 0 /\ Alive => late = 0 /\ PhaseA)
  <2>1. late \in Nat /\ (Alive => fd)
    BY <1>0 DEF Outside
  <2>2. CASE Forced /\ ~ PhaseA /\ fd /\ Alive
    BY <2>1, <2>2 DEF PhaseOneGo
  <2>3. CASE ~ (Forced /\ ~ PhaseA /\ fd /\ Alive)
    BY <2>1, <2>3 DEF PhaseOneGo, Fini
  <2> QED BY <2>2, <2>3
<1>7. Outside'
  BY <1>0, <1>1, <1>2, <1>5, <1>6, ReceiveTypes DEF Outside
<1>8. ASSUME InTime' PROVE Flight'
  <2>1. Flight /\ Alive /\ PhaseA
    BY <1>2, <1>6, <1>8 DEF InTime, PontInv
  <2> QED BY <1>0, <1>1, <1>2, <1>5, <2>1, Received DEF Flight, Nothing, AfterIsr, Answered
<1> QED BY <1>7, <1>8 DEF PontInv

\* tdma_tick()
LEMMA TdmaTickInv ==
  ASSUME PontInv, TdmaTick, UNCHANGED bench
  PROVE  PontInv'
<1>1. CASE LockstepWait
  <2>1. fd' = (fd /\ ~ PeerGone) /\ ~ pas
    BY <1>1 DEF LockstepWait, TdmaTick
  <2> QED BY <1>1, <2>1, Closed DEF LockstepWait, arm, hist
<1> QED BY <1>1, FrameTickInv, FrameWithoutTickInv, PhaseOneWaitInv, PhaseOneGoInv DEF TdmaTick

\* A TICK sent outside the TDMA, with nothing in flight.
LEMMA BootSendInv ==
  ASSUME PontInv, UNCHANGED bench, ~ tdma_running, fd, SendTick(fn, FALSE),
         UNCHANGED <<fd, phase_a_recue, tick_phase, fn, late, tdma_running, dspv>>,
         toQemu' \in Seq(Answers), pas' \in BOOLEAN, pas' => pont_pending',
         Flight => dsp = "idle" /\ Quiet(toDsp) /\ toQemu' = <<>>
  PROVE  PontInv'
<1>0. Outside /\ tick_phase = 0
  BY DEF PontInv, Outside, PhaseOne
<1>1. /\ toDsp' \in Seq(Messages) /\ pont_pending' = Alive
      /\ dsp_en' = FALSE /\ dcch_a_dire' = FALSE
      /\ Alive /\ Quiet(toDsp) => \A same \in BOOLEAN : TickIn(toDsp', FALSE, same, fn)
  <2>1. fn \in 0 .. Hyperframe - 1 /\ FALSE \in BOOLEAN
    BY <1>0 DEF Outside
  <2> QED BY <1>0, <2>1, SendTypes
<1>2. Alive' = Alive /\ PhaseOne' = PhaseOne /\ Lockstep' = Lockstep
  BY DEF Alive, PhaseOne, Lockstep, dspv
<1>3. Outside'
  <2>1. pont_pending' \in BOOLEAN /\ dsp_en' \in BOOLEAN /\ dcch_a_dire' \in BOOLEAN
    BY <1>1 DEF Alive
  <2> QED BY <1>0, <1>1, <1>2, <2>1 DEF Outside, dspv
<1>4. ASSUME InTime' PROVE Sent'
  <2>1. Flight /\ Alive
    BY <1>2, <1>4 DEF InTime, PontInv
  <2>2. PhaseOne' = FALSE /\ Lockstep \in BOOLEAN
    BY <1>0, <1>2, BenchTypes DEF PhaseOne
  <2>3. TickIn(toDsp', PhaseOne', Lockstep', fn')
    BY <1>1, <1>2, <2>1, <2>2
  <2> QED BY <1>1, <2>1, <2>2, <2>3 DEF Sent, NoAnswer, dspv
<1> QED BY <1>3, <1>4 DEF PontInv, Flight

\* pont_boot_tick()
LEMMA BootTickInv ==
  ASSUME PontInv, BootTick, UNCHANGED bench
  PROVE  PontInv'
<1>0. /\ Outside /\ ~ pas
      /\ UNCHANGED <<tick_phase, phase_a_recue, fn, pas, late, tdma_running, dspv>>
  BY DEF PontInv, BootTick, arm, hist
<1>1. CASE UNCHANGED <<fd, pont_pending, dsp_en, dcch_a_dire, links>>
  BY <1>0, <1>1, Untouched DEF core, PontInv, Outside
<1>2. CASE ~ tdma_running /\ DspFree /\ CollectDone /\ SendTick(fn, FALSE) /\ UNCHANGED fd
  <2>1. tick_phase = 0 /\ fd
    BY <1>0, <1>2 DEF Outside, PhaseOne, DspFree
  <2>2. /\ toQemu' \in Seq(Answers)
        /\ Flight => dsp = "idle" /\ Quiet(toDsp) /\ toQemu' = <<>>
    BY <1>0, <1>2, <2>1, Collected
  <2> QED BY <1>0, <1>2, <2>1, <2>2, BootSendInv DEF Outside
<1>3. CASE fd' = (fd /\ ~ PeerGone) /\ UNCHANGED <<pont_pending, dsp_en, dcch_a_dire, links>>
  BY <1>0, <1>3, Closed
<1> QED BY <1>1, <1>2, <1>3 DEF BootTick

\* pont_boot_pas(), the TICK and the end of the wait.
LEMMA PollStatusInv ==
  ASSUME PontInv, PollStatus, UNCHANGED bench
  PROVE  PontInv'
<1>0. /\ Outside /\ ~ pas
      /\ UNCHANGED <<fd, tick_phase, phase_a_recue, fn, late, tdma_running, dspv, toQemu>>
  BY DEF PontInv, PollStatus, MainLoop, ArmRuns, hist
<1>1. CASE UNCHANGED <<pont_pending, pas, toDsp, dsp_en, dcch_a_dire>>
  BY <1>0, <1>1, Untouched DEF core, links, Outside
<1>2. CASE ~ tdma_running /\ fd /\ pont_pending /\ pas' = pont_pending'
           /\ UNCHANGED <<pont_pending, toDsp, dsp_en, dcch_a_dire>>
  <2>1. Outside'
    BY <1>0, <1>2 DEF Outside, Alive, PhaseOne, dspv
  <2>2. InTime' = InTime /\ (Flight => Flight')
    BY <1>0, <1>2 DEF InTime, Alive, Flight, Nothing, Sent, InIsr, AfterIsr, Answered, PhaseOne,
          OnFrame, Lockstep, TwoPhaseDsp, dspv
  <2> QED BY <2>1, <2>2 DEF PontInv
<1>3. CASE ~ tdma_running /\ fd /\ ~ pont_pending /\ SendTick(fn, FALSE) /\ pas' = pont_pending'
  <2>1. Flight => dsp = "idle" /\ Quiet(toDsp) /\ toQemu' = <<>>
    BY <1>0, <1>3 DEF Flight, Nothing, Sent, InIsr, AfterIsr, Answered, NoAnswer
  <2>2. pas' \in BOOLEAN /\ toQemu' \in Seq(Answers)
    BY <1>0, <1>3 DEF SendTick, Alive, Outside
  <2> QED BY <1>0, <1>3, <2>1, <2>2, BootSendInv
<1>4. \/ UNCHANGED <<pont_pending, pas, toDsp, dsp_en, dcch_a_dire>>
      \/ /\ ~ tdma_running /\ fd /\ pas' = pont_pending'
         /\ IF pont_pending THEN UNCHANGED <<pont_pending, toDsp, dsp_en, dcch_a_dire>>
            ELSE SendTick(fn, FALSE)
  BY DEF PollStatus
<1> QED BY <1>1, <1>2, <1>3, <1>4

LEMMA PasEndInv ==
  ASSUME PontInv, PasEnd, UNCHANGED bench
  PROVE  PontInv'
<1>0. /\ Outside /\ pas /\ pont_pending /\ ~ tdma_running /\ fd /\ tick_phase = 0 /\ pas' = FALSE
      /\ UNCHANGED <<tick_phase, phase_a_recue, fn, dsp_en, dcch_a_dire, late, tdma_running, dspv, toDsp>>
  BY DEF PontInv, PasEnd, arm, hist, Outside, PhaseOne
<1>1. Alive' = Alive /\ PhaseOne' = PhaseOne /\ InTime' = InTime /\ ~ PhaseOne
  BY <1>0 DEF Alive, PhaseOne, InTime, dspv
<1>2. fd' \in BOOLEAN /\ (Alive => fd')
  BY <1>0 DEF PasEnd, PeerGone
<1>3. CASE CanRecv
  <2>1. pont_pending' = FALSE /\ CollectDone /\ DspFree
    BY <1>0, <1>3 DEF PasEnd, DspFree
  <2>2. /\ toQemu' \in Seq(Answers)
        /\ Flight => dsp = "idle" /\ Quiet(toDsp) /\ toQemu' = <<>>
    BY <1>0, <2>1, Collected
  <2>3. Outside'
    BY <1>0, <1>1, <1>2, <2>1, <2>2 DEF Outside, dspv
  <2>4. ASSUME InTime' PROVE Nothing'
    BY <1>0, <1>1, <2>1, <2>2, <2>4 DEF PontInv, Nothing, NoAnswer, dspv
  <2> QED BY <2>3, <2>4 DEF PontInv, Flight
<1>4. CASE ~ CanRecv
  <2>1. pont_pending' = pont_pending /\ toQemu' = toQemu
    BY <1>0, <1>4 DEF PasEnd, Outside
  <2>2. Outside'
    BY <1>0, <1>1, <1>2, <2>1 DEF Outside, dspv
  <2>3. Flight => Flight'
    BY <1>0, <1>1, <2>1 DEF Flight, Nothing, Sent, InIsr, AfterIsr, Answered, OnFrame, Lockstep, dspv
  <2> QED BY <1>1, <2>2, <2>3 DEF PontInv
<1> QED BY <1>3, <1>4

\* The firmware starts the TDMA; no frame was counted before.
LEMMA TdmaStartInv ==
  ASSUME PontInv, TdmaStart, UNCHANGED bench
  PROVE  PontInv'
<1>0. /\ Outside /\ fn = 0 /\ fn' = fn /\ tdma_running' = TRUE /\ ~ pas
      /\ UNCHANGED <<fd, pont_pending, phase_a_recue, tick_phase, pas, dsp_en, dcch_a_dire, late,
                     dspv, links>>
  BY DEF PontInv, Outside, TdmaStart, MainLoop, ArmRuns, hist
<1>1. Outside'
  BY <1>0 DEF Outside, Alive, PhaseOne, dspv, links
<1>2. InTime' = InTime /\ (Flight => Flight')
  BY <1>0 DEF InTime, Alive, Flight, Nothing, Sent, InIsr, AfterIsr, Answered, PhaseOne, OnFrame,
        Lockstep, TwoPhaseDsp, dspv, links
<1> QED BY <1>1, <1>2 DEF PontInv

\* A RESET behind what is queued.
LEMMA ReleaseDspResetInv ==
  ASSUME PontInv, ReleaseDspReset, UNCHANGED bench
  PROVE  PontInv'
<1>0. /\ Outside
      /\ UNCHANGED <<fd, pont_pending, phase_a_recue, tick_phase, fn, pas, dsp_en, dcch_a_dire, late,
                     tdma_running, dspv, toQemu>>
  BY DEF PontInv, ReleaseDspReset, qemu, arm, hist
<1>1. CASE toDsp' = toDsp
  BY <1>0, <1>1, Untouched DEF core, links, Outside
<1>2. CASE toDsp' = Append(toDsp, ResetMsg)
  <2>1. ResetMsg \in Messages /\ ResetMsg.type = "RESET" /\ toDsp \in Seq(Messages)
    BY <1>0, MessageTypes DEF Outside
  <2>2. /\ toDsp' \in Seq(Messages)
        /\ Quiet(toDsp) => Quiet(toDsp') /\ (NoGo(toDsp) => NoGo(toDsp'))
    BY <1>2, <2>1, QuietAppend
  <2>3. PhaseOne \in BOOLEAN /\ Lockstep \in BOOLEAN /\ PhaseOne' = PhaseOne /\ Lockstep' = Lockstep
        /\ InTime' = InTime /\ OnFrame' = OnFrame /\ Alive' = Alive
    BY <1>0, BenchTypes DEF PhaseOne, InTime, Alive, Lockstep, OnFrame, dspv
  <2>4. TickIn(toDsp, PhaseOne, Lockstep, fn) => TickIn(toDsp', PhaseOne', Lockstep', fn')
    BY <1>0, <1>2, <2>1, <2>3, TickAppend
  <2>5. Outside'
    BY <1>0, <2>2, <2>3 DEF Outside, dspv
  <2>6. Flight => Flight'
    BY <1>0, <2>2, <2>3, <2>4 DEF Flight, Nothing, Sent, InIsr, AfterIsr, Answered, TwoPhaseDsp, dspv
  <2> QED BY <2>3, <2>5, <2>6 DEF PontInv
<1> QED BY <1>1, <1>2 DEF ReleaseDspReset

LEMMA FinalBehindA ==
  ASSUME NEW q \in Seq(Answers), OnlyA(q), NEW m \in Answers, ~ m.phase_a
  PROVE  AThenF(Append(q, m))
<1>1. Len(q) = 1 /\ q[1].phase_a
  BY DEF OnlyA
<1>2. Len(Append(q, m)) = 2 /\ Append(q, m)[1] = q[1] /\ Append(q, m)[2] = m
  <2>1. 1 \in 1 .. Len(q) /\ Len(q) + 1 = 2
    BY <1>1
  <2>2. Append(q, m)[Len(q) + 1] = m /\ Len(Append(q, m)) = Len(q) + 1
    BY AppendEntries
  <2>3. \A k \in 1 .. Len(q) : Append(q, m)[k] = q[k]
    BY AppendEntries
  <2> QED BY <2>1, <2>2, <2>3, Zenon
<1> QED BY <1>1, <1>2 DEF AThenF

LEMMA ApiFlagsType == ApiFlags \subseteq BOOLEAN
BY DEF ApiFlags

\* The steps of the DSP process.
LEMMA DspStepInv ==
  ASSUME PontInv, DspStep, UNCHANGED bench
  PROVE  PontInv'
<1>0. /\ Outside
      /\ UNCHANGED <<fd, pont_pending, phase_a_recue, tick_phase, fn, pas, dsp_en, dcch_a_dire, late,
                     tdma_running>>
  BY DEF PontInv, DspStep, qemu, arm, hist
<1>1. /\ PhaseOne' = PhaseOne /\ Lockstep' = Lockstep /\ PhaseOne \in BOOLEAN
      /\ Lockstep \in BOOLEAN /\ TwoPhaseDsp \in BOOLEAN
      /\ toDsp \in Seq(Messages) /\ toQemu \in Seq(Answers)
  BY <1>0, BenchTypes DEF PhaseOne, Lockstep, Outside
<1>2. ASSUME toDsp' \in Seq(Messages), toQemu' \in Seq(Answers), dsp_two' \in BOOLEAN,
             Alive' => Alive, Alive' /\ Flight => Flight'
      PROVE  PontInv'
  <2>1. Outside'
    BY <1>0, <1>1, <1>2 DEF Outside
  <2>2. InTime' => InTime
    BY <1>0, <1>2 DEF InTime
  <2> QED BY <1>2, <2>1, <2>2 DEF PontInv, InTime
<1>3. toDsp # <<>> => Tail(toDsp) \in Seq(Messages)
  BY <1>1
<1>4. \A b, c \in BOOLEAN : Append(toQemu, [phase_a |-> b, api |-> c]) \in Seq(Answers)
  BY <1>1 DEF Answers
<1>5. dsp_two \in BOOLEAN
  BY <1>0 DEF Outside
<1>6. CASE DspTick
  <2>1. /\ toDsp # <<>> /\ Head(toDsp).type = "TICK" /\ dsp = "idle" /\ dsp' = "isr"
        /\ dsp_fn' = Head(toDsp).fn /\ dsp_two' = (TwoPhaseDsp /\ Head(toDsp).two)
        /\ toDsp' = Tail(toDsp) /\ toQemu' = toQemu
    BY <1>6 DEF DspTick, Receives
  <2>2. Quiet(toDsp) => FALSE
    BY <1>1, <2>1, TailShift DEF Quiet
  <2>3. Flight => Sent
    BY <2>1, <2>2 DEF Flight, Nothing, InIsr, AfterIsr, Answered
  <2>4. Sent => InIsr'
    <3> SUFFICES ASSUME Sent PROVE InIsr'
      OBVIOUS
    <3>1. /\ Quiet(Tail(toDsp)) /\ NoGo(Tail(toDsp)) /\ Head(toDsp).two = PhaseOne
          /\ Lockstep => Head(toDsp).fn = fn
      BY <1>1, <2>1, TickHead DEF Sent
    <3>2. dsp_two' = (TwoPhaseDsp' /\ PhaseOne')
      BY <1>1, <2>1, <3>1 DEF TwoPhaseDsp
    <3>3. OnFrame'
      BY <1>0, <1>1, <2>1, <3>1 DEF OnFrame
    <3> QED BY <1>0, <1>1, <2>1, <3>1, <3>2, <3>3 DEF Sent, InIsr
  <2>5. dsp_two' \in BOOLEAN
    BY <2>1
  <2> QED BY <1>1, <1>2, <1>3, <2>1, <2>3, <2>4, <2>5 DEF Alive, Flight
<1>7. CASE DspOther
  <2>1. /\ toDsp # <<>> /\ Head(toDsp).type # "TICK" /\ dsp = "idle"
        /\ toDsp' = Tail(toDsp) /\ toQemu' = toQemu
        /\ dsp' = dsp /\ dsp_two' = dsp_two /\ dsp_fn' = dsp_fn
    BY <1>7 DEF DspOther, Receives, dspv
  <2>2. Quiet(toDsp) => Quiet(toDsp')
    BY <1>1, <2>1, QuietTail
  <2>3. TickIn(toDsp, PhaseOne, Lockstep, fn) => TickIn(toDsp', PhaseOne', Lockstep', fn')
    BY <1>0, <1>1, <2>1, TickTail
  <2>4. Flight => Flight'
    BY <1>0, <1>1, <2>1, <2>2, <2>3 DEF Flight, Nothing, Sent, InIsr, AfterIsr, Answered
  <2> QED BY <1>1, <1>2, <1>3, <1>5, <2>1, <2>4 DEF Alive
<1>8. CASE DspIsrDone
  <2>0. /\ dsp = "isr" /\ UNCHANGED <<toDsp, dsp_fn, dsp_two>> /\ OnFrame' = OnFrame
    BY <1>0, <1>1, <1>8 DEF DspIsrDone, OnFrame
  <2>1. Flight => InIsr
    BY <2>0 DEF Flight, Nothing, Sent, AfterIsr, Answered
  <2>2. CASE dsp_two
    <3>1. toQemu' = Append(toQemu, [phase_a |-> TRUE, api |-> FALSE]) /\ dsp' = "wait_go"
      BY <1>8, <2>2 DEF DspIsrDone
    <3>2. InIsr => OnlyA(toQemu')
      BY <3>1 DEF InIsr, NoAnswer, OnlyA
    <3>3. InIsr => AfterIsr'
      BY <1>0, <1>1, <2>0, <2>2, <3>1, <3>2 DEF InIsr, AfterIsr
    <3> QED BY <1>1, <1>2, <1>4, <1>5, <2>0, <2>1, <3>1, <3>3 DEF Alive, Flight
  <2>3. CASE ~ dsp_two
    <3>1. PICK api \in BOOLEAN : toQemu' = Append(toQemu, [phase_a |-> FALSE, api |-> api])
      BY <1>8, <2>3, ApiFlagsType, Zenon DEF DspIsrDone
    <3>2. dsp' = "idle"
      BY <1>8, <2>3 DEF DspIsrDone
    <3>3. InIsr => OnlyF(toQemu')
      BY <3>1 DEF InIsr, NoAnswer, OnlyF
    <3>4. InIsr => Answered'
      BY <1>0, <1>1, <2>0, <3>2, <3>3 DEF InIsr, Answered
    <3> QED BY <1>1, <1>2, <1>4, <1>5, <2>0, <2>1, <3>1, <3>2, <3>4 DEF Alive, Flight
  <2> QED BY <2>2, <2>3
<1>9. CASE DspGo \/ DspIgnore \/ DspGoTimeout
  <2>1. /\ dsp = "wait_go" /\ dsp' \in {"wait_go", "burst"} /\ dsp_two' = dsp_two
        /\ dsp_fn' = dsp_fn /\ toQemu' = toQemu
        /\ toDsp' = toDsp \/ (toDsp # <<>> /\ toDsp' = Tail(toDsp))
    BY <1>9 DEF DspGo, DspIgnore, DspGoTimeout, Receives, dspv, links
  <2>2. Flight => AfterIsr
    BY <2>1 DEF Flight, Nothing, Sent, InIsr, Answered
  <2>3. Quiet(toDsp) => Quiet(toDsp') /\ (NoGo(toDsp) => NoGo(toDsp'))
    BY <1>1, <2>1, QuietTail
  <2>4. OnFrame' = OnFrame
    BY <1>0, <1>1, <2>1 DEF OnFrame
  <2>5. AfterIsr => AfterIsr'
    BY <1>0, <1>1, <2>1, <2>3, <2>4 DEF AfterIsr
  <2>6. toDsp' \in Seq(Messages)
    BY <1>1, <1>3, <2>1
  <2> QED BY <1>1, <1>2, <1>5, <2>1, <2>2, <2>5, <2>6 DEF Alive, Flight
<1>10. CASE DspBurstDone
  <2>1. PICK api \in BOOLEAN : toQemu' = Append(toQemu, [phase_a |-> FALSE, api |-> api])
    BY <1>10, ApiFlagsType, Zenon DEF DspBurstDone
  <2>2. dsp = "burst" /\ dsp' = "idle" /\ UNCHANGED <<toDsp, dsp_fn, dsp_two>>
    BY <1>10 DEF DspBurstDone
  <2>3. Flight => AfterIsr
    BY <2>2 DEF Flight, Nothing, Sent, InIsr, Answered
  <2>4. NoAnswer(toQemu) => OnlyF(toQemu')
    BY <2>1 DEF NoAnswer, OnlyF
  <2>5. OnlyA(toQemu) => AThenF(toQemu')
    <3>1. [phase_a |-> FALSE, api |-> api] \in Answers /\ ~ [phase_a |-> FALSE, api |-> api].phase_a
      BY DEF Answers
    <3> QED BY <1>1, <2>1, <3>1, FinalBehindA
  <2>6. AfterIsr => Answered'
    BY <1>0, <1>1, <2>2, <2>4, <2>5 DEF AfterIsr, Answered
  <2> QED BY <1>1, <1>2, <1>4, <1>5, <2>1, <2>2, <2>3, <2>6 DEF Alive, Flight
<1>11. CASE DspCrash
  BY <1>1, <1>2, <1>5, <1>11 DEF DspCrash, Alive
<1> QED BY <1>6, <1>7, <1>8, <1>9, <1>10, <1>11 DEF DspStep, DspRuns

\* Every step preserves PontInv; the ones not named do not touch the links.
LEMMA PontNextInv == PontInv /\ [Next /\ UNCHANGED bench]_<<vars, bench>> => PontInv'
<1> SUFFICES ASSUME PontInv, [Next /\ UNCHANGED bench]_<<vars, bench>> PROVE PontInv'
  OBVIOUS
<1>0. dsp_en \in BOOLEAN /\ dcch_a_dire \in BOOLEAN
  BY DEF PontInv, Outside
<1>1. CASE UNCHANGED <<vars, bench>>
  BY <1>0, <1>1, Untouched DEF vars, qemu, arm, hist, core
<1>2. ASSUME Next, UNCHANGED bench PROVE PontInv'
  <2>1. CASE FrameIrqLower \/ TakeFrameIrq \/ TakeOtherIrq \/ EndOfService \/ ToggleMask
             \/ ConfigureIrq \/ MachineReset
    <3>1. UNCHANGED core /\ UNCHANGED <<dsp_en, dcch_a_dire>>
      BY <1>2, <2>1 DEF FrameIrqLower, TakeFrameIrq, TakeOtherIrq, EndOfService, ToggleMask,
                   ConfigureIrq, MachineReset, core, qemu, arm, hist
    <3> QED BY <1>0, <3>1, Untouched
  <2>2. CASE EndScenario \/ LearnDcch
    <3>1. UNCHANGED core /\ dsp_en' \in {dsp_en, TRUE} /\ dcch_a_dire' \in {dcch_a_dire, TRUE}
      BY <1>2, <2>2 DEF EndScenario, LearnDcch, core, qemu, arm, hist
    <3> QED BY <1>0, <3>1, Untouched
  <2> QED BY <1>2, <2>1, <2>2, TdmaTickInv, BootTickInv, PollStatusInv, PasEndInv, TdmaStartInv,
             ReleaseDspResetInv, DspStepInv DEF Next, ArmStep
<1> QED BY <1>1, <1>2

\* Where the one frame is, by the place of the invariant it is in.
LEMMA FlightIsOne ==
  ASSUME Outside, Flight
  PROVE  Cardinality(FramesInFlight) = IF pont_pending THEN 1 ELSE 0
<1> DEFINE T == {k \in 1 .. Len(toDsp) : IsTick(toDsp[k])}
           F == {k \in 1 .. Len(toQemu) : IsFinal(toQemu[k])}
<1>0. Quiet(toDsp) => T = {}
  BY DEF Quiet, IsTick
<1>1. NoAnswer(toQemu) \/ OnlyA(toQemu) => F = {}
  BY DEF NoAnswer, OnlyA, IsFinal
<1>2. OnlyF(toQemu) => F = {1}
  BY DEF OnlyF, IsFinal
<1>3. AThenF(toQemu) => F = {2}
  BY DEF AThenF, IsFinal
<1>4. TickIn(toDsp, PhaseOne, Lockstep, fn) => \E i : T = {i}
  BY DEF TickIn, TickAt, IsTick
<1> HIDE DEF T, F
<1>5. FramesInFlight = {<<"toDsp", i>> : i \in T} \cup {<<"toQemu", i>> : i \in F}
                         \cup (IF Playing THEN {<<"dsp", 0>>} ELSE {})
  BY DEF FramesInFlight, T, F
<1>6. CASE Nothing
  <2>1. FramesInFlight = {} /\ ~ pont_pending
    BY <1>0, <1>1, <1>5, <1>6 DEF Nothing, Playing
  <2> QED BY <2>1, FS_EmptySet
<1>7. CASE Sent
  <2>1. PICK i : T = {i}
    BY <1>4, <1>7 DEF Sent
  <2>2. FramesInFlight = {<<"toDsp", i>>} /\ pont_pending
    BY <1>1, <1>5, <1>7, <2>1 DEF Sent, Playing
  <2> QED BY <2>2, FS_Singleton
<1>8. CASE InIsr \/ AfterIsr
  <2>1. FramesInFlight = {<<"dsp", 0>>} /\ pont_pending
    BY <1>0, <1>1, <1>5, <1>8 DEF InIsr, AfterIsr, Playing
  <2> QED BY <2>1, FS_Singleton
<1>9. CASE Answered
  <2>1. PICK i : F = {i}
    BY <1>2, <1>3, <1>9 DEF Answered
  <2>2. FramesInFlight = {<<"toQemu", i>>} /\ pont_pending
    BY <1>0, <1>5, <1>9, <2>1 DEF Answered, Playing
  <2> QED BY <2>2, FS_Singleton
<1> QED BY <1>6, <1>7, <1>8, <1>9 DEF Flight

LEMMA PontInvAlways == Spec => []PontInv
BY PontInitInv, PontNextInv, PTL DEF Spec

\* On every bench, until the DSP first misses the end of the short wait,
\* pont_pending says whether the one frame of the exchange is still out: no TICK
\* leaves before the final DONE of the one before it (pont_echange, tdma_tick).
THEOREM OneFrameAtATime == Spec => []OneFrameUntilLate
<1>1. PontInv => OneFrameUntilLate
  BY FlightIsOne DEF PontInv, OneFrameUntilLate, OneFrameInFlight, InTime
<1> QED BY <1>1, PontInvAlways, PTL

\* In lock-step, for as long, the DSP only ever plays the frame the firmware is
\* on: fn advances with nothing in flight, and a TICK carries the new one.
THEOREM LockstepKeepsFrame == Spec => [](Lockstep /\ late = 0 => SameFrame)
<1>1. PontInv => (Lockstep /\ late = 0 => SameFrame)
  BY DEF PontInv, InTime, Alive, SameFrame, Playing, Flight, Nothing, Sent, InIsr, AfterIsr,
         Answered, OnFrame
<1> QED BY <1>1, PontInvAlways, PTL

\* And it is never told of a dedicated channel while it waits for a GO and would
\* ignore the message (calypso_trx_dcch).
THEOREM DcchReachesDsp == Spec => [](late = 0 => DcchIsHeard)
<1>1. PontInv => (late = 0 => DcchIsHeard)
  <2> SUFFICES ASSUME PontInv, late = 0, dsp = "wait_go", toDsp # <<>>
               PROVE  Head(toDsp).type # "DCCH"
    BY DEF DcchIsHeard, Receives
  <2>1. Quiet(toDsp) /\ toDsp \in Seq(Messages)
    BY DEF PontInv, Outside, InTime, Alive, Flight, Nothing, Sent, InIsr, AfterIsr, Answered
  <2>2. 1 \in 1 .. Len(toDsp) /\ Head(toDsp) = toDsp[1]
    BY <2>1, TailShift
  <2> QED BY <2>1, <2>2 DEF Quiet
<1> QED BY <1>1, PontInvAlways, PTL

-----------------------------------------------------------------------------
(* The ends of service.  A firmware that neither masks the frame interrupt   *)
(* nor is reset in the middle of a frame: nothing is asked of the DSP, of     *)
(* the time l1_sync takes or of the configuration of the bridge.              *)
Steady == {"mask", "reset"} \cap Env = {}
SyncRunning == fw = "l1_sync"

\* At most one end of service is missing, and only in the second half of a
\* two-phase tick; its interrupt is latched or being served.
ServiceInv ==
  /\ ~ irq_masked /\ irq_edge /\ irq_pending \in BOOLEAN
  /\ fw \in {"idle", "l1_sync", "handler"}
  /\ (SyncRunning => irq_served) /\ (fw = "handler" => ~ irq_served)
  /\ eoi_due \in {0, 1}
  /\ eoi_due = 1 => PhaseOne /\ phase_a_recue /\ (irq_pending \/ SyncRunning)

service == <<irqs, eoi_due, fw, tick_phase, phase_a_recue>>

LEMMA ServiceUntouched ==
  ASSUME ServiceInv, UNCHANGED service
  PROVE  ServiceInv'
BY DEF ServiceInv, service, irqs, SyncRunning, PhaseOne

\* With nothing missing, a frame interrupt may be raised or not.
LEMMA NothingMissing ==
  ASSUME ServiceInv, eoi_due' = 0, fw' = fw, UNCHANGED irqs \/ RaiseFrame
  PROVE  ServiceInv'
<1>1. UNCHANGED <<irq_masked, irq_edge, irq_served>> /\ irq_pending' \in BOOLEAN
  BY DEF ServiceInv, irqs, RaiseFrame, Irq!Raise
<1> QED BY <1>1 DEF ServiceInv, SyncRunning

LEMMA FrameServiceInv ==
  ASSUME PontInv, ServiceInv, TdmaTick
  PROVE  ServiceInv'
<1>0. fw' = fw
  BY DEF TdmaTick, LockstepWait, FrameTick, FrameWithoutTick, PhaseOneWait, PhaseOneGo, arm
<1>1. CASE LockstepWait
  BY <1>1, ServiceUntouched DEF LockstepWait, service, arm
<1>2. CASE FrameTick \/ FrameWithoutTick
  <2>1. eoi_due' = eoi_due /\ tick_phase = 0 /\ (UNCHANGED irqs \/ RaiseFrame)
    BY <1>2 DEF FrameTick, FrameWithoutTick
  <2>2. eoi_due' = 0
    BY <2>1 DEF ServiceInv, PhaseOne
  <2> QED BY <1>0, <2>1, <2>2, NothingMissing
<1>3. CASE PhaseOneWait
  <2>1. /\ tick_phase = 1 /\ tick_phase' = 1 /\ eoi_due' = Due /\ PhaseOneReceive /\ ~ Forced
    BY <1>3 DEF PhaseOneWait, Forced
  <2>2. CASE ReceivesPhaseA
    <3>1. eoi_due' = 1
      BY <2>1, <2>2, PontAssumption DEF PontAssumption, ReceivesPhaseA, Due, ServiceInv
    <3>2. RaiseFrame /\ phase_a_recue'
      BY <2>1, <2>2 DEF PhaseOneReceive, PhaseA
    <3> QED BY <1>0, <2>1, <3>1, <3>2 DEF ServiceInv, SyncRunning, PhaseOne, RaiseFrame, Irq!Raise
  <2>3. CASE ~ ReceivesPhaseA
    <3>1. eoi_due' = eoi_due /\ UNCHANGED irqs
      BY <2>1, <2>3 DEF Due, PhaseOneReceive
    <3>2. phase_a_recue' = phase_a_recue
      BY <2>1, <2>3 DEF PhaseOneReceive, PhaseA, PontInv, Outside
    <3> QED BY <1>0, <2>1, <3>1, <3>2, ServiceUntouched DEF service
  <2> QED BY <2>2, <2>3
<1>4. CASE PhaseOneGo
  <2>1. eoi_due' = 0
    BY <1>4 DEF PhaseOneGo, Fini, ServiceInv
  <2>2. UNCHANGED irqs \/ RaiseFrame
    BY <1>4 DEF PhaseOneGo, PhaseOneReceive
  <2> QED BY <1>0, <2>1, <2>2, NothingMissing
<1> QED BY <1>1, <1>2, <1>3, <1>4 DEF TdmaTick

LEMMA FirmwareServiceInv ==
  ASSUME ServiceInv, TakeFrameIrq \/ TakeOtherIrq \/ EndOfService \/ FrameIrqLower
  PROVE  ServiceInv'
<1>0. UNCHANGED <<tick_phase, phase_a_recue>>
  BY DEF TakeFrameIrq, TakeOtherIrq, EndOfService, FrameIrqLower, qemu
<1>1. CASE TakeFrameIrq
  BY <1>0, <1>1 DEF TakeFrameIrq, Irq!TakeFrame, ServiceInv, SyncRunning, PhaseOne
<1>2. CASE TakeOtherIrq
  BY <1>0, <1>2 DEF TakeOtherIrq, Irq!TakeOther, ServiceInv, SyncRunning, PhaseOne
<1>3. CASE EndOfService
  <2>1. UNCHANGED irqs /\ fw' = "idle"
    BY <1>3 DEF EndOfService
  <2>2. eoi_due' \in {0, eoi_due} /\ (irq_served => eoi_due' = 0)
    <3>1. OneLess(eoi_due) = {0}
      BY PontAssumption DEF PontAssumption, OneLess, ServiceInv
    <3> QED BY <1>3, <3>1 DEF EndOfService
  <2> QED BY <1>0, <2>1, <2>2 DEF ServiceInv, irqs, SyncRunning, PhaseOne
<1>4. CASE FrameIrqLower
  <2>1. irq_pending' = irq_pending /\ UNCHANGED <<irq_masked, irq_edge, irq_served>>
    BY <1>4 DEF FrameIrqLower, Irq!Fall, ServiceInv
  <2> QED BY <1>0, <1>4, <2>1, ServiceUntouched DEF FrameIrqLower, service, irqs
<1> QED BY <1>1, <1>2, <1>3, <1>4

LEMMA ServiceNextInv ==
  ASSUME PontInv, Steady, ServiceInv, [Next /\ UNCHANGED bench]_<<vars, bench>>
  PROVE  ServiceInv'
<1>1. CASE UNCHANGED <<vars, bench>>
  BY <1>1, ServiceUntouched DEF vars, qemu, arm, service
<1>2. CASE BootTick \/ EndScenario \/ TdmaStart \/ PollStatus \/ PasEnd \/ ReleaseDspReset
           \/ LearnDcch \/ DspStep
  <2>1. UNCHANGED service
    BY <1>2 DEF BootTick, EndScenario, TdmaStart, PollStatus, PasEnd, ReleaseDspReset, LearnDcch,
                DspStep, qemu, arm, service
  <2> QED BY <2>1, ServiceUntouched
<1>3. ~ ToggleMask /\ ~ MachineReset /\ ~ ConfigureIrq
  BY DEF Steady, ServiceInv, ToggleMask, MachineReset, ConfigureIrq
<1> QED BY <1>1, <1>2, <1>3, FrameServiceInv, FirmwareServiceInv DEF Next, ArmStep

LEMMA ServiceInvAlways == Spec => [](Steady => ServiceInv)
<1>1. Init => ServiceInv
  <2> SUFFICES ASSUME Init PROVE ServiceInv
    OBVIOUS
  <2>1. ~ irq_masked /\ irq_edge /\ irq_pending \in BOOLEAN
    BY Zenon DEF Init
  <2>2. eoi_due = 0 /\ fw = "idle" /\ ~ SyncRunning
    BY DEF Init, SyncRunning
  <2>3. /\ eoi_due \in {0, 1} /\ eoi_due # 1
        /\ fw \in {"idle", "l1_sync", "handler"} /\ fw # "handler"
    BY <2>2
  <2> QED BY <2>1, <2>2, <2>3, Zenon DEF ServiceInv
<1>2. PontInv /\ (Steady => ServiceInv) /\ [Next /\ UNCHANGED bench]_<<vars, bench>>
        => (Steady => ServiceInv)'
  <2> SUFFICES ASSUME PontInv, Steady => ServiceInv, Steady',
                      [Next /\ UNCHANGED bench]_<<vars, bench>>
               PROVE  ServiceInv'
    OBVIOUS
  <2>1. Steady
    BY DEF Steady, Env
  <2> QED BY <2>1, ServiceNextInv
<1> QED BY <1>1, <1>2, PontInvAlways, PTL DEF Spec

\* Every end of service the bridge waits for belongs to a frame interrupt that is
\* latched or being served, on every bench whose firmware leaves the frame
\* interrupt unmasked and is not reset: a forced GO, a late or a dead DSP and an
\* l1_sync of any length included (eoi_cible, tdma_tick).
THEOREM TargetIsReachable == Spec => [](Steady => EoiTargetReachable)
<1>1. (Steady => ServiceInv) => (Steady => EoiTargetReachable)
  BY DEF ServiceInv, SyncRunning, EoiTargetReachable
<1> QED BY <1>1, ServiceInvAlways, PTL

-----------------------------------------------------------------------------
(* The frame interrupt of a two-phase tick, on a bench where both peers keep *)
(* their times.                                                              *)

\* Lock-step with the ARM first; a DSP that plays its ISR within the short wait
\* and waits for its GO past it, and past the time the ARM takes for l1_sync;
\* an ARM that ends l1_sync within the long wait, which is the longer of the two.
Prompt ==
  /\ Lockstep /\ ArmFirst /\ Steady /\ MaxLate = 0
  /\ 1 < LongFactor /\ AttentesMax < GoPatience
  /\ ArmDeadline <= GoPatience /\ ArmDeadline <= AttentesMax * LongFactor

\* l1_sync of the frame: not raised, or over; latched; served.
Unraised(s) == sync = s /\ ~ irq_pending /\ ~ SyncRunning /\ eoi_due = 0
Latched == sync = "raised" /\ irq_pending /\ ~ SyncRunning /\ eoi_due = 1
Serving == sync = "running" /\ ~ irq_pending /\ SyncRunning /\ eoi_due = 1

Awaited ==
  /\ ~ PhaseOne => Unraised("done")
  /\ PhaseOne /\ ~ phase_a_recue => Unraised("none") /\ eoi_attentes < AttentesMax
  /\ PhaseOne /\ phase_a_recue =>
       eoi_attentes < GoPatience /\ (Latched \/ Serving \/ Unraised("done"))

\* Before its GO the DSP does not play the burst, and a two-phase one does not
\* give the final answer.
NoEarlyBurst ==
  PhaseOne => dsp # "burst" /\ (TwoPhaseDsp /\ dsp = "idle" => pont_pending /\ toQemu = <<>>)

PromptInv == late = 0 /\ eoi_attentes \in Nat /\ (Alive => Awaited /\ NoEarlyBurst)

LEMMA AwaitedUntouched ==
  ASSUME UNCHANGED <<service, sync, eoi_attentes, bench>>
  PROVE  Awaited => Awaited'
BY DEF service, irqs, Awaited, PhaseOne, Unraised, Latched, Serving, SyncRunning, GoPatience

LEMMA WaitTypes ==
  ASSUME PontInv, Prompt
  PROVE  /\ GoPatience \in Nat /\ ArmDeadline \in Nat /\ AttentesMax \in Nat \ {0}
         /\ AttentesMax * LongFactor \in Nat /\ AttentesMax < AttentesMax * LongFactor
         /\ AttentesMax < GoPatience /\ ArmDeadline <= GoPatience
         /\ ArmDeadline <= AttentesMax * LongFactor /\ ArmFirstOn /\ Lockstep
<1>1. GoPatience \in Nat /\ ArmDeadline \in Nat
  BY DEF PontInv, Outside, Bench, GoPatience, ArmDeadline
<1>2. AttentesMax \in Nat \ {0} /\ LongFactor \in Nat
  BY PontAssumption DEF PontAssumption
<1>3. AttentesMax * LongFactor \in Nat /\ AttentesMax < AttentesMax * LongFactor
  <2>1. \A a \in Nat \ {0}, l \in Nat : 1 < l => a * l \in Nat /\ a < a * l
    OBVIOUS
  <2> QED BY <1>2, <2>1 DEF Prompt
<1> QED BY <1>1, <1>2, <1>3 DEF Prompt, ArmFirstOn

\* No wait of phase one runs out, and it ends with l1_sync over.
LEMMA NoWaitRunsOut ==
  ASSUME PontInv, ServiceInv, Prompt, PromptInv, Alive, tick_phase = 1, OnTime
  PROVE  /\ ~ Forced /\ ~ LockWait
         /\ Fini => phase_a_recue /\ ~ ReceivesPhaseA /\ Unraised("done")
         /\ ~ Fini /\ PhaseA => eoi_attentes + 1 < GoPatience
         /\ ~ PhaseA => eoi_attentes + 1 < AttentesMax
<1> DEFINE long == AttentesMax * LongFactor
<1>0. /\ GoPatience \in Nat /\ ArmDeadline \in Nat /\ AttentesMax \in Nat \ {0}
      /\ long \in Nat /\ AttentesMax < long
      /\ AttentesMax < GoPatience /\ ArmDeadline <= GoPatience /\ ArmDeadline <= long
      /\ eoi_attentes \in Nat /\ fd
  BY WaitTypes DEF PromptInv, PontInv, Outside
<1>1. ~ Fini /\ PhaseA /\ eoi_attentes + 1 >= AttentesMax /\ eoi_attentes + 1 < long => LongWait
  BY DEF LongWait
<1> HIDE DEF long
<1>2. CASE ~ PhaseA
  <2>1. eoi_attentes + 1 < AttentesMax
    BY <1>0, <1>2 DEF OnTime, PromptInv, Prompt
  <2> QED BY <1>0, <1>2, <2>1 DEF Forced, LockWait, ShortWait, LongWait, Fini
<1>3. CASE ReceivesPhaseA
  <2>1. ~ phase_a_recue /\ eoi_attentes < AttentesMax /\ eoi_due = 0
    BY <1>3 DEF ReceivesPhaseA, PromptInv, Awaited, PhaseOne, Unraised
  <2>2. ~ Fini
    BY <1>3, <2>1, PontAssumption DEF PontAssumption, Fini, Due, ServiceInv
  <2>3. PhaseA
    BY <1>3 DEF PhaseA
  <2>4. eoi_attentes + 1 < GoPatience /\ (LongWait \/ ShortWait)
    BY <1>0, <1>1, <2>1, <2>2, <2>3 DEF ShortWait
  <2> QED BY <2>2, <2>3, <2>4 DEF Forced, LockWait
<1>4. CASE phase_a_recue
  <2>1. PhaseA /\ ~ ReceivesPhaseA /\ Due = eoi_due
    BY <1>4 DEF PhaseA, ReceivesPhaseA, Due
  <2>2. CASE Fini
    <3>1. eoi_due = 0
      BY <2>1, <2>2 DEF Fini, ServiceInv
    <3>2. Unraised("done")
      BY <1>4, <3>1 DEF PromptInv, Awaited, PhaseOne, Latched, Serving
    <3> QED BY <1>4, <2>1, <2>2, <3>2 DEF Forced, LockWait
  <2>3. CASE ~ Fini
    <3>1. eoi_attentes + 1 < ArmDeadline
      BY <1>4, <2>3 DEF OnTime
    <3>2. eoi_attentes + 1 < GoPatience /\ (LongWait \/ ShortWait)
      BY <1>0, <1>1, <2>1, <2>3, <3>1 DEF ShortWait
    <3> QED BY <2>1, <2>3, <3>2 DEF Forced, LockWait
  <2> QED BY <2>2, <2>3
<1> QED BY <1>2, <1>3, <1>4 DEF PhaseA

LEMMA PromptTickInv ==
  ASSUME PontInv, ServiceInv, Prompt, PromptInv, TdmaTick, UNCHANGED bench
  PROVE  PromptInv'
<1>0. /\ Outside /\ tdma_running /\ ~ pas /\ OnTime /\ ServiceInv' /\ fw' = fw
      /\ dsp' = dsp /\ Alive' = Alive /\ TwoPhaseDsp' = TwoPhaseDsp
  BY FrameServiceInv DEF PontInv, TdmaTick, LockstepWait, FrameTick, FrameWithoutTick, PhaseOneWait,
     PhaseOneGo, arm, dspv, Alive, TwoPhaseDsp
<1>1. CASE LockstepWait
  <2>1. /\ UNCHANGED <<service, sync, eoi_attentes, late, tick_phase, pont_pending, toQemu>>
    BY <1>1 DEF LockstepWait, service, arm, links, hist
  <2> QED BY <1>0, <2>1, AwaitedUntouched DEF PromptInv, NoEarlyBurst, PhaseOne
<1>2. CASE FrameTick
  <2>1. late' = late /\ eoi_attentes' \in {0, eoi_attentes} /\ tick_phase = 0
    BY <1>2 DEF FrameTick, FreshFrame
  <2>2. ASSUME Alive PROVE Awaited' /\ NoEarlyBurst'
    <3>1. ArmFirstOn /\ AttentesMax \in Nat \ {0}
      BY WaitTypes
    <3>2. /\ tick_phase' = 1 /\ eoi_attentes' = 0 /\ ~ phase_a_recue' /\ sync' = "none"
          /\ UNCHANGED irqs /\ eoi_due' = eoi_due /\ pont_pending'
      BY <1>2, <2>2, <3>1 DEF FrameTick, FreshFrame, SendTick
    <3>3. Unraised("done")
      BY <2>1, <2>2 DEF PromptInv, Awaited, PhaseOne
    <3>4. Awaited'
      BY <1>0, <3>1, <3>2, <3>3 DEF Awaited, PhaseOne, Unraised, SyncRunning, irqs
    <3>5. dsp = "idle" /\ toQemu' = <<>>
      BY <1>0, <1>2, <2>1, <2>2, Collected DEF PontInv, PromptInv, InTime, FrameTick
    <3> QED BY <1>0, <3>2, <3>4, <3>5 DEF NoEarlyBurst
  <2> QED BY <1>0, <2>1, <2>2 DEF PromptInv
<1>3. CASE FrameWithoutTick
  <2>1. UNCHANGED <<late, eoi_attentes>>
    BY <1>3 DEF FrameWithoutTick, FreshFrame
  <2>2. ~ Alive
    BY <1>0, <1>3, WaitTypes DEF FrameWithoutTick, NoTickNow, Outside
  <2> QED BY <1>0, <2>1, <2>2 DEF PromptInv
<1>4. CASE PhaseOneWait
  <2>1. /\ tick_phase = 1 /\ tick_phase' = 1 /\ PhaseOneReceive /\ late' = late
        /\ eoi_attentes' = Counted /\ eoi_due' = Due /\ ~ Fini /\ ~ Forced
    BY <1>4 DEF PhaseOneWait, Forced, LongWait, ShortWait, LockWait
  <2>2. eoi_attentes' \in Nat
    BY <2>1 DEF Counted, PromptInv
  <2>3. ASSUME Alive PROVE Awaited'
    <3>1. eoi_attentes' = eoi_attentes + 1 /\ (PhaseA => eoi_attentes' < GoPatience)
          /\ (~ PhaseA => eoi_attentes' < AttentesMax) /\ GoPatience' = GoPatience
      BY <1>0, <2>1, <2>3, NoWaitRunsOut DEF Counted, GoPatience
    <3>2. CASE ReceivesPhaseA
      <4>1. irq_pending' /\ sync' = "raised" /\ phase_a_recue'
        BY <2>1, <3>2 DEF PhaseOneReceive, PhaseA, RaiseFrame, Irq!Raise
      <4>2. Unraised("none")
        BY <2>1, <2>3, <3>2 DEF ReceivesPhaseA, PromptInv, Awaited, PhaseOne
      <4>3. eoi_due' = 1
        BY <2>1, <3>2, <4>2, PontAssumption DEF PontAssumption, Due, Unraised
      <4>4. Latched'
        BY <1>0, <4>1, <4>2, <4>3 DEF Latched, Unraised, SyncRunning
      <4> QED BY <2>1, <3>1, <3>2, <4>1, <4>4 DEF Awaited, PhaseOne, PhaseA
    <3>3. CASE ~ ReceivesPhaseA
      <4>1. UNCHANGED <<irqs, sync>> /\ eoi_due' = eoi_due /\ phase_a_recue' = phase_a_recue
        BY <1>0, <2>1, <3>3 DEF PhaseOneReceive, Due, PhaseA, Outside
      <4> QED BY <1>0, <2>1, <2>3, <3>1, <3>3, <4>1
              DEF PromptInv, Awaited, PhaseOne, PhaseA, Unraised, Latched, Serving, SyncRunning, irqs
    <3> QED BY <3>2, <3>3
  <2>4. ASSUME Alive PROVE NoEarlyBurst'
    <3>1. NoEarlyBurst
      BY <2>4 DEF PromptInv
    <3>2. toQemu = <<>> => toQemu' = toQemu /\ pont_pending' = pont_pending
      BY <1>0, <2>1 DEF PhaseOneReceive, ReceivesPhaseA, CanRecv, FinalDone, Outside
    <3> QED BY <1>0, <2>1, <3>1, <3>2 DEF NoEarlyBurst, PhaseOne
  <2> QED BY <1>0, <2>1, <2>2, <2>3, <2>4 DEF PromptInv
<1>5. CASE PhaseOneGo
  <2>1. /\ tick_phase = 1 /\ tick_phase' = 0 /\ PhaseOneReceive
        /\ eoi_attentes' \in {eoi_attentes, eoi_attentes + 1} /\ (Fini \/ Forced)
        /\ eoi_due' = IF Fini THEN Due ELSE 0
    BY <1>5 DEF PhaseOneGo
  <2>2. eoi_attentes' \in Nat
    BY <2>1 DEF PromptInv
  <2>3. ASSUME Alive PROVE Awaited' /\ NoEarlyBurst' /\ ~ Forced
    <3>1. ~ Forced /\ Fini /\ phase_a_recue /\ ~ ReceivesPhaseA /\ Unraised("done")
      BY <1>0, <2>1, <2>3, NoWaitRunsOut
    <3>2. UNCHANGED <<irqs, sync>> /\ eoi_due' = eoi_due
      BY <2>1, <3>1 DEF PhaseOneReceive, Due
    <3>3. Unraised("done")'
      BY <1>0, <3>1, <3>2 DEF Unraised, SyncRunning, irqs
    <3> QED BY <2>1, <3>1, <3>3 DEF Awaited, NoEarlyBurst, PhaseOne
  <2>4. late' = late
    BY <1>5, <2>3 DEF PhaseOneGo
  <2> QED BY <1>0, <2>2, <2>3, <2>4 DEF PromptInv
<1> QED BY <1>1, <1>2, <1>3, <1>4, <1>5 DEF TdmaTick

LEMMA PromptFirmwareInv ==
  ASSUME ServiceInv, PromptInv, UNCHANGED bench,
         TakeFrameIrq \/ TakeOtherIrq \/ EndOfService \/ FrameIrqLower
  PROVE  PromptInv'
<1>0. /\ UNCHANGED <<tick_phase, phase_a_recue, eoi_attentes, late, pont_pending, dsp, toQemu>>
      /\ GoPatience' = GoPatience
  BY DEF TakeFrameIrq, TakeOtherIrq, EndOfService, FrameIrqLower, qemu, dspv, links, hist, GoPatience
<1>a. Alive' = Alive /\ (NoEarlyBurst => NoEarlyBurst')
  BY <1>0 DEF Alive, NoEarlyBurst, PhaseOne, TwoPhaseDsp
<1> SUFFICES ASSUME Awaited PROVE Awaited'
  BY <1>0, <1>a DEF PromptInv
<1>1. CASE TakeFrameIrq
  <2>1. irq_pending /\ fw' = "l1_sync" /\ ~ irq_pending' /\ eoi_due' = eoi_due
    BY <1>1 DEF TakeFrameIrq, Irq!TakeFrame
  <2>2. PhaseOne /\ phase_a_recue /\ Latched
    BY <2>1 DEF Awaited, Unraised, Serving
  <2>3. Serving'
    BY <1>1, <2>1, <2>2 DEF Latched, Serving, SyncRunning, TakeFrameIrq
  <2> QED BY <1>0, <2>2, <2>3 DEF Awaited, PhaseOne
<1>2. CASE TakeOtherIrq
  <2>1. ~ SyncRunning /\ ~ SyncRunning' /\ UNCHANGED <<irq_pending, eoi_due, sync>>
    BY <1>2 DEF TakeOtherIrq, Irq!TakeOther, SyncRunning, hist
  <2> QED BY <1>0, <2>1 DEF Awaited, PhaseOne, Unraised, Latched, Serving
<1>3. CASE EndOfService
  <2>0. fw' = "idle" /\ ~ SyncRunning' /\ irq_pending' = irq_pending
    BY <1>3 DEF EndOfService, irqs, SyncRunning
  <2>1. CASE SyncRunning
    <3>1. PhaseOne /\ phase_a_recue /\ Serving
      BY <2>1 DEF Awaited, Unraised, Latched
    <3>2. OneLess(eoi_due) = {0}
      BY PontAssumption DEF PontAssumption, OneLess, ServiceInv
    <3>3. eoi_due' = 0 /\ sync' = "done"
      BY <1>3, <2>1, <3>1, <3>2 DEF EndOfService, ServiceInv, Serving, SyncRunning
    <3> QED BY <1>0, <2>0, <3>1, <3>3 DEF Awaited, PhaseOne, Serving, Unraised
  <2>2. CASE ~ SyncRunning
    <3>1. ~ irq_served
      BY <1>3, <2>2 DEF EndOfService, ServiceInv, SyncRunning
    <3>2. UNCHANGED <<eoi_due, sync>>
      BY <1>3, <2>2, <3>1 DEF EndOfService, SyncRunning
    <3> QED BY <1>0, <2>0, <2>2, <3>2 DEF Awaited, PhaseOne, Unraised, Latched, Serving
  <2> QED BY <2>1, <2>2
<1>4. CASE FrameIrqLower
  <2>1. irq_pending' = irq_pending /\ UNCHANGED <<irq_masked, irq_edge, irq_served, eoi_due, fw, sync>>
    BY <1>4 DEF FrameIrqLower, Irq!Fall, ServiceInv, hist
  <2> QED BY <1>0, <2>1, AwaitedUntouched DEF service, irqs
<1> QED BY <1>1, <1>2, <1>3, <1>4

LEMMA PromptDspInv ==
  ASSUME PontInv, Prompt, PromptInv, DspStep, UNCHANGED bench
  PROVE  PromptInv'
<1>0. /\ UNCHANGED <<service, sync, eoi_attentes, late, tick_phase, pont_pending>>
      /\ TwoPhaseDsp' = TwoPhaseDsp /\ PhaseOne' = PhaseOne
  BY DEF DspStep, qemu, arm, hist, service, TwoPhaseDsp, PhaseOne
<1> SUFFICES ASSUME Alive', Alive => Awaited /\ NoEarlyBurst PROVE Alive /\ NoEarlyBurst'
  BY <1>0, AwaitedUntouched DEF PromptInv
<1>1. Alive
  BY DEF DspStep, DspRuns, DspCrash, DspTick, DspOther, DspIsrDone, DspGo, DspIgnore, DspGoTimeout,
         DspBurstDone, Alive
<1> SUFFICES ASSUME PhaseOne
             PROVE  dsp' # "burst" /\ (TwoPhaseDsp /\ dsp' = "idle" => pont_pending /\ toQemu' = <<>>)
  BY <1>0, <1>1 DEF NoEarlyBurst
<1>2. Outside /\ Flight /\ dsp # "burst" /\ toDsp \in Seq(Messages)
      /\ (TwoPhaseDsp /\ dsp = "idle" => pont_pending /\ toQemu = <<>>)
  BY <1>1 DEF PontInv, Outside, PromptInv, InTime, NoEarlyBurst
<1>3. CASE DspTick \/ DspOther \/ DspIgnore
  BY <1>2, <1>3 DEF DspTick, DspOther, DspIgnore, dspv
<1>4. CASE DspIsrDone
  <2>1. TwoPhaseDsp => dsp_two
    BY <1>2, <1>4 DEF DspIsrDone, Flight, Nothing, Sent, InIsr, AfterIsr, Answered
  <2>2. dsp' = IF dsp_two THEN "wait_go" ELSE "idle"
    BY <1>4 DEF DspIsrDone
  <2> QED BY <2>1, <2>2
<1>5. ~ DspGo
  <2> SUFFICES ASSUME DspGo PROVE FALSE
    OBVIOUS
  <2>1. NoGo(toDsp)
    BY <1>2 DEF DspGo, Flight, Nothing, Sent, InIsr, AfterIsr, Answered
  <2>2. toDsp # <<>> /\ Head(toDsp).type = "GO"
    BY DEF DspGo, Receives
  <2>3. 1 \in 1 .. Len(toDsp) /\ Head(toDsp) = toDsp[1]
    BY <1>2, <2>2, TailShift
  <2> QED BY <2>1, <2>2, <2>3 DEF NoGo
<1>6. ~ DspGoTimeout
  <2>1. GoPatience \in Nat /\ AttentesMax \in Nat /\ AttentesMax < GoPatience
        /\ eoi_attentes \in Nat
    BY WaitTypes DEF PromptInv
  <2>2. eoi_attentes < AttentesMax \/ eoi_attentes < GoPatience
    BY <1>1 DEF Awaited
  <2> QED BY <2>1, <2>2 DEF DspGoTimeout, PhaseOne
<1>7. ~ DspBurstDone /\ ~ DspCrash
  BY <1>2 DEF DspBurstDone, DspCrash, Alive
<1> QED BY <1>3, <1>4, <1>5, <1>6, <1>7 DEF DspStep, DspRuns

LEMMA PromptOtherInv ==
  ASSUME PontInv, PromptInv, UNCHANGED bench,
         BootTick \/ EndScenario \/ TdmaStart \/ PollStatus \/ PasEnd \/ ReleaseDspReset \/ LearnDcch
  PROVE  PromptInv'
<1>1. UNCHANGED <<service, sync, eoi_attentes, late, tick_phase, dsp>>
  BY DEF BootTick, EndScenario, TdmaStart, PollStatus, PasEnd, ReleaseDspReset, LearnDcch, qemu, arm,
         hist, dspv, service
<1>2. PhaseOne => tdma_running /\ ~ pas
  BY DEF PontInv, Outside
<1>3. PhaseOne => UNCHANGED <<pont_pending, toQemu>>
  BY <1>2 DEF BootTick, EndScenario, TdmaStart, PollStatus, PasEnd, ReleaseDspReset, LearnDcch, qemu,
              links
<1>4. Alive' = Alive /\ PhaseOne' = PhaseOne /\ TwoPhaseDsp' = TwoPhaseDsp
  BY <1>1 DEF Alive, PhaseOne, TwoPhaseDsp
<1> QED BY <1>1, <1>3, <1>4, AwaitedUntouched DEF PromptInv, NoEarlyBurst

LEMMA PromptNextInv ==
  ASSUME PontInv, ServiceInv, Prompt, PromptInv, [Next /\ UNCHANGED bench]_<<vars, bench>>
  PROVE  PromptInv'
<1>1. CASE UNCHANGED <<vars, bench>>
  <2>1. UNCHANGED <<service, sync, eoi_attentes, late, tick_phase, pont_pending, dsp, toQemu>>
    BY <1>1 DEF vars, qemu, arm, dspv, links, hist, service
  <2> QED BY <1>1, <2>1, AwaitedUntouched
          DEF PromptInv, NoEarlyBurst, PhaseOne, TwoPhaseDsp, Alive
<1>2. ~ ToggleMask /\ ~ MachineReset /\ ~ ConfigureIrq
  BY DEF Prompt, Steady, ServiceInv, ToggleMask, MachineReset, ConfigureIrq
<1> QED BY <1>1, <1>2, PromptTickInv, PromptFirmwareInv, PromptDspInv, PromptOtherInv DEF Next, ArmStep

LEMMA PromptInvAlways == Spec => [](Prompt => PromptInv)
<1>1. Init => PromptInv
  <2> SUFFICES ASSUME Init PROVE PromptInv
    OBVIOUS
  <2>1. late = 0 /\ eoi_attentes = 0 /\ sync = "done" /\ eoi_due = 0 /\ ~ SyncRunning
        /\ tick_phase = 0 /\ ~ PhaseOne
    BY DEF Init, SyncRunning, PhaseOne
  <2>2. ~ irq_pending
    BY Zenon DEF Init
  <2> QED BY <2>1, <2>2 DEF PromptInv, Awaited, NoEarlyBurst, Unraised
<1>2. PontInv /\ (Steady => ServiceInv) /\ (Prompt => PromptInv)
        /\ [Next /\ UNCHANGED bench]_<<vars, bench>> => (Prompt => PromptInv)'
  <2> SUFFICES ASSUME PontInv, Steady => ServiceInv, Prompt => PromptInv, Prompt',
                      [Next /\ UNCHANGED bench]_<<vars, bench>>
               PROVE  PromptInv'
    OBVIOUS
  <2>1. Prompt /\ Steady
    BY DEF Prompt, Steady, Env, Lockstep, ArmFirst, MaxLate, GoPatience, ArmDeadline
  <2> QED BY <2>1, PromptNextInv
<1> QED BY <1>1, <1>2, PontInvAlways, ServiceInvAlways, PTL DEF Spec

\* On a prompt bench the DSP does not write its R page while the firmware reads
\* it, whichever of the two answers first, with a one- or two-phase DSP and up to
\* its death (tdma_tick, phase one).
THEOREM PagesStayApart == Spec => [](Prompt => PagesExclusive)
<1>1. PontInv /\ (Prompt => PromptInv) => (Prompt => PagesExclusive)
  <2> SUFFICES ASSUME PontInv, Prompt, PromptInv, fw = "l1_sync", dsp = "isr" PROVE FALSE
    BY DEF PagesExclusive
  <2>1. Flight /\ Awaited
    BY DEF PontInv, PromptInv, InTime, Alive
  <2>2. PhaseOne /\ phase_a_recue
    BY <2>1 DEF Awaited, Unraised, SyncRunning
  <2> QED BY <2>1, <2>2 DEF Flight, Nothing, Sent, InIsr, AfterIsr, Answered
<1> QED BY <1>1, PontInvAlways, PromptInvAlways, PTL

\* And it receives the burst of a frame only after l1_sync of that frame has
\* ended: the GO is never sent earlier and the DSP never stops waiting for it
\* ("a lagging l1_sync(N-1) cannot pass for l1_sync(N)", tdma_tick).
THEOREM BurstComesAfterSync == Spec => [](Prompt => BurstAfterSync)
<1>1. (Prompt => PromptInv) => (Prompt => BurstAfterSync)
  BY DEF PromptInv, Alive, Awaited, NoEarlyBurst, Unraised, BurstAfterSync
<1> QED BY <1>1, PromptInvAlways, PTL

-----------------------------------------------------------------------------
(* The order of the silicon, step by step.                                  *)
InOrder == PontInv /\ ServiceInv /\ Prompt /\ PromptInv /\ Alive

\* What does not move the frame, the DSP or the end of l1_sync is a stutter.
LEMMA OrderStutters ==
  ASSUME UNCHANGED <<bench, fn, dsp>>, sync' = "done" <=> sync = "done"
  PROVE  UNCHANGED <<fn, Step, TwoPhaseDsp>>
BY DEF Step, TwoPhaseDsp

\* l1_sync of a two-phase frame runs and ends while the DSP waits for its GO.
LEMMA DspWaitsForSync ==
  ASSUME InOrder, TwoPhaseDsp, PhaseOne, phase_a_recue
  PROVE  dsp = "wait_go"
<1>1. Flight /\ NoEarlyBurst
  BY DEF InOrder, PontInv, PromptInv, InTime
<1>2. dsp # "burst" /\ (dsp = "idle" => pont_pending /\ toQemu = <<>>)
  BY <1>1 DEF NoEarlyBurst
<1>3. ~ Nothing /\ ~ Sent /\ ~ InIsr
  BY <1>2 DEF Nothing, Sent, InIsr
<1>4. ~ Answered
  BY <1>2 DEF Answered, OnlyF, AThenF
<1> QED BY <1>1, <1>2, <1>3, <1>4 DEF Flight, AfterIsr

\* The steps of tdma_tick(): a new frame, or a stutter.
LEMMA TickKeepsOrder ==
  ASSUME InOrder, TdmaTick, UNCHANGED bench
  PROVE  \/ UNCHANGED <<fn, Step, TwoPhaseDsp>>
         \/ Step = "over" /\ Step' = "isr" /\ fn' = (fn + 1) % Hyperframe
<1>0. OnTime /\ dsp' = dsp /\ Outside /\ Flight /\ Awaited /\ Lockstep /\ ArmFirstOn /\ fd
  BY WaitTypes DEF InOrder, PontInv, Outside, PromptInv, InTime, TdmaTick, LockstepWait, FrameTick,
     FrameWithoutTick, PhaseOneWait, PhaseOneGo, dspv
<1>1. CASE LockstepWait
  BY <1>0, <1>1, OrderStutters DEF LockstepWait, hist
<1>2. CASE FrameTick
  <2>1. /\ fn' = (fn + 1) % Hyperframe /\ sync' = "none" /\ tick_phase = 0
    BY <1>0, <1>2 DEF InOrder, FrameTick, NextFn, FreshFrame
  <2>2. dsp = "idle"
    BY <1>0, <1>2, Collected DEF FrameTick
  <2>3. sync = "done"
    BY <1>0, <2>1 DEF Awaited, PhaseOne, Unraised
  <2> QED BY <1>0, <2>1, <2>2, <2>3 DEF Step
<1>3. ~ FrameWithoutTick
  BY <1>0 DEF FrameWithoutTick, NoTickNow
<1>4. CASE PhaseOneWait
  <2>1. /\ tick_phase = 1 /\ fn' = fn /\ PhaseOneReceive /\ ~ Forced
    BY <1>4 DEF PhaseOneWait, Forced
  <2>2. ReceivesPhaseA => sync = "none"
    BY <1>0, <2>1 DEF ReceivesPhaseA, Awaited, PhaseOne, Unraised
  <2>3. sync' = "done" <=> sync = "done"
    BY <2>1, <2>2 DEF PhaseOneReceive
  <2> QED BY <1>0, <2>1, <2>3, OrderStutters
<1>5. CASE PhaseOneGo
  <2>1. tick_phase = 1 /\ fn' = fn /\ PhaseOneReceive /\ (Fini \/ Forced)
    BY <1>5 DEF PhaseOneGo
  <2>2. ~ Forced /\ ~ ReceivesPhaseA
    BY <1>0, <2>1, NoWaitRunsOut DEF InOrder
  <2>3. sync' = sync
    BY <2>1, <2>2 DEF PhaseOneReceive
  <2> QED BY <1>0, <2>1, <2>3, OrderStutters
<1> QED BY <1>1, <1>2, <1>3, <1>4, <1>5 DEF TdmaTick

\* The steps of a two-phase DSP: the ISR, the burst, or a stutter.
LEMMA DspKeepsOrder ==
  ASSUME InOrder, InOrder', TwoPhaseDsp, DspStep, UNCHANGED bench
  PROVE  /\ fn' = fn
         /\ \/ Step' = Step
            \/ Step = "isr" /\ Step' = "l1_sync"
            \/ Step = "burst" /\ Step' = "over"
<1>0. /\ Flight /\ Awaited /\ UNCHANGED <<fn, sync, tick_phase>>
      /\ (PhaseOne => dsp # "burst" /\ dsp' # "burst")
  BY DEF InOrder, PontInv, PromptInv, InTime, NoEarlyBurst, PhaseOne, DspStep, qemu, hist
<1>1. CASE DspTick
  BY <1>0, <1>1 DEF DspTick, Step
<1>2. CASE DspOther \/ DspIgnore
  BY <1>0, <1>2 DEF DspOther, DspIgnore, dspv, Step
<1>3. CASE DspIsrDone
  <2>1. InIsr
    BY <1>0, <1>3 DEF DspIsrDone, Flight, Nothing, Sent, AfterIsr, Answered
  <2>2. CASE PhaseOne
    <3>1. dsp_two /\ sync = "none"
      BY <1>0, <2>1, <2>2 DEF InIsr, Awaited, Unraised
    <3> QED BY <1>0, <1>3, <3>1 DEF DspIsrDone, Step
  <2>3. CASE ~ PhaseOne
    <3>1. ~ dsp_two /\ sync = "done"
      BY <1>0, <2>1, <2>3 DEF InIsr, Awaited, Unraised
    <3>2. dsp' = "idle"
      BY <1>3, <3>1 DEF DspIsrDone
    <3> QED BY <1>0, <1>3, <3>1, <3>2 DEF DspIsrDone, Step
  <2> QED BY <2>2, <2>3
<1>4. CASE DspGo \/ DspGoTimeout
  <2>1. dsp = "wait_go" /\ dsp' = "burst"
    BY <1>4 DEF DspGo, DspGoTimeout
  <2>2. sync = "done"
    BY <1>0, <2>1 DEF Awaited, Unraised
  <2> QED BY <1>0, <2>1, <2>2 DEF Step
<1>5. CASE DspBurstDone
  <2>1. dsp = "burst" /\ dsp' = "idle"
    BY <1>5 DEF DspBurstDone
  <2>2. sync = "done"
    BY <1>0, <2>1 DEF Awaited, Unraised
  <2> QED BY <1>0, <2>1, <2>2 DEF Step
<1>6. ~ DspCrash
  BY DEF InOrder, DspCrash, Alive
<1> QED BY <1>1, <1>2, <1>3, <1>4, <1>5, <1>6 DEF DspStep, DspRuns

\* The firmware: the end of l1_sync, or a stutter.
LEMMA FirmwareKeepsOrder ==
  ASSUME InOrder, TakeFrameIrq \/ EndOfService, UNCHANGED bench
  PROVE  \/ UNCHANGED <<fn, Step, TwoPhaseDsp>>
         \/ TwoPhaseDsp => Step = "l1_sync" /\ Step' = "burst" /\ fn' = fn
<1>0. UNCHANGED <<fn, dsp>> /\ Awaited
  BY DEF InOrder, PromptInv, TakeFrameIrq, EndOfService, qemu, dspv
<1>1. CASE sync' = "done" <=> sync = "done"
  BY <1>0, <1>1, OrderStutters
<1>2. CASE ~ (sync' = "done" <=> sync = "done")
  <2>1. sync = "running" /\ sync' = "done"
    BY <1>2 DEF TakeFrameIrq, EndOfService
  <2>2. PhaseOne /\ phase_a_recue
    BY <1>0, <2>1 DEF Awaited, Unraised
  <2>3. TwoPhaseDsp => dsp = "wait_go"
    BY <2>2, DspWaitsForSync
  <2> QED BY <1>0, <2>1, <2>3 DEF Step
<1> QED BY <1>1, <1>2

LEMMA StepsOfTheSilicon ==
  ASSUME InOrder, InOrder', [Next /\ UNCHANGED bench]_<<vars, bench>>
  PROVE  [Order!OrderNext]_<<IF TwoPhaseDsp THEN fn ELSE 0, IF TwoPhaseDsp THEN Step ELSE "over">>
<1>0. TwoPhaseDsp' = TwoPhaseDsp
  BY DEF TwoPhaseDsp
<1>1. CASE ~ TwoPhaseDsp
  BY <1>0, <1>1
<1>2. CASE UNCHANGED <<fn, Step>>
  BY <1>0, <1>2
<1>3. ASSUME TwoPhaseDsp, ~ UNCHANGED <<fn, Step>> PROVE Order!OrderNext
  <2>1. \/ Step = "over" /\ Step' = "isr" /\ fn' = (fn + 1) % Hyperframe
        \/ fn' = fn /\ Step = "isr" /\ Step' = "l1_sync"
        \/ fn' = fn /\ Step = "l1_sync" /\ Step' = "burst"
        \/ fn' = fn /\ Step = "burst" /\ Step' = "over"
    <3>1. CASE TdmaTick /\ UNCHANGED bench
      BY <1>3, <3>1, TickKeepsOrder
    <3>2. CASE DspStep /\ UNCHANGED bench
      BY <1>3, <3>2, DspKeepsOrder
    <3>3. CASE (TakeFrameIrq \/ EndOfService) /\ UNCHANGED bench
      BY <1>3, <3>3, FirmwareKeepsOrder
    <3>4. CASE TdmaStart /\ UNCHANGED bench
      <4>1. UNCHANGED <<fn, dsp, sync>>
        BY <3>4 DEF TdmaStart, InOrder, PontInv, Outside, dspv, hist
      <4> QED BY <1>3, <3>4, <4>1, OrderStutters
    <3>5. CASE BootTick \/ FrameIrqLower \/ TakeOtherIrq \/ EndScenario \/ ToggleMask \/ PollStatus
               \/ PasEnd \/ ReleaseDspReset \/ LearnDcch \/ ConfigureIrq \/ MachineReset
               \/ UNCHANGED <<vars, bench>>
      <4>1. UNCHANGED <<fn, dsp, sync>>
        BY <3>5 DEF BootTick, FrameIrqLower, TakeOtherIrq, EndScenario, ToggleMask, PollStatus, PasEnd,
           ReleaseDspReset, LearnDcch, ConfigureIrq, MachineReset, vars, qemu, dspv, hist
      <4>2. UNCHANGED bench
        OBVIOUS
      <4> QED BY <1>3, <4>1, <4>2, OrderStutters
    <3> QED BY <3>1, <3>2, <3>3, <3>4, <3>5 DEF Next, ArmStep
  <2> QED BY <1>0, <1>3, <2>1
          DEF Order!OrderNext, Order!DspIsr, Order!ArmSync, Order!Burst, Order!NewFrame
<1> QED BY <1>1, <1>2, <1>3

\* The two-phase tick implements the order of the silicon on every prompt bench
\* whose DSP does not die: DSP ISR, l1_sync, burst, one frame after another and
\* none skipped, whatever the firmware's other interrupts, polls, DSP resets and
\* channel announcements come in between (tdma_tick, calypso_dsp_pont.h).
THEOREM TwoPhaseTickIsInOrder == Spec /\ Prompt /\ "crash" \notin Env => SiliconOrder
<1> DEFINE Chosen == Prompt /\ "crash" \notin Env
<1>1. Init /\ Chosen => Chosen /\ Alive /\ Order!OrderInit
  BY DEF Init, Alive, Order!OrderInit, Step
<1>2. Chosen /\ Alive /\ [Next /\ UNCHANGED bench]_<<vars, bench>> => (Chosen /\ Alive)'
  <2> SUFFICES ASSUME Chosen, Alive, [Next /\ UNCHANGED bench]_<<vars, bench>>
               PROVE  (Chosen /\ Alive)'
    OBVIOUS
  <2>1. Chosen'
    BY DEF Prompt, Steady, Env, Lockstep, ArmFirst, MaxLate, GoPatience, ArmDeadline
  <2>2. dsp' = dsp \/ DspStep
    BY DEF Next, ArmStep, TdmaTick, LockstepWait, FrameTick, FrameWithoutTick, PhaseOneWait, PhaseOneGo,
           BootTick, FrameIrqLower, TakeFrameIrq, TakeOtherIrq, EndScenario, EndOfService, ToggleMask,
           TdmaStart, PollStatus, PasEnd, ReleaseDspReset, LearnDcch, ConfigureIrq, MachineReset, vars,
           dspv
  <2>3. DspStep => Alive'
    BY DEF DspStep, DspRuns, DspCrash, DspTick, DspOther, DspIsrDone, DspGo, DspIgnore, DspGoTimeout,
           DspBurstDone, Alive, dspv
  <2> QED BY <2>1, <2>2, <2>3 DEF Alive
<1>3. PontInv /\ (Steady => ServiceInv) /\ (Prompt => PromptInv) /\ Chosen /\ Alive => InOrder
  BY DEF InOrder, Prompt
<1>4. InOrder /\ InOrder' /\ [Next /\ UNCHANGED bench]_<<vars, bench>>
        => [Order!OrderNext]_<<IF TwoPhaseDsp THEN fn ELSE 0, IF TwoPhaseDsp THEN Step ELSE "over">>
  BY StepsOfTheSilicon
<1> HIDE DEF Chosen
<1>5. Spec /\ Chosen => SiliconOrder
  BY <1>1, <1>2, <1>3, <1>4, PontInvAlways, ServiceInvAlways, PromptInvAlways, PTL
     DEF Spec, SiliconOrder, Order!OrderSpec
<1> QED BY <1>5 DEF Chosen
=============================================================================
