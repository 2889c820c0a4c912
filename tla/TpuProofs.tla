------------------------------ MODULE TpuProofs -----------------------------
(***************************************************************************)
(* The TPU for every program and every frame length, and the synthesizer    *)
(* behind it for every channel.                                             *)
(***************************************************************************)
EXTENDS Tpu, WellFoundedInduction, TLAPS

-----------------------------------------------------------------------------
(* The TPU.  What is due when is a recursive function of the program; its    *)
(* unfolding comes first, by a least counterexample among the lengths.       *)
TpuSpec == TpuInit /\ [][TpuNext]_tpuVars

LEMMA LeastNat ==
  ASSUME NEW T \in SUBSET Nat, T # {}
  PROVE  \E x \in T : \A y \in T : x <= y
<1> DEFINE R == OpToRel(<, Nat)
<1>1. IsWellFoundedOn(R, Nat)
  BY NatLessThanWellFounded, Zenon
<1>2. \A x, y \in Nat : y < x => <<y, x>> \in R
  BY DEF OpToRel
<1> HIDE DEF R
<1>3. PICK x \in T : \A y \in T : ~ (<<y, x>> \in R)
  BY <1>1, WFMin
<1>4. \A y \in T : ~ (y < x)
  BY <1>2, <1>3, Zenon
<1> QED BY <1>4

\* f says when the first n instructions of p are due.
Dates(p, n, f) ==
  f = [i \in 1 .. n |-> IF i = 1 THEN 0 ELSE DueAfter(f[i - 1], p[i - 1])]

LEMMA DatesExist == \A p : \A n \in Nat : \E f : Dates(p, n, f)
<1> SUFFICES ASSUME NEW p, {n \in Nat : ~ \E f : Dates(p, n, f)} # {} PROVE FALSE
  OBVIOUS
<1> DEFINE Bad == {n \in Nat : ~ \E f : Dates(p, n, f)}
<1>1. PICK n \in Bad : \A m \in Bad : n <= m
  BY LeastNat
<1>2. n # 0
  <2> DEFINE f == [i \in 1 .. 0 |-> 0]
  <2>1. Dates(p, 0, f)
    BY DEF Dates
  <2> QED BY <1>1, <2>1
<1>3. n - 1 \in Nat /\ n - 1 \notin Bad
  BY <1>1, <1>2
<1>4. PICK f : Dates(p, n - 1, f)
  BY <1>3
<1> DEFINE g == [i \in 1 .. n |-> IF i = 1 THEN 0 ELSE DueAfter(f[i - 1], p[i - 1])]
<1>5. \A i \in 1 .. n - 1 : g[i] = f[i]
  <2>1. \A i \in 1 .. n - 1 : i \in 1 .. n
    BY <1>3
  <2> QED BY <1>4, <2>1 DEF Dates
<1>6. g = [i \in 1 .. n |-> IF i = 1 THEN 0 ELSE DueAfter(g[i - 1], p[i - 1])]
  <2>1. \A i \in 1 .. n : i # 1 => g[i - 1] = f[i - 1]
    <3> SUFFICES ASSUME NEW i \in 1 .. n, i # 1 PROVE g[i - 1] = f[i - 1]
      OBVIOUS
    <3>1. i - 1 \in 1 .. n - 1
      BY <1>3
    <3> QED BY <1>5, <3>1
  <2> HIDE DEF g
  <2>2. \A i \in 1 .. n : (IF i = 1 THEN 0 ELSE DueAfter(f[i - 1], p[i - 1]))
                         = (IF i = 1 THEN 0 ELSE DueAfter(g[i - 1], p[i - 1]))
    BY <2>1
  <2> QED BY <2>2 DEF g
<1> QED BY <1>1, <1>6 DEF Dates

\* The dates of a program, one instruction at a time.
LEMMA DueUnfolds ==
  ASSUME NEW p \in Seq(Insns)
  PROVE  /\ Due(p)[1] = 0
         /\ \A i \in 1 .. Len(p) : Due(p)[i + 1] = DueAfter(Due(p)[i], p[i])
<1> DEFINE n == Len(p) + 1
<1>1. n \in Nat /\ n >= 1
  OBVIOUS
<1>2. Due(p) = CHOOSE f : f = [i \in 1 .. n |-> IF i = 1 THEN 0 ELSE DueAfter(f[i - 1], p[i - 1])]
  BY Zenon DEF Due
<1>3. \E f : f = [i \in 1 .. n |-> IF i = 1 THEN 0 ELSE DueAfter(f[i - 1], p[i - 1])]
  BY <1>1, DatesExist DEF Dates
<1> DEFINE d == Due(p)
<1> HIDE DEF n
<1>4. d = [i \in 1 .. n |-> IF i = 1 THEN 0 ELSE DueAfter(d[i - 1], p[i - 1])]
  BY <1>2, <1>3, Zenon
<1> HIDE DEF d
<1>5. d[1] = 0
  BY <1>1, <1>4
<1>6. ASSUME NEW i \in 1 .. Len(p) PROVE d[i + 1] = DueAfter(d[i], p[i])
  <2>1. i + 1 \in 1 .. n /\ i + 1 # 1 /\ (i + 1) - 1 = i
    BY DEF n
  <2>2. d[i + 1] = DueAfter(d[(i + 1) - 1], p[(i + 1) - 1])
    BY <1>4, <2>1
  <2> QED BY <2>1, <2>2
<1> QED BY <1>5, <1>6 DEF d

LEMMA Division ==
  ASSUME NEW q \in Nat \ {0}, NEW t \in Nat
  PROVE  t = q * (t \div q) + (t % q) /\ t % q \in 0 .. q - 1 /\ t \div q \in Int
OBVIOUS

\* A date and its frame and quarter bit.
LEMMA DateSplits ==
  ASSUME NEW q \in Nat \ {0}, NEW f \in Nat, NEW b \in 0 .. q - 1
  PROVE  (f * q + b) \div q = f /\ (f * q + b) % q = b
<1> DEFINE t == f * q + b  c == t \div q  g == t % q
<1>1. t = q * c + g /\ g \in 0 .. q - 1 /\ c \in Int /\ t \in Int
  OBVIOUS
<1>2. t = f * q + b
  OBVIOUS
<1> HIDE DEF t, c, g
<1> DEFINE k == f - c
<1>3. q * k = g - b /\ k \in Int
  BY <1>1, <1>2
<1>4. q * k < q /\ q * k > -q
  BY <1>1, <1>3
<1> HIDE DEF k
<1>5. k = 0
  BY <1>3, <1>4
<1>6. f = c /\ g = b
  BY <1>1, <1>3, <1>5 DEF k
<1> QED BY <1>6 DEF t, c, g

\* Multiples of a frame.
LEMMA FrameSums ==
  ASSUME NEW q \in Nat, NEW f \in Nat, NEW d \in Nat
  PROVE  /\ (f + d) * q = f * q + d * q /\ (f + 1) * q = f * q + q /\ f * q \in Nat /\ d * q \in Nat
         /\ d >= 1 => (f + d) * q >= (f + 1) * q
<1>1. (f + d) * q = f * q + d * q /\ (f + 1) * q = f * q + q /\ f * q \in Nat /\ d * q \in Nat
  OBVIOUS
<1>2. d >= 1 => d * q >= q
  OBVIOUS
<1> QED BY <1>1, <1>2

\* Where the sequencer is, and the instruction it comes to next is due when it
\* will come to it.
SequencerInv ==
  /\ prog \in Seq(Insns) /\ Encodable(prog)
  /\ cursor \in 1 .. Len(prog) + 1 /\ qbit \in 0 .. Q - 1 /\ wait_frames \in Nat /\ frame \in Nat
  /\ active \in BOOLEAN /\ busy \in BOOLEAN
  /\ busy => active /\ wait_frames = 0
  /\ active /\ ~busy => wait_frames > 0
  /\ active /\ ~skipped => (frame + wait_frames) * Q + qbit = Due(prog)[cursor]

LEMMA SequencerInitInv == TpuInit => SequencerInv
<1> SUFFICES ASSUME TpuInit PROVE SequencerInv
  OBVIOUS
<1>1. Q \in Nat \ {0} /\ <<>> \in Seq(Insns) /\ Len(<<>>) = 0
  BY TpuAssumption DEF TpuAssumption
<1>2. prog = <<>> /\ cursor = 1 /\ qbit = 0 /\ wait_frames = 0 /\ frame = 0 /\ active = FALSE /\ busy = FALSE
  BY DEF TpuInit
<1>3. cursor \in 1 .. Len(prog) + 1 /\ qbit \in 0 .. Q - 1 /\ Encodable(prog)
  BY <1>1, <1>2 DEF Encodable
<1> QED BY <1>1, <1>2, <1>3 DEF SequencerInv

\* The state in which seq_run() comes to an instruction.
LEMMA AtInsn ==
  ASSUME SequencerInv, More
  PROVE  /\ active /\ busy /\ wait_frames = 0 /\ Q \in Nat \ {0} /\ frame \in Nat /\ qbit \in 0 .. Q - 1
         /\ cursor \in 1 .. Len(prog) /\ cursor + 1 \in 1 .. Len(prog) + 1
         /\ Insn \in Insns /\ Insn.arg \in Nat /\ (Insn.op = "at" => Insn.arg < Q)
         /\ ~skipped => Due(prog)[cursor] = frame * Q + qbit
         /\ Due(prog)[cursor + 1] = DueAfter(Due(prog)[cursor], Insn)
<1>1. Q \in Nat \ {0}
  BY TpuAssumption DEF TpuAssumption
<1>2. active /\ busy /\ wait_frames = 0 /\ frame \in Nat /\ qbit \in 0 .. Q - 1 /\ prog \in Seq(Insns)
      /\ cursor \in 1 .. Len(prog) /\ cursor + 1 \in 1 .. Len(prog) + 1
  BY DEF SequencerInv, More
<1>3. Insn \in Insns
  BY <1>2 DEF Insn
<1>4. Insn.arg \in Nat
  BY <1>3 DEF Insns
<1>5. Insn.op = "at" => Insn.arg < Q
  BY <1>2 DEF SequencerInv, Encodable, Insn
<1>6. Due(prog)[cursor + 1] = DueAfter(Due(prog)[cursor], Insn)
  BY <1>2, DueUnfolds DEF Insn
<1>7. frame + 0 = frame
  BY <1>2
<1>8. ~skipped => Due(prog)[cursor] = frame * Q + qbit
  BY <1>2, <1>7 DEF SequencerInv
<1> QED BY <1>1, <1>2, <1>3, <1>4, <1>5, <1>6, <1>8

\* Instructions that take no time.
LEMMA UntimedInv ==
  ASSUME SequencerInv, More, Insn.op \notin {"at", "wait"}, Step,
         UNCHANGED <<qbit, wait_frames, frame, skipped>>
  PROVE  SequencerInv'
<1>1. DueAfter(Due(prog)[cursor], Insn) = Due(prog)[cursor]
  BY DEF DueAfter
<1>2. Due(prog)[cursor + 1] = Due(prog)[cursor] /\ cursor + 1 \in 1 .. Len(prog) + 1
  BY <1>1, AtInsn
<1>3. prog' = prog /\ cursor' = cursor + 1 /\ active' = active /\ busy' = busy
  BY DEF Step
<1> QED BY <1>2, <1>3 DEF SequencerInv

LEMMA ExecAtInv ==
  ASSUME SequencerInv, ExecAt
  PROVE  SequencerInv'
<1> DEFINE t == Due(prog)[cursor]
<1>1. More /\ Insn.op = "at" /\ qbit' = Insn.arg /\ UNCHANGED <<frame, skipped>>
  BY DEF ExecAt, benchSide
<1>2. /\ active /\ busy /\ wait_frames = 0 /\ Q \in Nat \ {0} /\ frame \in Nat /\ qbit \in 0 .. Q - 1
      /\ cursor + 1 \in 1 .. Len(prog) + 1 /\ Insn.arg \in 0 .. Q - 1
      /\ ~skipped => t = frame * Q + qbit
      /\ Due(prog)[cursor + 1] = DueAfter(t, Insn)
  BY <1>1, AtInsn
<1>3. ~skipped => t \div Q = frame /\ t % Q = qbit
  BY <1>2, DateSplits
<1>4. Insn.op # "wait"
  BY <1>1
<1>5. DueAfter(t, Insn) = (t \div Q) * Q + Insn.arg + (IF Insn.arg > t % Q THEN 0 ELSE Q)
  BY <1>1, <1>4 DEF DueAfter
<1> HIDE DEF t
<1>6. ~skipped => Due(prog)[cursor + 1] = frame * Q + Insn.arg + (IF Insn.arg > qbit THEN 0 ELSE Q)
  BY <1>2, <1>3, <1>5
<1>7. (frame + 1) * Q = frame * Q + Q /\ frame * Q \in Nat
  BY <1>2, FrameSums
<1>8. CASE Insn.arg > qbit
  <2>1. cursor' = cursor + 1 /\ prog' = prog /\ active' = active /\ busy' = busy /\ wait_frames' = wait_frames
    BY <1>8 DEF ExecAt, Step
  <2>2. ~skipped => (frame + wait_frames) * Q + Insn.arg = Due(prog)[cursor + 1]
    BY <1>2, <1>6, <1>8
  <2> QED BY <1>1, <1>2, <2>1, <2>2 DEF SequencerInv
<1>9. CASE ~ (Insn.arg > qbit)
  <2>1. cursor' = cursor + 1 /\ prog' = prog /\ active' = active /\ busy' = FALSE /\ wait_frames' = 1
    BY <1>9 DEF ExecAt, Pause
  <2>2. ~skipped => (frame + 1) * Q + Insn.arg = Due(prog)[cursor + 1]
    BY <1>2, <1>6, <1>7, <1>9
  <2>3. frame' + wait_frames' = frame + 1 /\ wait_frames' \in Nat /\ wait_frames' > 0
    BY <1>1, <1>2, <2>1
  <2> QED BY <1>1, <1>2, <2>1, <2>2, <2>3 DEF SequencerInv
<1> QED BY <1>8, <1>9

LEMMA ExecWaitInv ==
  ASSUME SequencerInv, ExecWait
  PROVE  SequencerInv'
<1> DEFINE reach == qbit + Insn.arg
<1>1. More /\ Insn.op = "wait" /\ UNCHANGED <<frame, skipped>>
  BY DEF ExecWait, benchSide
<1>2. /\ active /\ busy /\ wait_frames = 0 /\ Q \in Nat \ {0} /\ frame \in Nat /\ qbit \in 0 .. Q - 1
      /\ cursor + 1 \in 1 .. Len(prog) + 1 /\ Insn.arg \in Nat
      /\ ~skipped => Due(prog)[cursor] = frame * Q + qbit
      /\ Due(prog)[cursor + 1] = DueAfter(Due(prog)[cursor], Insn)
  BY <1>1, AtInsn
<1>3. DueAfter(Due(prog)[cursor], Insn) = Due(prog)[cursor] + Insn.arg
  BY <1>1 DEF DueAfter
<1>4. reach \in Nat /\ frame * Q \in Nat
  BY <1>2, FrameSums
<1>5. ~skipped => Due(prog)[cursor + 1] = frame * Q + reach
  BY <1>2, <1>3, <1>4
<1>6. CASE reach < Q
  <2>1. qbit' = reach /\ cursor' = cursor + 1 /\ prog' = prog /\ active' = active /\ busy' = busy
        /\ wait_frames' = wait_frames
    BY <1>6 DEF ExecWait, Step
  <2>2. qbit' \in 0 .. Q - 1 /\ frame + wait_frames = frame
    BY <1>2, <1>4, <1>6, <2>1
  <2> HIDE DEF reach
  <2> QED BY <1>1, <1>2, <1>5, <2>1, <2>2 DEF SequencerInv
<1>7. CASE ~ (reach < Q)
  <2>1. qbit' = reach % Q /\ wait_frames' = reach \div Q
        /\ cursor' = cursor + 1 /\ prog' = prog /\ active' = active /\ busy' = FALSE
    BY <1>7 DEF ExecWait, Pause
  <2> DEFINE d == reach \div Q  r == reach % Q
  <2> HIDE DEF reach
  <2>2. reach = Q * d + r /\ r \in 0 .. Q - 1 /\ d \in Int
    BY <1>2, <1>4, Division
  <2> HIDE DEF d, r
  <2>3. d \in Nat /\ d > 0
    <3>1. Q * d > 0
      BY <1>2, <1>4, <1>7, <2>2
    <3> QED BY <1>2, <2>2, <3>1
  <2>4. (frame + d) * Q = frame * Q + d * Q /\ d * Q = Q * d
    BY <1>2, <2>3, FrameSums
  <2>5. ~skipped => (frame + d) * Q + r = Due(prog)[cursor + 1]
    BY <1>2, <1>4, <1>5, <2>2, <2>3, <2>4
  <2>6. qbit' = r /\ wait_frames' = d
    BY <2>1 DEF d, r
  <2> QED BY <1>1, <1>2, <2>1, <2>2, <2>3, <2>5, <2>6 DEF SequencerInv
<1> QED BY <1>6, <1>7

\* The end of a scenario.
LEMMA EndInv ==
  ASSUME SequencerInv, active' = FALSE, busy' = FALSE, UNCHANGED <<prog, cursor, qbit, wait_frames, frame>>
  PROVE  SequencerInv'
BY DEF SequencerInv

LEMMA RunScenarioInv ==
  ASSUME SequencerInv, NEW s \in Scenarios, RunScenario(s)
  PROVE  /\ SequencerInv'
         /\ active /\ ~skipped => Due(prog)[cursor] >= (frame + 1) * Q
         /\ air' = air
<1>1. Q \in Nat \ {0} /\ s.prog \in Seq(Insns) /\ Encodable(s.prog)
  BY TpuAssumption DEF TpuAssumption, Encodable
<1>2. /\ prog' = s.prog /\ cursor' = 1 /\ qbit' = 0 /\ wait_frames' = 0 /\ frame' = 0
      /\ active' = TRUE /\ busy' = TRUE /\ ~busy /\ air' = air
  BY DEF RunScenario, rf
<1>3. Due(s.prog)[1] = 0
  BY <1>1, DueUnfolds
<1>4. SequencerInv'
  <2>1. (0 + 0) * Q + 0 = 0 /\ 0 \in 0 .. Q - 1 /\ 1 \in 1 .. Len(s.prog) + 1
    BY <1>1
  <2> QED BY <1>1, <1>2, <1>3, <2>1 DEF SequencerInv
<1>5. ASSUME active, ~skipped PROVE Due(prog)[cursor] >= (frame + 1) * Q
  <2>1. wait_frames \in Nat /\ wait_frames >= 1 /\ frame \in Nat /\ qbit \in Nat
        /\ (frame + wait_frames) * Q + qbit = Due(prog)[cursor]
    BY <1>1, <1>2, <1>5 DEF SequencerInv
  <2>2. (frame + wait_frames) * Q >= (frame + 1) * Q
    BY <1>1, <2>1, FrameSums
  <2>3. (frame + wait_frames) * Q \in Nat /\ (frame + 1) * Q \in Nat
    BY <1>1, <2>1
  <2> QED BY <2>1, <2>2, <2>3
<1> QED BY <1>2, <1>4, <1>5

LEMMA TdmaTickInv ==
  ASSUME SequencerInv, NEW jump \in {1, 2}, TdmaTick(jump)
  PROVE  SequencerInv'
<1>1. ~busy /\ UNCHANGED <<prog, cursor, qbit, active>> /\ frame' = (IF active THEN frame + jump ELSE 0)
      /\ skipped' = (skipped \/ (active /\ jump > 1)) /\ SequencerTick
  BY DEF TdmaTick
<1>2. frame' \in Nat
  BY <1>1 DEF SequencerInv
<1>3. CASE ~ active
  BY <1>1, <1>2, <1>3 DEF SequencerInv, SequencerTick
<1>4. CASE active
  <2>1. wait_frames \in Nat /\ wait_frames > 0 /\ frame \in Nat /\ frame' = frame + jump
    BY <1>1, <1>4 DEF SequencerInv
  <2>2. wait_frames' = wait_frames - 1 /\ busy' = (wait_frames = 1)
    BY <1>1, <1>4, <2>1 DEF SequencerTick
  <2>3. (~skipped' => ~skipped /\ ~ (jump > 1)) /\ busy' \in BOOLEAN /\ (busy' <=> wait_frames = 1)
    BY <1>1, <1>4, <2>2, Zenon
  <2>4. ~ (jump > 1) => frame' + wait_frames' = frame + wait_frames
    BY <2>1, <2>2
  <2>5. wait_frames' \in Nat /\ (wait_frames = 1 => wait_frames' = 0) /\ (wait_frames # 1 => wait_frames' > 0)
    BY <2>1, <2>2
  <2> QED BY <1>1, <1>2, <1>4, <2>3, <2>4, <2>5 DEF SequencerInv
<1> QED BY <1>3, <1>4

\* Every step preserves SequencerInv; a synthesizer programming is on time and no
\* scenario is cut before its time.
LEMMA TpuNextInv ==
  ASSUME SequencerInv, [TpuNext]_tpuVars
  PROVE  /\ SequencerInv'
         /\ air' = air \/ (~skipped => frame * Q + qbit = Due(prog)[cursor])
         /\ \/ <<prog, asked>>' = <<prog, asked>>
            \/ active /\ ~skipped => Due(prog)[cursor] >= (frame + 1) * Q
<1>1. CASE ExecZero \/ ExecOther
  <2>1. UNCHANGED <<qbit, wait_frames, frame, skipped, air, asked, prog>>
        /\ More /\ Insn.op \notin {"at", "wait"}
    BY <1>1 DEF ExecZero, ExecOther, rf, benchSide, Step
  <2>2. Step \/ (active' = FALSE /\ busy' = FALSE /\ UNCHANGED <<prog, cursor>>)
    BY <1>1 DEF ExecZero, ExecOther
  <2> QED BY <2>1, <2>2, UntimedInv, EndInv
<1>2. CASE ExecAt
  <2>1. UNCHANGED <<air, prog, asked>>
    BY <1>2 DEF ExecAt, rf, benchSide, Step, Pause
  <2> QED BY <1>2, <2>1, ExecAtInv
<1>3. CASE ExecWait
  <2>1. UNCHANGED <<air, prog, asked>>
    BY <1>3 DEF ExecWait, rf, benchSide, Step, Pause
  <2> QED BY <1>3, <2>1, ExecWaitInv
<1>4. CASE ExecMove
  <2>1. UNCHANGED <<qbit, wait_frames, frame, skipped, asked, prog>>
        /\ More /\ Step /\ Insn.op \notin {"at", "wait"}
    BY <1>4 DEF ExecMove, benchSide, Step, Moves, Bytes
  <2>2. ~skipped => frame * Q + qbit = Due(prog)[cursor]
    BY <2>1, AtInsn
  <2> QED BY <2>1, <2>2, UntimedInv
<1>5. CASE RunsOff
  BY <1>5, EndInv DEF RunsOff, rf, benchSide
<1>7. ASSUME NEW jump \in {1, 2}, TdmaTick(jump)
      PROVE  SequencerInv' /\ air' = air /\ <<prog, asked>>' = <<prog, asked>>
  BY <1>7, TdmaTickInv DEF TdmaTick, rf
<1>8. CASE UNCHANGED tpuVars
  BY <1>8 DEF tpuVars, seq, rf, benchSide, SequencerInv
<1> QED BY <1>1, <1>2, <1>3, <1>4, <1>5, <1>7, <1>8, RunScenarioInv DEF TpuNext, SeqRun

\* For every set of programs and every frame length: the air model is told of a
\* synthesizer programming at the frame and quarter bit at which the hardware
\* would have executed the MOVE, over all the AT and WAIT before it (seq_run,
\* calypso_tpu_sequencer_tick), as long as the frame number has not jumped.
THEOREM MovesAreOnTime == TpuSpec => MovesOnTime
<1>1. SequencerInv /\ [TpuNext]_tpuVars
      => SequencerInv' /\ [~skipped => frame * Q + qbit = Due(prog)[cursor]]_air
  BY TpuNextInv
<1> QED BY <1>1, SequencerInitInv, PTL DEF TpuSpec, MovesOnTime

\* For every set of programs: a scenario is replaced by the next only if the rest
\* of it is due in a later frame (calypso_tpu_run_scenario after tdma_tick).
THEOREM OnlyLaterWorkIsCut == TpuSpec => NothingDueIsCut
<1>1. SequencerInv /\ [TpuNext]_tpuVars
      => /\ SequencerInv'
         /\ [active /\ ~skipped => Due(prog)[cursor] >= (frame + 1) * Q]_<<prog, asked>>
  BY TpuNextInv
<1> QED BY <1>1, SequencerInitInv, PTL DEF TpuSpec, NothingDueIsCut

-----------------------------------------------------------------------------
(* The synthesizer.                                                         *)
LEMMA Parts ==
  ASSUME NEW q \in Nat, NEW f \in Nat, NEW b \in Nat, b < q
  PROVE  (f * q + b) \div q = f /\ (f * q + b) % q = b
<1>1. q \in Nat \ {0} /\ b \in 0 .. q - 1
  OBVIOUS
<1> QED BY <1>1, DateSplits

Told(n, w) == [arfcn |-> Arfcn(PllWord(n), w), ul |-> Uplink(PllWord(n), w)]

LEMMA Decoded ==
  ASSUME NEW n \in Nat, 4096 <= n, n <= 12287, NEW w
  PROVE  /\ PllWord(n) \in Nat \ {0} /\ PllWord(n) % 8 = 1
         /\ Freq10(PllWord(n), w) = IF HighBand(w) THEN 2 * n ELSE n
<1> DEFINE b == n \div 64  a == n % 64  k == b - 64  p == PllWord(n)
<1>1. n = 64 * b + a /\ a \in Nat /\ a < 64 /\ b \in Int
  BY Division, SMT
<1> HIDE DEF a, b
<1>2. k \in Nat /\ k < 128
  BY <1>1, SMT
<1>3. p = k * 512 + (a * 8 + 1)
  BY SMT DEF PllWord, a, b
<1> HIDE DEF k, p
<1>4. p \div 512 = k
  <2>1. a * 8 + 1 \in Nat /\ a * 8 + 1 < 512 /\ k \in Nat
    BY <1>1, <1>2, SMT
  <2> DEFINE c == a * 8 + 1
  <2>2. c \in Nat /\ c < 512 /\ p = k * 512 + c
    BY <1>3, <2>1, SMT
  <2> HIDE DEF c
  <2> QED BY <2>1, <2>2, Parts, SMT
<1>5. k % 128 = k
  <2>1. 0 * 128 + k = k
    BY <1>2, SMT
  <2>2. k \in Nat /\ k < 128
    BY <1>2, SMT
  <2>3. (0 * 128 + k) % 128 = k
    BY <2>2, Parts, SMT
  <2> QED BY <2>1, <2>3, SMT
<1>6. (p \div 8) % 64 = a
  <2> DEFINE m == k * 64 + a
  <2>1. m \in Nat /\ p = m * 8 + 1 /\ k \in Nat /\ a \in Nat /\ a < 64
    BY <1>1, <1>2, <1>3, SMT
  <2>2. m % 64 = a
    BY <2>1, Parts, SMT
  <2> HIDE DEF m
  <2>3. p \div 8 = m
    BY <2>1, Parts, SMT
  <2> QED BY <2>2, <2>3, SMT
<1>7. p \in Nat \ {0}
  BY <1>1, <1>2, <1>3, SMT
<1>8. p % 8 = 1
  <2> DEFINE m == k * 64 + a
  <2>1. m \in Nat /\ p = m * 8 + 1
    BY <1>1, <1>2, <1>3, SMT
  <2> HIDE DEF m
  <2> QED BY <2>1, Parts, SMT
<1>9. (((p \div 512) % 128) + 64) * 64 + ((p \div 8) % 64) = n
  BY <1>1, <1>2, <1>4, <1>5, <1>6, SMT DEF k
<1> QED BY <1>7, <1>8, <1>9, SMT DEF Freq10, HighBand, p

LEMMA HalfOfDouble ==
  \A d \in Nat : (2 * d) \div 2 = d
<1> TAKE d \in Nat
<1>1. d * 2 + 0 = 2 * d /\ 0 < 2
  BY SMT
<1>2. (d * 2 + 0) \div 2 = d
  BY <1>1, Parts, SMT
<1> QED BY <1>1, <1>2, SMT

\* What the registers say for a frequency in the bands of GSM 900 and DCS 1800.
LEMMA Bands ==
  ASSUME NEW n \in Nat, 4096 <= n, n <= 12287, NEW w, NEW d \in Nat
  PROVE  /\ ~ HighBand(w) /\ n = 9350 + 2 * d /\ d <= 124 => Told(n, w) = Down(d)
         /\ ~ HighBand(w) /\ n = 9350 - 2 * d /\ 1 <= d /\ d <= 49 => Told(n, w) = Down(1024 - d)
         /\ ~ HighBand(w) /\ n = 8900 + 2 * d /\ 1 <= d /\ d <= 124 => Told(n, w) = Up(d)
         /\ ~ HighBand(w) /\ n = 8900 - 2 * d /\ 1 <= d /\ d <= 49 => Told(n, w) = Up(1024 - d)
         /\ HighBand(w) /\ n = 9026 + d /\ d <= 373 => Told(n, w) = Down(512 + d)
         /\ HighBand(w) /\ n = 8551 + d /\ d <= 373 => Told(n, w) = Up(512 + d)
<1> DEFINE p == PllWord(n)  f == Freq10(p, w)  h == (2 * d) \div 2
<1>1. p # 0 /\ f = (IF HighBand(w) THEN 2 * n ELSE n)
  BY Decoded, SMT
<1>2. Arfcn(p, w) = IF p = 0 THEN -1
      ELSE IF 9350 <= f /\ f <= 9598 THEN (f - 9350) \div 2
      ELSE IF 9252 <= f /\ f <= 9349 THEN 1024 - (9350 - f) \div 2
      ELSE IF 18052 <= f /\ f <= 18798 THEN 512 + (f - 18052) \div 2
      ELSE IF 19302 <= f /\ f <= 19898 THEN 512 + (f - 19302) \div 2
      ELSE -1
  BY DEF Arfcn
<1>3. Uplink(p, w) = IF p = 0 THEN -1
      ELSE IF 8902 <= f /\ f <= 9148 THEN (f - 8900) \div 2
      ELSE IF 8802 <= f /\ f <= 8899 THEN 1024 - (8900 - f) \div 2
      ELSE IF 17102 <= f /\ f <= 17848 THEN 512 + (f - 17102) \div 2
      ELSE -1
  BY DEF Uplink
<1>4. h = d
  BY HalfOfDouble, SMT
<1>5. Told(n, w) = [arfcn |-> Arfcn(p, w), ul |-> Uplink(p, w)]
  BY SMT DEF Told
<1> HIDE DEF p, f
<1>6. ASSUME ~ HighBand(w), n = 9350 + 2 * d, d <= 124 PROVE Told(n, w) = Down(d)
  <2>1. f = 9350 + 2 * d /\ f - 9350 = 2 * d
    BY <1>1, <1>6, SMT
  <2>2. Arfcn(p, w) = h /\ Uplink(p, w) = -1
    BY <1>1, <1>2, <1>3, <1>6, <2>1
  <2> QED BY <1>4, <1>5, <2>2 DEF Down
<1>7. ASSUME ~ HighBand(w), n = 9350 - 2 * d, 1 <= d /\ d <= 49 PROVE Told(n, w) = Down(1024 - d)
  <2>1. f = 9350 - 2 * d /\ 9350 - f = 2 * d
    BY <1>1, <1>7, SMT
  <2>2. Arfcn(p, w) = 1024 - h /\ Uplink(p, w) = -1
    BY <1>1, <1>2, <1>3, <1>7, <2>1
  <2> QED BY <1>4, <1>5, <2>2 DEF Down
<1>8. ASSUME ~ HighBand(w), n = 8900 + 2 * d, 1 <= d /\ d <= 124 PROVE Told(n, w) = Up(d)
  <2>1. f = 8900 + 2 * d /\ f - 8900 = 2 * d
    BY <1>1, <1>8, SMT
  <2>2. Uplink(p, w) = h /\ Arfcn(p, w) = -1
    BY <1>1, <1>2, <1>3, <1>8, <2>1
  <2> QED BY <1>4, <1>5, <2>2, SMT DEF Up
<1>9. ASSUME ~ HighBand(w), n = 8900 - 2 * d, 1 <= d /\ d <= 49 PROVE Told(n, w) = Up(1024 - d)
  <2>1. f = 8900 - 2 * d /\ 8900 - f = 2 * d
    BY <1>1, <1>9, SMT
  <2>2. Uplink(p, w) = 1024 - h /\ Arfcn(p, w) = -1
    BY <1>1, <1>2, <1>3, <1>9, <2>1
  <2> QED BY <1>4, <1>5, <2>2, SMT DEF Up
<1>10. ASSUME HighBand(w), n = 9026 + d, d <= 373 PROVE Told(n, w) = Down(512 + d)
  <2>1. f = 18052 + 2 * d /\ f - 18052 = 2 * d
    BY <1>1, <1>10, SMT
  <2>2. Arfcn(p, w) = 512 + h /\ Uplink(p, w) = -1
    BY <1>1, <1>2, <1>3, <1>10, <2>1
  <2> QED BY <1>4, <1>5, <2>2, SMT DEF Down
<1>11. ASSUME HighBand(w), n = 8551 + d, d <= 373 PROVE Told(n, w) = Up(512 + d)
  <2>1. f = 17102 + 2 * d /\ f - 17102 = 2 * d
    BY <1>1, <1>11, SMT
  <2>2. Uplink(p, w) = 512 + h /\ Arfcn(p, w) = -1
    BY <1>1, <1>2, <1>3, <1>11, <2>1
  <2> QED BY <1>4, <1>5, <2>2, SMT DEF Up
<1> QED BY <1>6, <1>7, <1>8, <1>9, <1>10, <1>11

\* Every channel of the two bands is known from the registers alone, whatever the
\* other bits of the band register are: a downlink frequency names its own channel
\* and no uplink one, an uplink frequency the other way round
\* (calypso_trf6151_arfcn, calypso_trf6151_rf_flags).  The uplink of channel 0 is
\* not among them: the code does not mark it (UplinkIsMarked).
THEOREM ChannelsAreKnown ==
  ASSUME NEW w \in Nat, NEW c, IsChannel(c), HighBand(w) <=> Dcs(Number(c))
  PROVE  Told(Divider(c), w) = c /\ PllWord(Divider(c)) % 8 = 1
<1> DEFINE n == Number(c)  e == Divider(c)
<1>1. n \in Nat /\ (n <= 124 \/ Extended(n) \/ Dcs(n)) /\ (c = Down(n) \/ (c = Up(n) /\ n # 0))
  BY DEF IsChannel
<1>2. /\ c = Down(n) => c.ul = -1
      /\ c = Up(n) => c.ul = n /\ c.ul # -1
  BY <1>1 DEF Down, Up
<1>3. e = IF Dcs(n) THEN (IF c.ul = -1 THEN 9026 ELSE 8551) + (n - 512)
          ELSE IF Extended(n) THEN (IF c.ul = -1 THEN 9350 ELSE 8900) - 2 * (1024 - n)
          ELSE (IF c.ul = -1 THEN 9350 ELSE 8900) + 2 * n
  BY DEF Divider
<1> HIDE DEF n, e
<1>4. CASE n <= 124
  <2>1. ~ Dcs(n) /\ ~ Extended(n)
    BY <1>1, <1>4 DEF Dcs, Extended
  <2>2. e \in Nat /\ 4096 <= e /\ e <= 12287 /\ e = (IF c.ul = -1 THEN 9350 ELSE 8900) + 2 * n
    BY <1>1, <1>3, <1>4, <2>1
  <2>3. CASE c = Down(n)
    <3>1. Told(e, w) = Down(n)
      BY <1>1, <1>2, <1>4, <2>1, <2>2, <2>3, Bands DEF n
    <3> QED BY <2>2, <2>3, <3>1, Decoded DEF e
  <2>4. CASE c = Up(n) /\ n # 0
    <3>1. Told(e, w) = Up(n)
      BY <1>1, <1>2, <1>4, <2>1, <2>2, <2>4, Bands DEF n
    <3> QED BY <2>2, <2>4, <3>1, Decoded DEF e
  <2> QED BY <1>1, <2>3, <2>4
<1>5. CASE Extended(n)
  <2> DEFINE g == 1024 - n
  <2>1. ~ Dcs(n) /\ g \in Nat /\ 1 <= g /\ g <= 49 /\ 1024 - g = n
    BY <1>1, <1>5 DEF Dcs, Extended
  <2>2. e \in Nat /\ 4096 <= e /\ e <= 12287 /\ e = (IF c.ul = -1 THEN 9350 ELSE 8900) - 2 * g
    BY <1>1, <1>3, <1>5, <2>1
  <2> HIDE DEF g
  <2>3. CASE c = Down(n)
    <3>1. Told(e, w) = Down(1024 - g)
      BY <1>2, <2>1, <2>2, <2>3, Bands DEF n
    <3> QED BY <2>1, <2>2, <2>3, <3>1, Decoded DEF e
  <2>4. CASE c = Up(n)
    <3>1. Told(e, w) = Up(1024 - g)
      BY <1>2, <2>1, <2>2, <2>4, Bands DEF n
    <3> QED BY <2>1, <2>2, <2>4, <3>1, Decoded DEF e
  <2> QED BY <1>1, <2>3, <2>4
<1>6. CASE Dcs(n)
  <2> DEFINE g == n - 512
  <2>1. g \in Nat /\ g <= 373 /\ 512 + g = n
    BY <1>1, <1>6 DEF Dcs
  <2>2. e \in Nat /\ 4096 <= e /\ e <= 12287 /\ e = (IF c.ul = -1 THEN 9026 ELSE 8551) + g
    BY <1>1, <1>3, <1>6, <2>1
  <2> HIDE DEF g
  <2>3. CASE c = Down(n)
    <3>1. Told(e, w) = Down(512 + g)
      BY <1>2, <1>6, <2>1, <2>2, <2>3, Bands DEF n
    <3> QED BY <2>1, <2>2, <2>3, <3>1, Decoded DEF e
  <2>4. CASE c = Up(n)
    <3>1. Told(e, w) = Up(512 + g)
      BY <1>2, <1>6, <2>1, <2>2, <2>4, Bands DEF n
    <3> QED BY <2>1, <2>2, <2>4, <3>1, Decoded DEF e
  <2> QED BY <1>1, <2>3, <2>4
<1> QED BY <1>1, <1>4, <1>5, <1>6

-----------------------------------------------------------------------------
(* The channel after a scenario.  Beyond the sequencer's invariant it takes   *)
(* what the serial port holds of the MOVEs just done (Loaded), and what the   *)
(* part of the scenario done so far has left in the synthesizer (Tuning).     *)
Loaded ==
  /\ tx \in [Bytes -> Nat] /\ ctrl1 \in Nat
  /\ cursor > 1 /\ prog[cursor - 1].op = "tx1" => tx["tx1"] = prog[cursor - 1].arg
  /\ cursor > 2 /\ prog[cursor - 1].op = "tx2" /\ prog[cursor - 2].op = "tx1" =>
       tx["tx1"] = prog[cursor - 2].arg /\ tx["tx2"] = prog[cursor - 1].arg
  /\ cursor > 1 /\ prog[cursor - 1].op = "ctrl1" => ctrl1 = prog[cursor - 1].arg
  /\ cursor > 3 /\ prog[cursor - 1].op = "ctrl1" /\ prog[cursor - 2].op = "tx2" /\ prog[cursor - 3].op = "tx1" =>
       tx["tx1"] = prog[cursor - 3].arg /\ tx["tx2"] = prog[cursor - 2].arg

\* The ring entry is the channel of the registers.
Shown == air.arfcn = Arfcn(pll, pwr) /\ air.ul = Uplink(pll, pwr)

Tuning(b, d) ==
  /\ TunesAt(prog, asked, b, d) /\ Reached(prog, cursor - 1)
  /\ cursor > b => pwr = Word(prog, b)
  /\ cursor > d => pll = Word(prog, d)
  /\ cursor > b /\ cursor > d => Shown
  /\ ~active => cursor > b /\ cursor > d

Exempt(c) == c = NoChannel \/ c.ul = 0

TuneInv ==
  /\ Loaded
  /\ Exempt(asked) \/ (IsChannel(asked) /\ \E b, d \in 1 .. Len(prog) : Tuning(b, d))

\* The instruction at the cursor is done.
LEMMA ReachedNext ==
  ASSUME SequencerInv, More, Reached(prog, cursor - 1), ~ EndAt(prog, cursor)
  PROVE  Reached(prog, cursor)
<1>1. cursor \in Nat /\ \A i \in 1 .. cursor : i = cursor \/ i \in 1 .. cursor - 1
  BY DEF SequencerInv, More
<1> QED BY <1>1 DEF Reached

\* An instruction that does not start a transfer.
LEMMA TuningPasses ==
  ASSUME SequencerInv, More, NEW b \in 1 .. Len(prog), NEW d \in 1 .. Len(prog), Tuning(b, d),
         ~ Transfers(Insn), ~ EndAt(prog, cursor),
         cursor' = cursor + 1, UNCHANGED <<prog, active, pll, pwr, air, asked>>
  PROVE  Tuning(b, d)'
<1>1. cursor \in Nat /\ active /\ cursor' - 1 = cursor /\ Reached(prog, cursor)
  <2>1. cursor \in Nat /\ active
    BY AtInsn
  <2>2. Reached(prog, cursor)
    BY ReachedNext DEF Tuning
  <2> QED BY <2>1, <2>2
<1>2. cursor # b /\ cursor # d
  BY DEF Tuning, TunesAt, Sends, ToTrf, Starts, Insn
<1>3. (cursor' > b => cursor > b) /\ (cursor' > d => cursor > d)
  BY <1>1, <1>2
<1>4. TunesAt(prog, asked, b, d)' /\ Reached(prog, cursor - 1)'
  <2>1. TunesAt(prog, asked, b, d)
    BY DEF Tuning
  <2>2. TunesAt(prog', asked', b, d)
    BY <2>1
  <2>3. Reached(prog', cursor' - 1)
    BY <1>1
  <2> QED BY <2>2, <2>3
<1>5. Shown => Shown'
  BY DEF Shown
<1> QED BY <1>1, <1>3, <1>4, <1>5 DEF Tuning, Word

\* What the serial port holds after an instruction.
LEMMA LoadedStep ==
  ASSUME SequencerInv, More, Loaded, cursor' = cursor + 1, prog' = prog,
         \/ Insn.op \in Bytes /\ tx' = [tx EXCEPT ![Insn.op] = Insn.arg] /\ ctrl1' = ctrl1
         \/ Insn.op = "ctrl1" /\ ctrl1' = Insn.arg /\ tx' = tx
         \/ Insn.op \notin Bytes \cup {"ctrl1"} /\ UNCHANGED <<tx, ctrl1>>
  PROVE  Loaded'
<1>1. cursor \in Nat /\ cursor >= 1 /\ Insn.arg \in Nat /\ Insn = prog[cursor]
  BY AtInsn DEF Insn
<1>2. /\ cursor' - 1 = cursor /\ cursor' - 2 = cursor - 1 /\ cursor' - 3 = cursor - 2
      /\ cursor' > 2 => cursor > 1
      /\ cursor' > 3 => cursor > 2
  BY <1>1
<1>3. tx \in [Bytes -> Nat] /\ ctrl1 \in Nat
  BY DEF Loaded
<1>4. CASE Insn.op = "tx1" /\ tx' = [tx EXCEPT !["tx1"] = Insn.arg] /\ ctrl1' = ctrl1
  <2>1. tx' \in [Bytes -> Nat] /\ tx'["tx1"] = Insn.arg
    BY <1>1, <1>3, <1>4 DEF Bytes
  <2> QED BY <1>1, <1>2, <1>3, <1>4, <2>1 DEF Loaded
<1>5. CASE Insn.op = "tx2" /\ tx' = [tx EXCEPT !["tx2"] = Insn.arg] /\ ctrl1' = ctrl1
  <2>1. tx' \in [Bytes -> Nat] /\ tx'["tx2"] = Insn.arg /\ tx'["tx1"] = tx["tx1"]
    BY <1>1, <1>3, <1>5 DEF Bytes
  <2>2. cursor > 1 /\ prog[cursor - 1].op = "tx1" => tx["tx1"] = prog[cursor - 1].arg
    BY DEF Loaded
  <2> QED BY <1>1, <1>2, <1>3, <1>5, <2>1, <2>2 DEF Loaded
<1>6. CASE Insn.op = "ctrl1" /\ ctrl1' = Insn.arg /\ tx' = tx
  <2>1. cursor > 2 /\ prog[cursor - 1].op = "tx2" /\ prog[cursor - 2].op = "tx1" =>
          tx["tx1"] = prog[cursor - 2].arg /\ tx["tx2"] = prog[cursor - 1].arg
    BY DEF Loaded
  <2> QED BY <1>1, <1>2, <1>3, <1>6, <2>1 DEF Loaded
<1>7. CASE Insn.op \notin {"tx1", "tx2", "ctrl1"} /\ tx' \in [Bytes -> Nat] /\ ctrl1' = ctrl1
  BY <1>1, <1>2, <1>3, <1>7 DEF Loaded
<1>8. CASE Insn.op \in {"tx3", "tx4"} /\ tx' = [tx EXCEPT ![Insn.op] = Insn.arg] /\ ctrl1' = ctrl1
  BY <1>1, <1>3, <1>7, <1>8 DEF Bytes
<1> QED BY <1>3, <1>4, <1>5, <1>6, <1>7, <1>8 DEF Bytes

LEMMA Remains ==
  ASSUME NEW q \in Nat, NEW v \in Nat, v < q
  PROVE  v % q = v
<1>1. 0 * q + v = v
  OBVIOUS
<1>2. (0 * q + v) % q = v
  BY Parts
<1> QED BY <1>1, <1>2

\* A word of the program, and what is shifted out when it is sent.
LEMMA WordType ==
  ASSUME NEW p, Encodable(p), NEW k \in 1 .. Len(p), Sends(p, k)
  PROVE  Word(p, k) \in Nat /\ Low16(Word(p, k)) = Word(p, k)
<1>1. p \in Seq(Insns) /\ k \in Nat /\ k > 3 /\ p[k - 2].op = "tx2" /\ p[k - 3].op = "tx1"
  BY DEF Encodable, Sends
<1>2. k - 3 \in 1 .. Len(p) /\ k - 2 \in 1 .. Len(p)
  BY <1>1
<1>3. p[k - 3] \in Insns /\ p[k - 2] \in Insns
  BY <1>1, <1>2
<1>4. p[k - 3].arg \in Nat /\ p[k - 2].arg \in Nat
  BY <1>3 DEF Insns
<1>5. p[k - 3].arg < 256 /\ p[k - 2].arg < 256
  <2>1. p[k - 3].arg \in Byte /\ p[k - 2].arg \in Byte
    BY <1>1, <1>2 DEF Encodable, Moves, Bytes
  <2>2. \A v \in Byte : v < 256
    BY SMT DEF Byte
  <2> QED BY <2>1, <2>2
<1> DEFINE x == p[k - 3].arg  y == p[k - 2].arg
<1>6. x \in Nat /\ y \in Nat /\ x < 256 /\ y < 256 /\ Word(p, k) = x * 256 + y
  BY <1>4, <1>5 DEF Word
<1> HIDE DEF x, y
<1>7. Word(p, k) \in Nat /\ Word(p, k) < 65536
  BY <1>6, SMT
<1> QED BY <1>7, Remains, SMT DEF Low16

LEMMA Shifted ==
  ASSUME SequencerInv, More, Loaded, Sends(prog, cursor)
  PROVE  Dout = Word(prog, cursor) /\ ctrl1 \div 32 \in {1, 2}
<1>1. cursor > 3 /\ prog[cursor - 1].op = "ctrl1" /\ prog[cursor - 2].op = "tx2" /\ prog[cursor - 3].op = "tx1"
      /\ prog[cursor - 1].arg \div 32 \in {1, 2} /\ prog[cursor - 1].arg % 32 >= 8
      /\ prog[cursor - 1].arg % 32 < 16 /\ cursor \in Nat
  BY AtInsn DEF Sends, ToTrf, Starts
<1>2. ctrl1 = prog[cursor - 1].arg /\ tx["tx1"] = prog[cursor - 3].arg /\ tx["tx2"] = prog[cursor - 2].arg
      /\ ctrl1 \in Nat
  BY <1>1 DEF Loaded
<1>3. ~ (ctrl1 % 32 < 8) /\ ctrl1 % 32 < 16
  BY <1>1, <1>2
<1> QED BY <1>1, <1>2, <1>3 DEF Dout, Word

\* A transfer: to the synthesizer it is the word of the band, that of the PLL, or
\* one that changes neither.
LEMMA TransferTunes ==
  ASSUME SequencerInv, More, Loaded, IsChannel(asked), Transfers(Insn), WriteTrf,
         NEW b \in 1 .. Len(prog), NEW d \in 1 .. Len(prog), Tuning(b, d),
         cursor' = cursor + 1, UNCHANGED <<prog, active, asked>>
  PROVE  Tuning(b, d)'
<1> DEFINE reg == Dout % 8  hit == ctrl1 \div 32 \in {1, 2} /\ reg \in {0, 1, 2}
           wb == Word(prog, b)  wd == Word(prog, d)
<1>1. /\ cursor \in Nat /\ cursor \in 1 .. Len(prog) /\ active /\ cursor' - 1 = cursor
      /\ Transfers(prog[cursor]) /\ Reached(prog, cursor) /\ Encodable(prog)
  <2>1. ~ EndAt(prog, cursor) /\ Transfers(prog[cursor])
    BY DEF EndAt, Insn, Transfers
  <2>2. cursor \in 1 .. Len(prog) /\ active /\ Encodable(prog)
    BY AtInsn DEF SequencerInv
  <2>3. Reached(prog, cursor)
    BY <2>1, ReachedNext DEF Tuning
  <2> QED BY <2>1, <2>2, <2>3
<1>2. /\ TunesAt(prog, asked, b, d) /\ Sends(prog, b) /\ Sends(prog, d) /\ wb % 8 = 2
      /\ (HighBand(wb) <=> Dcs(Number(asked))) /\ wd = PllWord(Divider(asked))
  BY DEF Tuning, TunesAt
<1>3. wb \in Nat /\ Low16(wb) = wb /\ Low16(wd) = wd
  BY <1>1, <1>2, WordType
<1>4. wd % 8 = 1
  BY <1>2, <1>3, ChannelsAreKnown
<1>5. /\ Starts(prog, cursor)
      /\ ToTrf(prog, cursor) =>
           /\ Sends(prog, cursor)
           /\ Word(prog, cursor) % 8 \in {1, 2} => Word(prog, cursor) \in {wb, wd}
  BY <1>1, <1>2 DEF TunesAt
<1>6. ctrl1 = prog[cursor - 1].arg
  BY <1>5 DEF Loaded, Starts
<1>7. /\ ctrl1 \div 32 \in {1, 2} => Sends(prog, cursor) /\ (reg \in {1, 2} => Dout \in {wb, wd})
      /\ cursor \in {b, d} => ctrl1 \div 32 \in {1, 2} /\ Dout = Word(prog, cursor)
  BY <1>2, <1>5, <1>6, Shifted DEF ToTrf, Sends
<1>8. /\ pll' = IF hit /\ reg = 1 THEN Low16(Dout) ELSE pll
      /\ pwr' = IF hit /\ reg = 2 THEN Low16(Dout) ELSE pwr
      /\ hit => air'.arfcn = Arfcn(pll', pwr') /\ air'.ul = Uplink(pll', pwr')
      /\ ~ hit => air' = air
  BY DEF WriteTrf
<1> HIDE DEF reg, hit
<1>9. hit => Shown'
  BY <1>8 DEF Shown
<1>10. ~ hit => UNCHANGED <<pll, pwr, air>> /\ cursor # b /\ cursor # d
  <2>1. ~ hit => UNCHANGED <<pll, pwr, air>>
    BY <1>8
  <2>2. cursor \in {b, d} => hit
    BY <1>2, <1>4, <1>7 DEF hit, reg
  <2> QED BY <2>1, <2>2
<1>11. (hit /\ reg = 1 => Dout = wd) /\ (hit /\ reg = 2 => Dout = wb)
  BY <1>2, <1>4, <1>7 DEF hit, reg
<1>12. /\ cursor = b => hit /\ reg = 2
       /\ cursor = d => hit /\ reg = 1
  BY <1>2, <1>4, <1>7 DEF hit, reg
<1>13. (cursor > b => pwr = wb) /\ (cursor > d => pll = wd) /\ (cursor > b /\ cursor > d => Shown)
  BY DEF Tuning
<1> HIDE DEF wb, wd
<1>14. (cursor' > b => cursor > b \/ cursor = b) /\ (cursor' > d => cursor > d \/ cursor = d)
  BY <1>1
<1>15. (cursor' > b => pwr' = wb) /\ (cursor' > d => pll' = wd)
  BY <1>3, <1>8, <1>11, <1>12, <1>13, <1>14
<1>16. cursor' > b /\ cursor' > d => Shown'
  <2>1. UNCHANGED <<pll, pwr, air>> => (Shown => Shown')
    BY DEF Shown
  <2> QED BY <1>9, <1>10, <1>13, <1>14, <2>1
<1>17. TunesAt(prog', asked', b, d) /\ Reached(prog', cursor' - 1)
  BY <1>1, <1>2
<1>18. Word(prog', b) = wb /\ Word(prog', d) = wd /\ active'
  BY <1>1 DEF wb, wd
<1> QED BY <1>15, <1>16, <1>17, <1>18 DEF Tuning

\* A scenario ends only behind its two words.
LEMMA TuningEnds ==
  ASSUME SequencerInv, busy, NEW b \in 1 .. Len(prog), NEW d \in 1 .. Len(prog), Tuning(b, d),
         cursor > Len(prog) \/ EndAt(prog, cursor)
  PROVE  cursor > b /\ cursor > d
<1>1. cursor \in Nat /\ cursor >= 1
  BY DEF SequencerInv
<1>2. Reached(prog, b) /\ Reached(prog, d)
  BY DEF Tuning, TunesAt
<1>3. CASE cursor > Len(prog)
  BY <1>1, <1>3 DEF SequencerInv
<1>4. CASE EndAt(prog, cursor)
  <2>1. cursor \notin 1 .. b /\ cursor \notin 1 .. d
    BY <1>2, <1>4 DEF Reached
  <2> QED BY <1>1, <2>1
<1> QED BY <1>3, <1>4

\* What leaves the program, the synthesizer and the place in the program alone.
LEMMA TuneUntouched ==
  ASSUME TuneInv, UNCHANGED <<prog, cursor, rf, asked>>,
         active' = active \/ \A b, d \in 1 .. Len(prog) : Tuning(b, d) => cursor > b /\ cursor > d
  PROVE  TuneInv'
<1>1. UNCHANGED <<tx, ctrl1, pll, pwr, air>>
  BY DEF rf
<1>2. Loaded'
  BY <1>1 DEF TuneInv, Loaded
<1>3. Shown => Shown'
  BY <1>1 DEF Shown
<1>4. ASSUME NEW b \in 1 .. Len(prog), NEW d \in 1 .. Len(prog), Tuning(b, d) PROVE Tuning(b, d)'
  <2>1. TunesAt(prog', asked', b, d) /\ Reached(prog', cursor' - 1)
    BY <1>4 DEF Tuning
  <2>2. ~active' => cursor > b /\ cursor > d
    BY <1>4 DEF Tuning
  <2> QED BY <1>1, <1>3, <1>4, <2>1, <2>2 DEF Tuning, Word
<1>5. (Exempt(asked) => Exempt(asked')) /\ (IsChannel(asked) => IsChannel(asked'))
  OBVIOUS
<1> QED BY <1>2, <1>4, <1>5 DEF TuneInv

\* The instructions that go on to the next one.
LEMMA TunePasses ==
  ASSUME SequencerInv, More, TuneInv, UNCHANGED <<prog, active, asked>>, cursor' = cursor + 1,
         \/ Transfers(Insn) /\ WriteTrf
         \/ /\ ~ Transfers(Insn) /\ ~ EndAt(prog, cursor) /\ UNCHANGED <<pll, pwr, air>>
            /\ \/ Insn.op \in Bytes /\ tx' = [tx EXCEPT ![Insn.op] = Insn.arg] /\ ctrl1' = ctrl1
               \/ Insn.op = "ctrl1" /\ ctrl1' = Insn.arg /\ tx' = tx
               \/ Insn.op \notin Bytes \cup {"ctrl1"} /\ UNCHANGED <<tx, ctrl1>>
  PROVE  TuneInv'
<1>1. Loaded'
  <2>1. Loaded
    BY DEF TuneInv
  <2>2. CASE Transfers(Insn) /\ WriteTrf
    <3>1. Insn.op \notin Bytes \cup {"ctrl1"} /\ UNCHANGED <<tx, ctrl1>>
      BY <2>2 DEF WriteTrf, Transfers, Bytes
    <3> QED BY <2>1, <2>2, <3>1, LoadedStep
  <2> QED BY <2>1, <2>2, LoadedStep
<1>2. ASSUME IsChannel(asked), NEW b \in 1 .. Len(prog), NEW d \in 1 .. Len(prog), Tuning(b, d)
      PROVE  Tuning(b, d)'
  <2>1. Loaded
    BY DEF TuneInv
  <2> QED BY <1>2, <2>1, TuningPasses, TransferTunes
<1>3. (Exempt(asked) => Exempt(asked')) /\ (IsChannel(asked) => IsChannel(asked'))
  OBVIOUS
<1> QED BY <1>1, <1>2, <1>3 DEF TuneInv

\* A scenario that tunes to its channel begins.
LEMMA TuneBegins ==
  ASSUME TuneInv, NEW s \in Scenarios, Exempt(s.asked) \/ Tunes(s), RunScenario(s)
  PROVE  TuneInv'
<1>1. prog' = s.prog /\ asked' = s.asked /\ cursor' = 1 /\ active' = TRUE /\ UNCHANGED <<tx, ctrl1>>
  BY DEF RunScenario, rf
<1>2. Loaded'
  <2>1. tx \in [Bytes -> Nat] /\ ctrl1 \in Nat
    BY DEF TuneInv, Loaded
  <2>2. ~ (cursor' > 1) /\ ~ (cursor' > 2) /\ ~ (cursor' > 3)
    BY <1>1
  <2> QED BY <1>1, <2>1, <2>2 DEF Loaded
<1>3. ASSUME NEW b \in 1 .. Len(s.prog), NEW d \in 1 .. Len(s.prog), TunesAt(s.prog, s.asked, b, d)
      PROVE  Tuning(b, d)'
  <2>1. TunesAt(prog', asked', b, d)
    BY <1>1, <1>3
  <2>2. Reached(prog', cursor' - 1) /\ ~ (cursor' > b) /\ ~ (cursor' > d)
    BY <1>1 DEF Reached
  <2> QED BY <1>1, <2>1, <2>2 DEF Tuning
<1>4. CASE Exempt(s.asked)
  <2>1. Exempt(asked')
    BY <1>1, <1>4
  <2> QED BY <1>2, <2>1 DEF TuneInv
<1>5. CASE Tunes(s)
  <2>1. IsChannel(asked')
    BY <1>1, <1>5 DEF Tunes
  <2>2. \E b, d \in 1 .. Len(prog') : Tuning(b, d)'
    BY <1>1, <1>3, <1>5 DEF Tunes
  <2> QED BY <1>2, <2>1, <2>2 DEF TuneInv
<1> QED BY <1>4, <1>5

LEMMA TuneInitInv == TpuInit => TuneInv
<1> SUFFICES ASSUME TpuInit PROVE TuneInv
  OBVIOUS
<1>1. Loaded
  BY DEF TpuInit, Loaded
<1> QED BY <1>1 DEF TpuInit, TuneInv, Exempt

LEMMA TuneNextInv ==
  ASSUME SequencerInv, TuneInv, [TpuNext]_tpuVars,
         \A s \in Scenarios : Exempt(s.asked) \/ Tunes(s)
  PROVE  TuneInv'
<1>1. CASE ExecZero /\ EndAt(prog, cursor)
  <2>1. busy /\ UNCHANGED <<prog, cursor, rf, asked>>
    BY <1>1 DEF ExecZero, benchSide, More
  <2> QED BY <1>1, <2>1, TuningEnds, TuneUntouched
<1>2. CASE (ExecZero /\ ~ EndAt(prog, cursor)) \/ ExecOther
  <2>1. /\ More /\ Insn.op \in {"zero", "other"} /\ cursor' = cursor + 1
        /\ UNCHANGED <<prog, active, asked, tx, ctrl1, pll, pwr, air>>
    BY <1>2 DEF ExecZero, ExecOther, Step, rf, benchSide
  <2>2. ~ EndAt(prog, cursor) /\ ~ Transfers(Insn) /\ Insn.op \notin Bytes \cup {"ctrl1"}
    BY <1>2, <2>1 DEF ExecOther, EndAt, Insn, Transfers, Bytes
  <2> QED BY <2>1, <2>2, TunePasses
<1>3. CASE ExecAt \/ ExecWait
  <2>1. /\ More /\ Insn.op \in {"at", "wait"} /\ cursor' = cursor + 1
        /\ UNCHANGED <<prog, active, asked, tx, ctrl1, pll, pwr, air>>
    BY <1>3 DEF ExecAt, ExecWait, Step, Pause, rf, benchSide
  <2>2. ~ EndAt(prog, cursor) /\ ~ Transfers(Insn) /\ Insn.op \notin Bytes \cup {"ctrl1"}
    BY <2>1 DEF EndAt, Insn, Transfers, Bytes
  <2> QED BY <2>1, <2>2, TunePasses
<1>4. CASE ExecMove
  <2>1. /\ More /\ Insn.op \in Moves /\ cursor' = cursor + 1 /\ TspMove(Insn)
        /\ UNCHANGED <<prog, active, asked>>
    BY <1>4 DEF ExecMove, Step, benchSide
  <2>2. ~ EndAt(prog, cursor)
    BY <2>1 DEF EndAt, Insn, Moves, Bytes
  <2>3. Insn.op \in Bytes \cup {"ctrl1"} => ~ Transfers(Insn)
    BY DEF Transfers, Bytes
  <2>4. Insn.op = "ctrl2" => Insn.op \notin Bytes \cup {"ctrl1"}
    BY DEF Bytes
  <2> QED BY <2>1, <2>2, <2>3, <2>4, TunePasses DEF TspMove, rf
<1>5. CASE RunsOff
  <2>1. busy /\ cursor > Len(prog) /\ UNCHANGED <<prog, cursor, rf, asked>>
    BY <1>5 DEF RunsOff, benchSide
  <2> QED BY <2>1, TuningEnds, TuneUntouched
<1>6. CASE \E s \in Scenarios : RunScenario(s)
  BY <1>6, TuneBegins
<1>7. CASE \E jump \in {1, 2} : TdmaTick(jump)
  <2>1. UNCHANGED <<prog, cursor, rf, asked, active>>
    BY <1>7 DEF TdmaTick
  <2> QED BY <2>1, TuneUntouched
<1>8. CASE UNCHANGED tpuVars
  <2>1. UNCHANGED <<prog, cursor, rf, asked, active>>
    BY <1>8 DEF tpuVars, seq, benchSide
  <2> QED BY <2>1, TuneUntouched
<1> QED BY <1>1, <1>2, <1>3, <1>4, <1>5, <1>6, <1>7, <1>8 DEF TpuNext, SeqRun

\* For every set of scenarios that tune to their channels, over any channels, with
\* any waits, other transfers and leftover words in them: once a scenario is over,
\* the newest entry of the ring names the channel it was written for, whatever the
\* scenarios before it have left in the registers or were cut short of (seq_run,
\* calypso_tsp_move, calypso_trf6151_tsp_write).
THEOREM ScenariosAreHeard ==
  (\A s \in Scenarios : s.asked = NoChannel \/ s.asked.ul = 0 \/ Tunes(s))
    => (TpuSpec => []TunedAsAsked)
<1> SUFFICES ASSUME \A s \in Scenarios : s.asked = NoChannel \/ s.asked.ul = 0 \/ Tunes(s)
             PROVE  TpuSpec => []TunedAsAsked
  OBVIOUS
<1>1. \A s \in Scenarios : Exempt(s.asked) \/ Tunes(s)
  BY DEF Exempt
<1>2. SequencerInv /\ TuneInv /\ [TpuNext]_tpuVars => SequencerInv' /\ TuneInv'
  BY <1>1, TpuNextInv, TuneNextInv
<1>3. SequencerInv /\ TuneInv => TunedAsAsked
  <2> SUFFICES ASSUME SequencerInv, TuneInv, ~active, asked # NoChannel, asked.ul # 0
               PROVE  [arfcn |-> air.arfcn, ul |-> air.ul] = asked
    BY DEF TunedAsAsked
  <2>1. PICK b \in 1 .. Len(prog), d \in 1 .. Len(prog) : Tuning(b, d)
    BY DEF TuneInv, Exempt
  <2>2. IsChannel(asked)
    BY DEF TuneInv, Exempt
  <2>3. pwr = Word(prog, b) /\ pll = Word(prog, d) /\ Shown /\ TunesAt(prog, asked, b, d)
    BY <2>1 DEF Tuning
  <2>4. /\ Sends(prog, b) /\ (HighBand(pwr) <=> Dcs(Number(asked))) /\ pll = PllWord(Divider(asked))
    BY <2>3 DEF TunesAt
  <2>5. pwr \in Nat
    BY <2>3, <2>4, WordType DEF SequencerInv
  <2>6. Told(Divider(asked), pwr) = asked
    BY <2>2, <2>4, <2>5, ChannelsAreKnown
  <2> QED BY <2>3, <2>4, <2>6 DEF Told, Shown
<1> QED BY <1>2, <1>3, SequencerInitInv, TuneInitInv, PTL DEF TpuSpec
-----------------------------------------------------------------------------
(* The types: what SequencerInv leaves open of them.                         *)
RegisterInv ==
  /\ irq \in BOOLEAN /\ skipped \in BOOLEAN /\ frame <= MaxFrames
  /\ ~active => wait_frames = 0
  /\ pll \in Word16 /\ pwr \in Word16 /\ tx \in [Bytes -> Byte] /\ ctrl1 \in Byte

LEMMA BytesAndWords ==
  /\ Byte \subseteq Nat /\ 0 \in Byte /\ 0 \in Word16
  /\ \A v \in Nat : Low16(v) \in Word16
<1>1. Byte \subseteq Nat /\ 0 \in Byte
  BY SMT DEF Byte
<1>2. 0 \in Word16
  BY SMT DEF Word16
<1>3. ASSUME NEW v \in Nat PROVE Low16(v) \in Word16
  <2>1. Low16(v) \in Nat /\ Low16(v) < 65536
    BY SMT DEF Low16
  <2> QED BY <2>1, SMT DEF Word16
<1> QED BY <1>1, <1>2, <1>3

LEMMA DoutType == ASSUME RegisterInv PROVE Dout \in Nat
<1> DEFINE a == tx["tx1"]  b == tx["tx2"]  c == tx["tx3"]  d == tx["tx4"]
<1>1. a \in Nat /\ b \in Nat /\ c \in Nat /\ d \in Nat
  BY BytesAndWords DEF RegisterInv, Bytes
<1> HIDE DEF a, b, c, d
<1>2. a * 256 + b \in Nat
  BY <1>1
<1>3. (a * 256 + b) * 256 + c \in Nat
  BY <1>1, <1>2
<1>4. ((a * 256 + b) * 256 + c) * 256 + d \in Nat
  BY <1>1, <1>3
<1> QED BY <1>1, <1>2, <1>3, <1>4 DEF Dout, a, b, c, d

\* A MOVE has a byte of data, and the synthesizer's registers have 16 bits.
LEMMA MoveTypes ==
  ASSUME SequencerInv, RegisterInv, ExecMove
  PROVE  pll' \in Word16 /\ pwr' \in Word16 /\ tx' \in [Bytes -> Byte] /\ ctrl1' \in Byte
<1>1. Insn.op \in Moves /\ TspMove(Insn) /\ Insn.arg \in Byte
  <2>1. cursor \in 1 .. Len(prog) /\ prog[cursor].op \in Moves /\ More
    BY AtInsn DEF ExecMove, Insn
  <2>2. prog[cursor].arg \in Byte
    BY <2>1 DEF SequencerInv, Encodable
  <2> QED BY <2>1, <2>2 DEF ExecMove, Insn
<1>2. CASE Insn.op \in Bytes /\ tx' = [tx EXCEPT ![Insn.op] = Insn.arg] /\ UNCHANGED <<ctrl1, pll, pwr, air>>
  <2>1. tx' \in [Bytes -> Byte]
    BY <1>1, <1>2 DEF RegisterInv
  <2> QED BY <1>2, <2>1 DEF RegisterInv
<1>3. CASE Insn.op = "ctrl1" /\ ctrl1' = Insn.arg /\ UNCHANGED <<tx, pll, pwr, air>>
  BY <1>1, <1>3 DEF RegisterInv
<1>4. CASE WriteTrf
  <2>1. pll' \in {pll, Low16(Dout)} /\ pwr' \in {pwr, Low16(Dout)} /\ UNCHANGED <<tx, ctrl1>>
    BY <1>4 DEF WriteTrf
  <2>2. Low16(Dout) \in Word16
    BY DoutType, BytesAndWords
  <2> QED BY <2>1, <2>2 DEF RegisterInv
<1>5. CASE UNCHANGED rf
  BY <1>5 DEF RegisterInv, rf
<1> QED BY <1>1, <1>2, <1>3, <1>4, <1>5 DEF TspMove

LEMMA RegisterInitInv == TpuInit => RegisterInv
<1> SUFFICES ASSUME TpuInit PROVE RegisterInv
  OBVIOUS
<1>1. tx \in [Bytes -> Byte] /\ ctrl1 \in Byte /\ pll \in Word16 /\ pwr \in Word16
  BY BytesAndWords DEF TpuInit
<1>2. frame <= MaxFrames
  BY TpuAssumption DEF TpuAssumption, TpuInit
<1> QED BY <1>1, <1>2 DEF TpuInit, RegisterInv

LEMMA RegisterNextInv ==
  ASSUME SequencerInv, RegisterInv, [TpuNext]_tpuVars
  PROVE  RegisterInv'
<1>1. CASE ExecZero \/ ExecOther \/ RunsOff
  <2>1. UNCHANGED <<rf, benchSide, wait_frames>> /\ busy
    BY <1>1 DEF ExecZero, ExecOther, RunsOff, More
  <2>2. wait_frames = 0
    BY <2>1 DEF SequencerInv
  <2> QED BY <2>1, <2>2 DEF RegisterInv, rf, benchSide
<1>2. CASE ExecAt \/ ExecWait
  <2>1. UNCHANGED <<rf, benchSide, active>> /\ busy
    BY <1>2 DEF ExecAt, ExecWait, More, Step, Pause
  <2>2. active
    BY <2>1 DEF SequencerInv
  <2> QED BY <2>1, <2>2 DEF RegisterInv, rf, benchSide
<1>3. CASE ExecMove
  <2>1. UNCHANGED <<benchSide, active, wait_frames>>
    BY <1>3 DEF ExecMove, Step
  <2> QED BY <1>3, <2>1, MoveTypes DEF RegisterInv, benchSide
<1>4. CASE \E s \in Scenarios : RunScenario(s)
  <2>1. /\ UNCHANGED rf /\ active' = TRUE /\ irq' = FALSE /\ skipped' = FALSE /\ frame' = 0
    BY <1>4 DEF RunScenario
  <2>2. frame' <= MaxFrames
    BY <2>1, TpuAssumption DEF TpuAssumption
  <2>3. irq' \in BOOLEAN /\ skipped' \in BOOLEAN /\ active'
    BY <2>1
  <2> QED BY <2>1, <2>2, <2>3 DEF RegisterInv, rf
<1>5. CASE \E jump \in {1, 2} : TdmaTick(jump)
  <2>1. PICK jump \in {1, 2} : TdmaTick(jump)
    BY <1>5
  <2>2. /\ UNCHANGED <<rf, active>> /\ irq' = TRUE /\ frame + jump <= MaxFrames /\ SequencerTick
        /\ frame' = IF active THEN frame + jump ELSE 0
        /\ skipped' = (skipped \/ (active /\ jump > 1))
    BY <2>1 DEF TdmaTick
  <2>3. frame' <= MaxFrames
    BY <2>2, TpuAssumption DEF TpuAssumption, SequencerInv
  <2>4. ~active' => wait_frames' = 0
    BY <2>2 DEF SequencerTick, RegisterInv
  <2>5. skipped' \in BOOLEAN /\ irq' \in BOOLEAN
    BY <2>2
  <2> QED BY <2>2, <2>3, <2>4, <2>5 DEF RegisterInv, rf
<1>6. CASE UNCHANGED tpuVars
  BY <1>6 DEF RegisterInv, tpuVars, seq, rf, benchSide
<1> QED BY <1>1, <1>2, <1>3, <1>4, <1>5, <1>6 DEF TpuNext, SeqRun

\* The types, for every set of programs: seq_run() stays within the program and
\* the frame, a sequence is either running or waiting for a frame, and none waits
\* once it has ended.
THEOREM TpuTypeCorrectness == TpuSpec => []TpuTypeOK
<1>1. SequencerInv /\ RegisterInv /\ [TpuNext]_tpuVars => SequencerInv' /\ RegisterInv'
  BY TpuNextInv, RegisterNextInv
<1>2. SequencerInv /\ RegisterInv => TpuTypeOK
  <2> SUFFICES ASSUME SequencerInv, RegisterInv PROVE TpuTypeOK
    OBVIOUS
  <2>1. /\ cursor \in 1 .. Len(prog) + 1 /\ qbit \in 0 .. Q - 1 /\ wait_frames \in Nat /\ frame \in Nat
        /\ active \in BOOLEAN /\ busy \in BOOLEAN /\ (busy => active /\ wait_frames = 0)
        /\ (active /\ ~busy => wait_frames > 0)
    BY DEF SequencerInv
  <2>2. /\ irq \in BOOLEAN /\ skipped \in BOOLEAN /\ frame <= MaxFrames /\ (~active => wait_frames = 0)
    BY DEF RegisterInv
  <2>3. pll \in Word16 /\ pwr \in Word16 /\ tx \in [Bytes -> Byte] /\ ctrl1 \in Byte
    BY DEF RegisterInv
  <2>4. frame \in 0 .. MaxFrames
    BY <2>1, <2>2, TpuAssumption DEF TpuAssumption
  <2>5. ((busy \/ wait_frames > 0) => active) /\ (active => busy # (wait_frames > 0))
    BY <2>1, <2>2
  <2> QED BY <2>1, <2>2, <2>3, <2>4, <2>5 DEF TpuTypeOK
<1> QED BY <1>1, <1>2, SequencerInitInv, RegisterInitInv, PTL DEF TpuSpec
=============================================================================
