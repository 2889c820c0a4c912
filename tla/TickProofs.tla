----------------------------- MODULE TickProofs -----------------------------
(***************************************************************************)
(* The smaller parts that the machine ticks, which share no state:          *)
(* publish_kc() for every key set and every grace; the downlink speech ring *)
(* for every size of the ring and of the queue; a timer for every load value,*)
(* every set of prescalers and any lateness of the main loop.               *)
(***************************************************************************)
EXTENDS KcPublish, TchDownlink, Timer, SequenceTheorems, TLAPS

-----------------------------------------------------------------------------
(* publish_kc().  ClearIsConfirmed needs that clear_pending never exceeds    *)
(* the clear observations really made in a row.                             *)
KcInv == KcTypeOK /\ clear_pending <= clears

\* The record observed is one of the records there are.
LEMMA ObservedType == KcTypeOK => Observed \in Words
BY DEF KcTypeOK, Observed, Words, Clear, KeyWords

\* KcInv holds before the first observation.
LEMMA KcInitInv == KcInit => KcInv
<1> SUFFICES ASSUME KcInit PROVE KcInv
  OBVIOUS
<1>1. clear_pending \in 0 .. Grace - 1 /\ clears \in 0 .. Grace /\ clear_pending <= clears
  BY KcAssumption DEF KcAssumption, KcInit
<1>2. a_kc \in Words
  BY DEF KcInit, Words, Clear, KeyWords
<1> QED BY <1>1, <1>2 DEF KcInit, KcInv, KcTypeOK

\* An observation, whatever becomes of it.
LEMMA PublishInv ==
  ASSUME KcInv, NEW ok \in BOOLEAN, Publish(ok)
  PROVE  KcInv' /\ (last' = Clear /\ Ciphered => clears' = Grace)
<1> USE KcAssumption DEF KcAssumption
<1>1. clears \in 0 .. Grace /\ clear_pending \in 0 .. Grace - 1 /\ clear_pending <= clears
  BY DEF KcInv, KcTypeOK
<1>2. clears' \in 0 .. Grace
  BY <1>1 DEF Publish
<1>3. Observed = Clear => clears' = Grace \/ clears' = clears + 1
  BY <1>1 DEF Publish
<1>4. clear_pending' \in 0 .. Grace - 1 /\ clear_pending' <= clears'
  <2>1. CASE clear_pending' = 0
    BY <1>2, <2>1
  <2>2. CASE Wait
    BY <1>1, <1>2, <1>3, <2>2 DEF Wait, HeldBack
  <2> QED BY <2>1, <2>2 DEF Publish, Seen, Write
<1>5. {last', file'} \subseteq Words \cup {None}
  BY ObservedType DEF Publish, Seen, Wait, Write, KcInv, KcTypeOK
<1>6. KcInv'
  BY <1>2, <1>4, <1>5 DEF Publish, KcInv, KcTypeOK
<1>7. ASSUME last' = Clear, Ciphered PROVE clears' = Grace
  <2>1. Observed = Clear /\ ~ HeldBack
    BY <1>7 DEF Publish, Seen, Wait, Write, Ciphered
  <2>2. clear_pending + 1 >= Grace
    BY <1>1, <1>7, <2>1 DEF HeldBack
  <2> QED BY <1>1, <1>2, <1>3, <2>1, <2>2
<1> QED BY <1>6, <1>7

\* Every word the firmware writes and every observation keeps KcInv.
LEMMA KcNextInv == KcInv /\ [KcNext]_kcVars => KcInv'
<1> SUFFICES ASSUME KcInv, [KcNext]_kcVars PROVE KcInv'
  OBVIOUS
<1>1. ASSUME NEW k \in Keys \cup {0}, Load(k) PROVE KcInv'
  BY <1>1 DEF Load, KcInv, KcTypeOK, Halves
<1>2. ASSUME NEW w \in {"mode"} \cup Halves, WriteWord(w) PROVE KcInv'
  <2>1. d_a5mode' \in BOOLEAN /\ a_kc' \in Words
    BY <1>2 DEF WriteWord, KcInv, KcTypeOK, Words
  <2> QED BY <1>2, <2>1 DEF WriteWord, KcInv, KcTypeOK
<1>3. ASSUME NEW ok \in BOOLEAN, Publish(ok) PROVE KcInv'
  BY <1>3, PublishInv
<1>4. CASE UNCHANGED kcVars
  BY <1>4 DEF kcVars, KcInv, KcTypeOK
<1> QED BY <1>1, <1>2, <1>3, <1>4 DEF KcNext, KcFirmware, KcTick

\* The record, the file and the counter of publish_kc() keep their types; the
\* counter stays below the grace.
THEOREM KcTypeCorrectness == KcSpec => []KcTypeOK
<1>1. KcInv => KcTypeOK
  BY DEF KcInv
<1> QED BY <1>1, KcInitInv, KcNextInv, PTL DEF KcSpec

\* The receiver is told of cleartext only after Grace clear observations in a
\* row, for every grace and in every order of the firmware's words.
THEOREM ClearNeedsGrace == KcSpec => ClearIsConfirmed
<1>1. KcInv /\ [KcNext]_kcVars => [last' = Clear /\ Ciphered => clears' = Grace]_kcVars
  <2> SUFFICES ASSUME KcInv, KcNext, last' = Clear, Ciphered PROVE clears' = Grace
    OBVIOUS
  <2>1. CASE KcFirmware
    <3>1. last' = last
      BY <2>1 DEF KcFirmware, Load, WriteWord
    <3> QED BY <3>1 DEF Ciphered
  <2>2. CASE KcTick
    BY <2>2, PublishInv DEF KcTick
  <2> QED BY <2>1, <2>2 DEF KcNext
<1> QED BY <1>1, KcInitInv, KcNextInv, PTL DEF KcSpec, ClearIsConfirmed

-----------------------------------------------------------------------------
(* The speech ring.  The order of what is heard needs the order of what is   *)
(* queued, and that the number last read dates every frame of the writer's   *)
(* present life.                                                            *)
TchSpec == TchInit /\ [][TchOutside \/ TchTick]_tchVars

\* A frame the reader has taken: of an earlier life of the writer, or not
\* beyond the number the reader has come to.
Read(f) == f.run < run \/ (f.run = run /\ f.seq <= tch_dl_seq /\ tch_dl_seq <= w_seq)

QueueInOrder ==
  /\ \A i, j \in 1 .. Len(queue) : i < j => Before(queue[i], queue[j])
  /\ \A i \in 1 .. Len(queue) : Before(heard, queue[i]) /\ Read(queue[i])
  /\ Read(heard)

TchInv ==
  /\ TchTypeOK
  /\ written => w_seq < MaxSeq
  /\ \A i \in 0 .. Slots - 1 : slot[i].run \in {0, run}
  /\ poll # 0 => tch_dl_seq < poll /\ poll <= w_seq /\ Len(queue) < Prefetch
  /\ QueueInOrder

LEMMA FrameFields ==
  /\ \A f \in Frame \cup {NoFrame} : f.run \in Nat /\ f.seq \in Nat
  /\ \A f \in Frame : f.run \in 1 .. MaxRuns /\ f.seq \in 1 .. MaxSeq
  /\ MaxRuns \in Nat \ {0} /\ MaxSeq \in Nat \ {0} /\ Slots \in Nat \ {0} /\ Prefetch \in Nat \ {0}
BY TchAssumption DEF TchAssumption, Frame, NoFrame

LEMMA SlotOfType == \A n \in Nat \ {0} : SlotOf(n) \in 0 .. Slots - 1
BY FrameFields DEF SlotOf

\* The queue while no frame enters or leaves it, and the reader stays behind the
\* writer it follows.
LEMMA QueueKept ==
  ASSUME TchInv, UNCHANGED <<queue, heard>>,
         run' \in Nat, w_seq' \in Nat,
         \/ run' = run /\ tch_dl_seq' = tch_dl_seq /\ w_seq' >= w_seq
         \/ run' > run
  PROVE  QueueInOrder'
<1>1. \A f \in Frame \cup {NoFrame} : Read(f) => Read(f)'
  BY FrameFields DEF Read, TchInv, TchTypeOK
<1>2. heard \in Frame \cup {NoFrame} /\ \A i \in 1 .. Len(queue) : queue[i] \in Frame
  BY DEF TchInv, TchTypeOK
<1> QED BY <1>1, <1>2 DEF TchInv, QueueInOrder

LEMMA TchInitInv == TchInit => TchInv
<1> SUFFICES ASSUME TchInit PROVE TchInv
  OBVIOUS
<1>1. TchTypeOK
  <2>1. 0 \in 0 .. MaxSeq /\ 1 \in 1 .. MaxRuns /\ 0 \in 0 .. Hold /\ 0 <= Prefetch
    BY TchAssumption DEF TchAssumption
  <2>2. [i \in 0 .. Slots - 1 |-> NoFrame] \in [0 .. Slots - 1 -> Frame \cup {NoFrame}]
    OBVIOUS
  <2>3. <<>> \in Seq(Frame) /\ Len(<<>>) = 0
    OBVIOUS
  <2> QED BY <2>1, <2>2, <2>3 DEF TchInit, TchTypeOK
<1>2. QueueInOrder
  BY DEF TchInit, QueueInOrder, Read, NoFrame
<1> QED BY <1>1, <1>2 DEF TchInit, TchInv, NoFrame

LEMMA WriterInv ==
  ASSUME TchInv, WriteSlot \/ WriteHeader \/ Restart
  PROVE  TchInv' /\ heard' = heard
<1> USE FrameFields
<1>1. heard' = heard /\ queue' = queue /\ poll' = poll /\ tch_dl_seq' = tch_dl_seq
      /\ UNCHANGED <<blud, waited>>
  BY DEF WriteSlot, WriteHeader, Restart, firmwareSide, reader
<1>2. w_seq \in 0 .. MaxSeq /\ run \in 1 .. MaxRuns /\ slot \in [0 .. Slots - 1 -> Frame \cup {NoFrame}]
  BY DEF TchInv, TchTypeOK
<1>3. CASE WriteSlot
  <2>1. [run |-> run, seq |-> w_seq + 1] \in Frame
    BY <1>2, <1>3 DEF WriteSlot, Frame
  <2>2. SlotOf(w_seq + 1) \in 0 .. Slots - 1
    BY <1>2, SlotOfType
  <2>3. slot' \in [0 .. Slots - 1 -> Frame \cup {NoFrame}]
    BY <1>2, <1>3, <2>1, <2>2 DEF WriteSlot
  <2>4. \A i \in 0 .. Slots - 1 : slot'[i].run \in {0, run}
    BY <1>2, <1>3, <2>2 DEF WriteSlot, TchInv
  <2>5. QueueInOrder'
    BY <1>1, <1>2, <1>3, QueueKept DEF WriteSlot
  <2> QED BY <1>1, <1>3, <2>3, <2>4, <2>5 DEF WriteSlot, TchInv, TchTypeOK
<1>4. CASE WriteHeader
  <2>1. w_seq < MaxSeq /\ w_seq' = w_seq + 1 /\ written' = FALSE /\ run' = run /\ slot' = slot
    BY <1>4 DEF WriteHeader, TchInv
  <2>2. QueueInOrder'
    BY <1>1, <1>2, <2>1, QueueKept
  <2>3. w_seq' \in 0 .. MaxSeq /\ (poll # 0 => poll <= w_seq')
    BY <1>2, <2>1 DEF TchInv, TchTypeOK
  <2>4. TchTypeOK'
    BY <1>1, <2>1, <2>3 DEF TchInv, TchTypeOK
  <2> QED BY <1>1, <2>1, <2>2, <2>3, <2>4 DEF TchInv
<1>5. CASE Restart
  <2>1. run' = run + 1 /\ run < MaxRuns /\ w_seq' = 0 /\ written' = FALSE /\ poll = 0
        /\ slot' = [i \in 0 .. Slots - 1 |-> NoFrame]
    BY <1>5 DEF Restart
  <2>2. QueueInOrder'
    BY <1>1, <1>2, <2>1, QueueKept
  <2>3. slot' \in [0 .. Slots - 1 -> Frame \cup {NoFrame}] /\ \A i \in 0 .. Slots - 1 : slot'[i].run = 0
    BY <2>1 DEF NoFrame
  <2>4. run' \in 1 .. MaxRuns /\ w_seq' \in 0 .. MaxSeq
    BY <1>2, <2>1
  <2>5. TchTypeOK'
    BY <1>1, <2>1, <2>3, <2>4 DEF TchInv, TchTypeOK
  <2> QED BY <1>1, <2>1, <2>2, <2>3, <2>5 DEF TchInv
<1> QED BY <1>3, <1>4, <1>5, <1>1

\* tch_dl_poll() up to the header: a ring that started over is of a life no frame
\* of which has been read.
LEMMA PollHeaderInv ==
  ASSUME TchInv, PollHeader
  PROVE  TchInv' /\ heard' = heard
<1> USE FrameFields
<1>1. UNCHANGED <<w_seq, slot, run, written, blud, waited, heard>> /\ poll' = w_seq
  BY DEF PollHeader, writer, firmwareSide
<1>2. w_seq \in 0 .. MaxSeq /\ tch_dl_seq \in 0 .. MaxSeq /\ run \in 1 .. MaxRuns
  BY DEF TchInv, TchTypeOK
<1>3. CASE w_seq < tch_dl_seq
  <2>1. queue' = <<>> /\ tch_dl_seq' = 0 /\ w_seq # 0
    BY <1>3 DEF PollHeader
  <2>2. Len(queue') = 0 /\ queue' \in Seq(Frame)
    BY <2>1
  <2>3. heard.run < run /\ heard.run \in Nat
    BY <1>2, <1>3 DEF TchInv, TchTypeOK, QueueInOrder, Read
  <2>4. QueueInOrder'
    BY <1>1, <2>2, <2>3 DEF QueueInOrder, Read
  <2> QED BY <1>1, <1>2, <2>1, <2>2, <2>4 DEF TchInv, TchTypeOK
<1>4. CASE ~ (w_seq < tch_dl_seq)
  <2>1. queue' = queue /\ tch_dl_seq' = tch_dl_seq /\ w_seq # 0 /\ tch_dl_seq < w_seq /\ Len(queue) < Prefetch
    BY <1>2, <1>4 DEF PollHeader
  <2>2. QueueInOrder'
    BY <1>1, <1>2, <2>1, QueueKept
  <2> QED BY <1>1, <1>2, <2>1, <2>2 DEF TchInv, TchTypeOK
<1> QED BY <1>3, <1>4, <1>1

\* tch_dl_poll() from the slot: the frame taken has a number beyond the last.
LEMMA PollSlotInv ==
  ASSUME TchInv, PollSlot
  PROVE  TchInv' /\ heard' = heard
<1> USE FrameFields
<1>1. UNCHANGED <<w_seq, slot, run, written, blud, waited, heard>> /\ poll' = 0 /\ poll # 0
  BY DEF PollSlot, writer, firmwareSide
<1>2. w_seq \in 0 .. MaxSeq /\ tch_dl_seq \in 0 .. MaxSeq /\ run \in 1 .. MaxRuns
      /\ poll \in 1 .. MaxSeq /\ tch_dl_seq < poll /\ poll <= w_seq /\ Len(queue) < Prefetch
      /\ queue \in Seq(Frame) /\ heard \in Frame \cup {NoFrame}
  BY <1>1 DEF TchInv, TchTypeOK
<1>3. Wanted \in 1 .. MaxSeq /\ tch_dl_seq < Wanted /\ Wanted <= w_seq
  BY <1>2 DEF Wanted
<1>4. CASE slot[SlotOf(Wanted)].seq = Wanted
  <2>1. SlotOf(Wanted) \in 0 .. Slots - 1
    BY <1>3, SlotOfType
  <2>2. PICK f \in Frame \cup {NoFrame} : f = slot[SlotOf(Wanted)]
    BY <2>1 DEF TchInv, TchTypeOK
  <2>3. f \in Frame /\ f.run = run /\ f.seq = Wanted
    <3>1. f.run \in {0, run} /\ f.seq = Wanted
      BY <1>4, <2>1, <2>2 DEF TchInv
    <3> QED BY <1>3, <3>1 DEF NoFrame
  <2>4. tch_dl_seq' = Wanted /\ queue' = Append(queue, f)
    BY <1>4, <2>2 DEF PollSlot
  <2> DEFINE n == Len(queue)
  <2>5. queue' \in Seq(Frame) /\ Len(queue') = n + 1 /\ queue'[n + 1] = f /\ n \in Nat
        /\ \A i \in 1 .. n : queue'[i] = queue[i] /\ queue[i] \in Frame
    BY <1>2, <2>3, <2>4
  <2>6. \A g \in Frame \cup {NoFrame} : Read(g) => Before(g, f) /\ Read(g)'
    BY <1>1, <1>2, <1>3, <2>2, <2>3, <2>4 DEF Read, Before
  <2>7. Read(f)'
    BY <1>1, <1>2, <1>3, <2>2, <2>3, <2>4 DEF Read
  <2>8. Read(heard) /\ (\A i \in 1 .. n : Before(heard, queue[i]) /\ Read(queue[i]))
        /\ \A i, j \in 1 .. n : i < j => Before(queue[i], queue[j])
    BY DEF TchInv, QueueInOrder
  <2> HIDE DEF n
  <2>9. \A i \in 1 .. n + 1 : i \in 1 .. n \/ i = n + 1
    BY <2>5
  <2>10. \A i \in 1 .. n + 1 : Before(heard, queue'[i]) /\ Read(queue[i])'
    BY <1>2, <2>5, <2>6, <2>7, <2>8, <2>9
  <2>11. \A i, j \in 1 .. n + 1 : i < j => Before(queue'[i], queue'[j])
    <3> SUFFICES ASSUME NEW i \in 1 .. n + 1, NEW j \in 1 .. n + 1, i < j
                 PROVE  Before(queue'[i], queue'[j])
      OBVIOUS
    <3>1. i \in 1 .. n
      BY <2>5
    <3>2. CASE j \in 1 .. n
      BY <2>5, <2>8, <3>1, <3>2
    <3>3. CASE j = n + 1
      BY <2>5, <2>6, <2>8, <3>1, <3>3
    <3> QED BY <2>9, <3>2, <3>3
  <2>12. QueueInOrder'
    BY <1>1, <1>2, <2>5, <2>6, <2>8, <2>10, <2>11 DEF QueueInOrder, Before
  <2> QED BY <1>1, <1>2, <1>3, <2>4, <2>5, <2>12 DEF TchInv, TchTypeOK, n
<1>5. CASE slot[SlotOf(Wanted)].seq # Wanted
  <2>1. UNCHANGED <<tch_dl_seq, queue>>
    BY <1>5 DEF PollSlot
  <2>2. QueueInOrder'
    BY <1>1, <1>2, <2>1, QueueKept
  <2> QED BY <1>1, <2>1, <2>2 DEF TchInv, TchTypeOK
<1> QED BY <1>4, <1>5, <1>1

\* dispatch_tch_dl() presents the first frame of the queue, which comes after
\* the one presented last and before the rest.
LEMMA DispatchInv ==
  ASSUME TchInv, Dispatch
  PROVE  TchInv' /\ (heard' # heard => Before(heard, heard'))
<1> USE FrameFields
<1>1. UNCHANGED <<w_seq, slot, run, written, poll, tch_dl_seq>> /\ poll = 0
  BY DEF Dispatch, writer
<1>2. w_seq \in 0 .. MaxSeq /\ tch_dl_seq \in 0 .. MaxSeq /\ run \in 1 .. MaxRuns
      /\ queue \in Seq(Frame) /\ heard \in Frame \cup {NoFrame} /\ Hold \in Nat /\ waited \in 0 .. Hold
  BY TchAssumption DEF TchAssumption, TchInv, TchTypeOK
<1>3. waited' \in 0 .. Hold
  BY <1>2 DEF Dispatch
<1>4. CASE UNCHANGED <<blud, heard, queue>>
  <2>1. QueueInOrder'
    BY <1>1, <1>2, <1>4, QueueKept
  <2> QED BY <1>1, <1>3, <1>4, <2>1 DEF TchInv, TchTypeOK
<1>5. CASE queue # <<>> /\ blud' = TRUE /\ heard' = Head(queue) /\ queue' = Tail(queue)
  <2> DEFINE n == Len(queue)
  <2>1. n \in Nat \ {0} /\ heard' = queue[1] /\ queue[1] \in Frame
    BY <1>2, <1>5, EmptySeq
  <2>2. queue' \in Seq(Frame) /\ Len(queue') = n - 1 /\ \A i \in 1 .. n - 1 : queue'[i] = queue[i + 1]
    BY <1>2, <1>5, <2>1
  <2>3. Read(heard) /\ (\A i \in 1 .. n : Before(heard, queue[i]) /\ Read(queue[i]))
        /\ \A i, j \in 1 .. n : i < j => Before(queue[i], queue[j])
    BY DEF TchInv, QueueInOrder
  <2>4. \A f \in Frame : Read(f) => Read(f)'
    BY <1>1 DEF Read
  <2> HIDE DEF n
  <2>5. \A i \in 1 .. n - 1 : i \in 1 .. n /\ i + 1 \in 1 .. n /\ 1 < i + 1 /\ 1 \in 1 .. n
        /\ queue[i + 1] \in Frame
    BY <1>2, <2>1 DEF n
  <2>6. \A i \in 1 .. n - 1 : Before(heard', queue'[i]) /\ Read(queue[i])'
    BY <2>1, <2>2, <2>3, <2>4, <2>5
  <2>7. \A i, j \in 1 .. n - 1 : i < j => Before(queue'[i], queue'[j])
    <3> SUFFICES ASSUME NEW i \in 1 .. n - 1, NEW j \in 1 .. n - 1, i < j
                 PROVE  Before(queue'[i], queue'[j])
      OBVIOUS
    <3>1. Before(queue[i + 1], queue[j + 1])
      BY <2>1, <2>3, <2>5
    <3> QED BY <2>2, <3>1
  <2>8. Read(heard)' /\ Before(heard, heard')
    BY <2>1, <2>3, <2>4
  <2>9. QueueInOrder'
    BY <2>2, <2>6, <2>7, <2>8 DEF QueueInOrder, Before
  <2>10. Len(queue') <= Prefetch
    BY <1>2, <2>1, <2>2 DEF TchInv, TchTypeOK, n
  <2> QED BY <1>1, <1>3, <1>5, <2>1, <2>2, <2>8, <2>9, <2>10 DEF TchInv, TchTypeOK
<1> QED BY <1>4, <1>5 DEF Dispatch

\* Every step preserves TchInv, and only dispatch_tch_dl() changes what is heard.
LEMMA TchNextInv ==
  ASSUME TchInv, [TchOutside \/ TchTick]_tchVars
  PROVE  TchInv' /\ (heard' # heard => Before(heard, heard'))
<1>1. CASE /\ UNCHANGED <<w_seq, slot, run, written, poll, tch_dl_seq, queue, waited, heard>>
           /\ blud' \in BOOLEAN
  BY <1>1 DEF TchInv, TchTypeOK, QueueInOrder, Read
<1>2. CASE TakeFrame \/ UNCHANGED tchVars
  BY <1>1, <1>2 DEF TakeFrame, tchVars, reader, writer, TchInv, TchTypeOK
<1> QED BY <1>2, WriterInv, PollHeaderInv, PollSlotInv, DispatchInv
        DEF TchOutside, TchTick, Poll

\* Writer, reader and queue keep their types (calypso_l1_grgsm.c, tch_dl_*).
THEOREM TchTypeCorrectness == TchSpec => []TchTypeOK
<1>1. TchInv /\ [TchOutside \/ TchTick]_tchVars => TchInv'
  BY TchNextInv
<1>2. TchInv => TchTypeOK
  BY DEF TchInv
<1> QED BY <1>1, <1>2, TchInitInv, PTL DEF TchSpec

\* For every ring and queue: the firmware hears the frames in the order they were
\* written, none twice, whether the ring is lapped, starts over or changes
\* between the two reads of a poll (tch_dl_poll, dispatch_tch_dl).
THEOREM SpeechComesInOrder == TchSpec => SpeechInOrder
<1>1. TchInv /\ [TchOutside \/ TchTick]_tchVars => TchInv' /\ [heard' # heard => Before(heard, heard')]_heard
  BY TchNextInv
<1> QED BY <1>1, TchInitInv, PTL DEF TchSpec, SpeechInOrder

-----------------------------------------------------------------------------
(* A timer.  TimerTypeOK and WrapOnTime are inductive together.              *)
TimerInv == TimerTypeOK /\ WrapOnTime

\* The counter read is between 0 and the load value.
LEMMA CountInRange ==
  ASSUME NEW l \in Nat, NEW e \in Nat, NEW t \in Nat \ {0}
  PROVE  /\ l - ((e \div t) % (l + 1)) \in 0 .. l
         /\ e \div t \in Nat
<1>1. e \div t \in Nat
  OBVIOUS
<1>2. (e \div t) % (l + 1) \in 0 .. l
  BY <1>1
<1> QED BY <1>1, <1>2

LEMMA OneShotInRange ==
  ASSUME NEW l \in Nat, NEW q \in Nat
  PROVE  (IF q > l THEN 0 ELSE l - q) \in 0 .. l
OBVIOUS

LEMMA CurrentCountInRange ==
  ASSUME NEW rel \in BOOLEAN, load \in Nat, elapsed \in Nat, tick_ns \in Nat \ {0}, running
  PROVE  CurrentCount(rel) \in 0 .. load
<1>1. CASE rel
  BY <1>1, CountInRange DEF CurrentCount
<1>2. CASE ~ rel
  <2>1. elapsed \div tick_ns \in Nat
    BY CountInRange
  <2> QED BY <1>2, <2>1 DEF CurrentCount
<1> QED BY <1>1, <1>2

\* From a count k of l, at len a tick: the time to the wrap and the time since
\* the epoch add up to a period.
LEMMA PeriodSplits ==
  ASSUME NEW l \in Nat, NEW k \in 0 .. l, NEW len \in Nat
  PROVE  /\ (k + 1) * len = (l + 1) * len - (l - k) * len
         /\ (l - k) * len \in Nat /\ (k + 1) * len \in Nat /\ (l + 1) * len \in Nat
OBVIOUS

\* The variables of arithmetic, apart from the Boolean ones.
LEMMA Numbers ==
  ASSUME TimerTypeOK
  PROVE  /\ load \in Nat /\ count \in Nat /\ elapsed \in Nat /\ left \in Int /\ left >= -MaxLate
         /\ tick_ns \in Nat \ {0} /\ MaxLate \in Nat /\ reload \in BOOLEAN
         /\ TickLens \subseteq Nat \ {0} /\ Loads \subseteq Nat
<1>1. reload \in BOOLEAN
  BY DEF TimerTypeOK
<1> QED BY <1>1, TimerAssumption DEF TimerAssumption, TimerTypeOK

\* TimerInv holds after calypso_timer_reset().
LEMMA TimerInitInv == TimerInit => TimerInv
<1> SUFFICES ASSUME TimerInit PROVE TimerInv
  OBVIOUS
<1>1. /\ load \in Loads \cup {0} /\ count \in Nat /\ elapsed \in Nat /\ left \in Int
      /\ left >= -MaxLate /\ writes \in Nat
  BY TimerAssumption DEF TimerAssumption, TimerInit
<1>2. prescale \in TickLens /\ tick_ns \in TickLens
  BY TimerAssumption DEF TimerAssumption, TimerInit
<1> QED BY <1>1, <1>2 DEF TimerInit, TimerInv, TimerTypeOK, WrapOnTime

\* The types of a step from those of its numbers and of its Booleans.
LEMMA TypesAfter ==
  ASSUME TimerInv,
         run_bits' \in BOOLEAN, reload' \in BOOLEAN, running' \in BOOLEAN,
         armed' \in BOOLEAN, fired' \in BOOLEAN, rewritten' \in BOOLEAN,
         prescale' \in TickLens, tick_ns' \in TickLens, load' \in Loads \cup {0},
         count' \in Nat, elapsed' \in Nat, left' \in Int, left' >= -MaxLate, writes' \in Nat
  PROVE  TimerTypeOK'
<1>1. load' \in Nat /\ tick_ns' \in Nat \ {0}
  BY TimerAssumption DEF TimerAssumption
<1>2. ASSUME running' PROVE CurrentCount(reload)' \in 0 .. load'
  <2>1. CASE reload'
    BY <1>1, <1>2, <2>1, CountInRange DEF CurrentCount
  <2>2. CASE ~ reload'
    <3>1. elapsed' \div tick_ns' \in Nat
      BY <1>1, CountInRange
    <3>2. (IF elapsed' \div tick_ns' > load' THEN 0 ELSE load' - (elapsed' \div tick_ns')) \in 0 .. load'
      BY <1>1, <3>1, OneShotInRange
    <3>3. CurrentCount(reload)'
            = IF elapsed' \div tick_ns' > load' THEN 0 ELSE load' - (elapsed' \div tick_ns')
      BY <1>2, <2>2, Zenon DEF CurrentCount
    <3> QED BY <3>2, <3>3
  <2> QED BY <2>1, <2>2
<1> QED BY <1>2 DEF TimerTypeOK

\* Start, new prescaler and stop: epoch and deadline are set together.
LEMMA WriteCtrlInv ==
  ASSUME TimerInv, NEW on \in BOOLEAN, NEW rel \in BOOLEAN, NEW len \in TickLens,
         WriteCtrl(on, rel, len)
  PROVE  TimerInv'
<1>0. /\ load \in Nat /\ count \in Nat /\ elapsed \in Nat /\ left \in Int /\ left >= -MaxLate
      /\ tick_ns \in Nat \ {0} /\ MaxLate \in Nat /\ len \in Nat \ {0} /\ tick_ns \in TickLens
      /\ load \in Loads \cup {0} /\ writes' \in Nat
  BY Numbers DEF TimerInv, TimerTypeOK, WriteCtrl
<1>1. /\ run_bits' = on /\ reload' = rel /\ prescale' = len /\ fired' = FALSE /\ load' = load
  BY DEF WriteCtrl
<1>2. CASE Start(len) /\ load # 0
  <2>1. tick_ns' = len /\ count' = load /\ elapsed' = 0 /\ left' = (load + 1) * len
    BY <1>2 DEF Start
  <2>2. running' = TRUE /\ armed' = TRUE /\ rewritten' = FALSE
    BY <1>2 DEF Start
  <2>3. left' \in Int /\ left' >= -MaxLate /\ left' = (load' + 1) * tick_ns' - elapsed'
    BY <1>0, <1>1, <2>1, PeriodSplits
  <2>4. TimerTypeOK'
    BY <1>0, <1>1, <2>1, <2>2, <2>3, TypesAfter
  <2> QED BY <2>2, <2>3, <2>4 DEF TimerInv, WrapOnTime
<1>3. CASE Rescale(rel, len) /\ running
  <2>1. CurrentCount(rel) \in 0 .. load
    BY <1>0, <1>3, CurrentCountInRange
  <2>2. /\ count' = CurrentCount(rel) /\ tick_ns' = len
        /\ elapsed' = (load - count') * len /\ left' = (count' + 1) * len
    BY <1>3 DEF Rescale
  <2>3. running' = running /\ armed' = TRUE /\ rewritten' = FALSE
    BY <1>3 DEF Rescale
  <2>4. /\ count' \in Nat /\ elapsed' \in Nat /\ left' \in Int /\ left' >= -MaxLate
        /\ left' = (load' + 1) * tick_ns' - elapsed'
    BY <1>0, <1>1, <2>1, <2>2, PeriodSplits
  <2>5. TimerTypeOK'
    BY <1>0, <1>1, <1>3, <2>2, <2>3, <2>4, TypesAfter
  <2> QED BY <1>3, <2>3, <2>4, <2>5 DEF TimerInv, TimerTypeOK, WrapOnTime
<1>4. CASE Stop(rel)
  <2>1. count' = CurrentCount(rel) /\ left' = 0 /\ tick_ns' = tick_ns /\ elapsed' = elapsed
    BY <1>4 DEF Stop
  <2>2. running' = FALSE /\ armed' = FALSE /\ rewritten' = rewritten /\ rewritten \in BOOLEAN
    BY <1>4 DEF Stop, TimerInv, TimerTypeOK
  <2>3. count' \in Nat
    <3>1. CASE running
      BY <1>0, <2>1, <3>1, CurrentCountInRange
    <3>2. CASE ~ running
      BY <1>0, <2>1, <3>2 DEF CurrentCount
    <3> QED BY <3>1, <3>2
  <2>4. left' \in Int /\ left' >= -MaxLate
    BY <1>0, <2>1
  <2>5. TimerTypeOK'
    BY <1>0, <1>1, <2>1, <2>2, <2>3, <2>4, TypesAfter
  <2> QED BY <2>2, <2>5 DEF TimerInv, WrapOnTime
<1>5. CASE UNCHANGED <<count, running, tick_ns, elapsed, armed, left, rewritten>>
  <2>1. TimerTypeOK'
    BY <1>0, <1>1, <1>5, TypesAfter DEF TimerInv, TimerTypeOK
  <2> QED BY <1>1, <1>5, <2>1 DEF TimerInv, WrapOnTime
<1> QED BY <1>2, <1>3, <1>4, <1>5 DEF WriteCtrl, Start

\* Time passing moves the counter and the deadline together.
LEMMA AdvanceInv ==
  ASSUME TimerInv, Advance
  PROVE  TimerInv'
<1>0. /\ elapsed \in Nat /\ left \in Int /\ MaxLate \in Nat /\ load \in Nat /\ tick_ns \in Nat \ {0}
  BY Numbers DEF TimerInv
<1>1. elapsed' = elapsed + 1 /\ left' = left - 1 /\ left > -MaxLate
  BY DEF Advance
<1>2. /\ run_bits' = run_bits /\ reload' = reload /\ prescale' = prescale /\ load' = load
      /\ count' = count /\ running' = running /\ tick_ns' = tick_ns /\ armed' = armed
      /\ rewritten' = rewritten /\ writes' = writes /\ fired' = FALSE
  BY DEF Advance, ctrl
<1>3. elapsed' \in Nat /\ left' \in Int /\ left' >= -MaxLate
  BY <1>0, <1>1
<1>4. TimerTypeOK'
  BY <1>2, <1>3, TypesAfter DEF TimerInv, TimerTypeOK
<1>5. ASSUME left = (load + 1) * tick_ns - elapsed
      PROVE  left' = (load' + 1) * tick_ns' - elapsed'
  <2>1. (load + 1) * tick_ns \in Int
    BY <1>0
  <2> QED BY <1>0, <1>1, <1>2, <1>5, <2>1
<1> QED BY <1>2, <1>4, <1>5 DEF TimerInv, WrapOnTime

\* The deadline: a periodic timer starts a new period, a one-shot one stops.
LEMMA FireInv ==
  ASSUME TimerInv, Fire
  PROVE  TimerInv'
<1>0. /\ load \in Nat /\ tick_ns \in Nat \ {0} /\ MaxLate \in Nat /\ elapsed \in Nat
  BY Numbers DEF TimerInv
<1>1. /\ run_bits' = run_bits /\ reload' = reload /\ prescale' = prescale /\ load' = load
      /\ tick_ns' = tick_ns /\ writes' = writes /\ fired' = running
  BY DEF Fire, ctrl
<1>2. CASE reload
  <2>1. elapsed' = 0 /\ count' = load /\ left' = (load + 1) * tick_ns
    BY <1>2 DEF Fire
  <2>2. rewritten' = FALSE /\ running' = running /\ armed' = armed
    BY <1>2 DEF Fire
  <2>3. left' \in Int /\ left' >= -MaxLate /\ left' = (load' + 1) * tick_ns' - elapsed'
    BY <1>0, <1>1, <2>1, PeriodSplits
  <2>4. elapsed' \in Nat /\ count' \in Nat
    BY <1>0, <2>1
  <2>5. TimerTypeOK'
    BY <1>1, <2>2, <2>3, <2>4, TypesAfter DEF TimerInv, TimerTypeOK
  <2> QED BY <2>2, <2>3, <2>5 DEF TimerInv, WrapOnTime
<1>3. CASE ~ reload
  <2>1. running' = FALSE /\ armed' = FALSE /\ rewritten' = rewritten
    BY <1>3 DEF Fire
  <2>2. count' = 0 /\ left' = 0 /\ elapsed' = elapsed
    BY <1>3 DEF Fire
  <2>3. count' \in Nat /\ left' \in Int /\ left' >= -MaxLate /\ elapsed' \in Nat
    BY <1>0, <2>2
  <2>4. TimerTypeOK'
    BY <1>1, <2>1, <2>3, TypesAfter DEF TimerInv, TimerTypeOK
  <2> QED BY <2>1, <2>4 DEF TimerInv, WrapOnTime
<1> QED BY <1>2, <1>3

\* A load value written to a running timer is remembered as such.
LEMMA WriteLoadInv ==
  ASSUME TimerInv, NEW v \in Loads, WriteLoad(v)
  PROVE  TimerInv'
<1>1. /\ run_bits' = run_bits /\ reload' = reload /\ prescale' = prescale /\ load' = v
      /\ count' = count /\ running' = running /\ tick_ns' = tick_ns /\ armed' = armed
      /\ elapsed' = elapsed /\ left' = left /\ fired' = FALSE
  BY DEF WriteLoad, ctrl
<1>2. rewritten' \in BOOLEAN /\ (running /\ ~ rewritten' => ~ rewritten /\ v = load)
  BY DEF WriteLoad, TimerInv, TimerTypeOK
<1>3. writes' \in Nat
  BY DEF WriteLoad, TimerInv, TimerTypeOK
<1>4. TimerTypeOK'
  BY <1>1, <1>2, <1>3, TypesAfter DEF TimerInv, TimerTypeOK
<1> QED BY <1>1, <1>2, <1>4 DEF TimerInv, WrapOnTime

\* A reset disarms.
LEMMA ResetInv ==
  ASSUME TimerInv, Reset
  PROVE  TimerInv'
<1>1. /\ count' \in Nat /\ left' \in Int /\ left' >= -MaxLate /\ writes' \in Nat
      /\ load' \in Loads \cup {0}
  BY Numbers DEF Reset, TimerInv, TimerTypeOK
<1>2. prescale' \in TickLens
  BY TimerAssumption DEF TimerAssumption, Reset
<1>3. /\ run_bits' = FALSE /\ reload' = FALSE /\ running' = FALSE /\ armed' = FALSE
      /\ fired' = FALSE /\ rewritten' = rewritten /\ tick_ns' = tick_ns /\ elapsed' = elapsed
  BY DEF Reset
<1>4. TimerTypeOK'
  BY <1>1, <1>2, <1>3, TypesAfter DEF TimerInv, TimerTypeOK
<1> QED BY <1>3, <1>4 DEF TimerInv, WrapOnTime

\* Every register write, every moment and every deadline preserves TimerInv.
LEMMA TimerNextInv == TimerInv /\ [TimerNext]_timerVars => TimerInv'
<1> SUFFICES ASSUME TimerInv, [TimerNext]_timerVars PROVE TimerInv'
  OBVIOUS
<1>1. CASE UNCHANGED timerVars
  BY <1>1 DEF timerVars, ctrl, TimerInv, TimerTypeOK, WrapOnTime, CurrentCount
<1>2. CASE TimerNext
  BY <1>2, WriteCtrlInv, WriteLoadInv, ResetInv, AdvanceInv, FireInv
     DEF TimerNext, Registers, Clock
<1> QED BY <1>1, <1>2

\* The registers keep their types and the counter read lies between 0 and load.
THEOREM TimerTypeCorrectness == TimerSpec => []TimerTypeOK
<1>1. TimerInv => TimerTypeOK
  BY DEF TimerInv
<1> QED BY <1>1, TimerInitInv, TimerNextInv, PTL DEF TimerSpec

\* The interrupt of a timer (calypso_timer_tick) is due when the counter the
\* firmware reads wraps, for every load value and prescaler, however late the
\* main loop serves it; a stopped timer has none.
THEOREM InterruptAtWrap == TimerSpec => []WrapOnTime
<1>1. TimerInv => WrapOnTime
  BY DEF TimerInv
<1> QED BY <1>1, TimerInitInv, TimerNextInv, PTL DEF TimerSpec
=============================================================================
