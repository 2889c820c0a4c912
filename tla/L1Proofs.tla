------------------------------ MODULE L1Proofs ------------------------------
(***************************************************************************)
(* The agreement of the gr-gsm layer 1, the tap and the receiver on the     *)
(* dedicated channel, and the order of the blocks presented on it, for every *)
(* set of channels and every value of the limits.                           *)
(***************************************************************************)
EXTENDS L1Ccch, SequenceTheorems, WellFoundedInduction, TLAPS

\* PublishedIsGuarded is inductive once the guard is known to be a Boolean.
GuardInv == guard_armed \in BOOLEAN /\ PublishedIsGuarded

LEMMA GuardInitInv == Init => GuardInv
BY DEF Init, GuardInv, PublishedIsGuarded

\* dcch_cfg_publish(): the file names the channel, or the write failed.
LEMMA PublishSays ==
  ASSUME NEW c, Publish(c)
  PROVE  unsaid' \in BOOLEAN /\ (cfg' = c \/ unsaid' = TRUE)
BY DEF Publish

\* frame_complete(): a new channel is guarded and given its windows in one go,
\* and published; another message of it, or one of a TCH, keeps what there is.
LEMMA DataInv ==
  ASSUME GuardInv, NEW c, Data(c)
  PROVE  GuardInv'
<1>1. guard_armed' = TRUE
  BY DEF Data
<1>2. CASE c.kind # "tch" /\ c # last_chan
  BY <1>1, <1>2, PublishSays DEF Data, DcchSet, GuardInv, PublishedIsGuarded
<1>3. CASE ~ (c.kind # "tch" /\ c # last_chan)
  BY <1>1, <1>3 DEF Data, tap, GuardInv, PublishedIsGuarded
<1> QED BY <1>2, <1>3

\* calypso_l1ctl_tap_channel_released() forgets the channel, and the file names
\* none, or the write failed.
LEMMA ReleasedClears ==
  ASSUME GuardInv, Released
  PROVE  last_chan' = NoChan /\ (cfg' = NoChan \/ unsaid' = TRUE)
<1>1. CASE last_chan = NoChan
  BY <1>1 DEF GuardInv, PublishedIsGuarded, Released
<1>2. CASE last_chan # NoChan
  BY <1>2, PublishSays DEF Released
<1> QED BY <1>1, <1>2

\* The guard only ends together with the channel of the tap.
LEMMA FrameTickInv ==
  ASSUME GuardInv, NEW tc, NEW burst, FrameTick(tc, burst)
  PROVE  GuardInv'
<1>1. guard_armed' = (guard_armed /\ ~GuardExpires) /\ ss' = ss
  BY DEF FrameTick
<1>2. CASE GuardExpires
  BY <1>1, <1>2, ReleasedClears DEF FrameTick, GuardInv, PublishedIsGuarded
<1>3. CASE ~ GuardExpires
  BY <1>1, <1>3 DEF FrameTick, tap, GuardInv, PublishedIsGuarded
<1> QED BY <1>2, <1>3

\* Every step of the firmware, the receiver and the frame clock preserves it.
LEMMA GuardNextInv == GuardInv /\ [Next]_vars => GuardInv'
<1> SUFFICES ASSUME GuardInv, [Next]_vars PROVE GuardInv'
  OBVIOUS
<1>1. CASE UNCHANGED <<tap, ss, guard_armed>>
  BY <1>1 DEF tap, GuardInv, PublishedIsGuarded
<1>2. ASSUME NEW c \in Channels, Enter(c) PROVE GuardInv'
  BY <1>1, <1>2 DEF Enter, l1
<1>3. CASE SendData
  BY <1>3, DataInv DEF SendData
<1>4. CASE SendLate
  BY <1>4, DataInv DEF SendLate
<1>5. CASE Leave
  BY <1>1, <1>5 DEF Leave, l1
<1>6. CASE WriteReset
  BY <1>6, ReleasedClears DEF WriteReset, GuardInv, PublishedIsGuarded
<1>7. ASSUME NEW allc \in BOOLEAN, NEW uplink \in BOOLEAN, WritePage(allc, uplink) PROVE GuardInv'
  BY <1>1, <1>7 DEF WritePage
<1>8. CASE FeedCell
  BY <1>1, <1>8 DEF FeedCell, l1
<1>9. ASSUME NEW kind \in {"imm", "paging"}, FeedAgch(kind) PROVE GuardInv'
  BY <1>1, <1>9 DEF FeedAgch
<1>10. ASSUME NEW n, FeedSdcch(n) PROVE GuardInv'
  BY <1>1, <1>10 DEF FeedSdcch
<1>11. ASSUME NEW tc \in Tc, NEW burst \in Bursts, FrameTick(tc, burst) PROVE GuardInv'
  BY <1>11, FrameTickInv
<1>12. CASE UNCHANGED vars
  BY <1>1, <1>12 DEF vars, l1
<1> QED BY <1>2, <1>3, <1>4, <1>5, <1>6, <1>7, <1>8, <1>9, <1>10, <1>11, <1>12 DEF Next

\* For every set of channels and every guard time: while the tap holds a channel
\* the layer 1 guards it and uses its windows, whatever messages arrive late,
\* whenever the guard or a reset ends it and whichever writes of the file fail;
\* and the file the receiver reads names the channel of the tap unless the last
\* write failed (frame_complete, dcch_cfg_publish, dcch_si_guard, l1_reset).
THEOREM ChannelStaysGuarded == Spec => []PublishedIsGuarded
<1>1. GuardInv => PublishedIsGuarded
  BY DEF GuardInv
<1> QED BY <1>1, GuardInitInv, GuardNextInv, PTL DEF Spec

\* The ages and limits are numbers.
AgeInv == guard_age \in Nat

LEMMA AgeNextInv == AgeInv /\ [Next]_vars => AgeInv'
<1> SUFFICES ASSUME AgeInv, [Next]_vars PROVE AgeInv'
  OBVIOUS
<1>1. CASE UNCHANGED guard_age
  BY <1>1 DEF AgeInv
<1>2. ASSUME NEW c, Data(c) PROVE AgeInv'
  BY <1>2 DEF Data, AgeInv
<1>3. ASSUME NEW tc, NEW burst, FrameTick(tc, burst) PROVE AgeInv'
  <2>1. guard_age' \in {0, guard_age, Older(guard_age, GuardTicks)}
    BY <1>3 DEF FrameTick
  <2>2. Older(guard_age, GuardTicks) \in Nat
    BY DEF Older, AgeInv
  <2> QED BY <2>1, <2>2 DEF AgeInv
<1>4. ASSUME NEW allc \in BOOLEAN, NEW uplink \in BOOLEAN, WritePage(allc, uplink) PROVE AgeInv'
  BY <1>4 DEF WritePage, AgeInv
<1>5. CASE WriteReset
  BY <1>5 DEF WriteReset, AgeInv
<1>6. CASE SendData \/ SendLate
  BY <1>2, <1>6 DEF SendData, SendLate
<1>7. CASE Leave \/ FeedCell \/ \E c \in Channels : Enter(c)
  BY <1>1, <1>7 DEF Leave, FeedCell, Enter, l1
<1>8. ASSUME NEW kind, FeedAgch(kind) PROVE AgeInv'
  BY <1>1, <1>8 DEF FeedAgch
<1>9. ASSUME NEW n, FeedSdcch(n) PROVE AgeInv'
  BY <1>1, <1>9 DEF FeedSdcch
<1>10. CASE UNCHANGED vars
  BY <1>1, <1>10 DEF vars, l1
<1> QED BY <1>3, <1>4, <1>5, <1>6, <1>7, <1>8, <1>9, <1>10 DEF Next

\* While the guard runs neither of the two writers of a_cd chooses an SI.
LEMMA GuardedNeverSi == GuardInv /\ AgeInv => NoSiOnChannel
<1> SUFFICES ASSUME GuardInv, AgeInv, guard_armed, guard_age <= GuardTicks,
                    NEW tc \in Tc, NEW sacch \in BOOLEAN, NEW tch \in BOOLEAN
             PROVE  Written(tc, sacch, tch) # "si"
  BY DEF NoSiOnChannel
<1>1. ~ GuardExpires
  <2>1. GuardTicks \in Nat
    BY L1Assumption DEF L1Assumption
  <2>2. ~ (guard_age > GuardTicks)
    BY <2>1 DEF AgeInv
  <2> QED BY <2>2 DEF GuardExpires
<1>2. Presented(sacch, tch) # "si"
  BY <1>1, Zenon DEF Presented
<1>3. \A valid : Rest(tc, sacch, valid) # "si"
  BY <1>1, Zenon DEF Rest
<1>4. Dispatch(tc, 0).wrote # "si"
  BY DEF Dispatch
<1> DEFINE d == Dispatch(tc, 0)
<1>5. Written(tc, sacch, tch) \in {Rest(tc, sacch, d.valid), d.wrote, Presented(sacch, tch)}
  BY DEF Written
<1> QED BY <1>2, <1>3, <1>4, <1>5

\* A firmware on a channel whose guard runs is never shown a system information,
\* in whichever window and by whichever of the two writers (calypso_l1_frame_tick,
\* dispatch_allc).
THEOREM NeverSiWhileGuarded == Spec => []NoSiOnChannel
<1>1. Init => AgeInv
  BY DEF Init, AgeInv
<1> QED BY <1>1, GuardInitInv, GuardNextInv, AgeNextInv, GuardedNeverSi, PTL DEF Spec

-----------------------------------------------------------------------------
(* The ring of SDCCH blocks.                                                *)
Entry == [id : Nat, age : Nat, reps : Nat]

\* The blocks numbered up to Base have left the ring.
Base == sdcch_last - Len(ring)

\* The ring is a run of numbers up to the last one fed; every block before it was
\* presented or given up, and of its own only the first may have been presented.
RingInv ==
  /\ sdcch_last \in Nat /\ ring \in Seq(Entry) /\ Len(ring) <= sdcch_last
  /\ \A i \in 1 .. Len(ring) : ring[i].id = Base + i
  /\ 1 .. Base \subseteq shown \cup lost
  /\ lost \subseteq 1 .. Base /\ shown \subseteq 1 .. sdcch_last /\ \A n \in shown : n <= Base + 1
  /\ shown \cap lost = {}

LEMMA RingInitInv == Init => RingInv
<1> SUFFICES ASSUME Init PROVE RingInv
  OBVIOUS
<1>1. ring = <<>> /\ sdcch_last = 0 /\ shown = {} /\ lost = {} /\ Len(ring) = 0 /\ ring \in Seq(Entry)
  BY DEF Init
<1>2. sdcch_last = 0 /\ Len(ring) = 0
  BY <1>1
<1>3. Base = 0
  BY <1>2 DEF Base
<1> QED BY <1>1, <1>3 DEF RingInv

LEMMA RingInvImplies == RingInv => BlocksInOrder
<1> SUFFICES ASSUME RingInv PROVE BlocksInOrder
  OBVIOUS
<1> DEFINE n == Len(ring)  b == Base
           queued == {ring[i].id : i \in 1 .. Len(ring)}
<1>1. n \in Nat /\ sdcch_last \in Nat /\ n <= sdcch_last /\ b = sdcch_last - n
      /\ \A i \in 1 .. n : ring[i].id = b + i
  BY DEF RingInv, Base
<1>2. 1 .. b \subseteq shown \cup lost /\ lost \subseteq 1 .. b /\ shown \subseteq 1 .. sdcch_last
      /\ (\A k \in shown : k <= b + 1) /\ shown \cap lost = {}
  BY DEF RingInv
<1>3. queued = {ring[i].id : i \in 1 .. n}
  OBVIOUS
<1> HIDE DEF n, b, queued
<1>4. queued \subseteq 1 .. sdcch_last
  BY <1>1, <1>3
<1>5. ASSUME NEW k \in 1 .. sdcch_last PROVE k \in queued \cup shown \cup lost
  <2>1. CASE k <= b
    BY <1>1, <1>2, <2>1
  <2>2. CASE ~ (k <= b)
    <3>1. k - b \in 1 .. n /\ b + (k - b) = k
      BY <1>1, <2>2
    <3> QED BY <1>1, <1>3, <3>1
  <2> QED BY <2>1, <2>2
<1>6. lost \subseteq 1 .. sdcch_last
  BY <1>1, <1>2
<1>7. queued \cup shown \cup lost = 1 .. sdcch_last
  BY <1>2, <1>4, <1>5, <1>6
<1>8. \A m \in shown, k \in 1 .. sdcch_last : k < m => k \in shown \cup lost
  BY <1>1, <1>2
<1> QED BY <1>2, <1>7, <1>8 DEF BlocksInOrder, queued

LEMMA FirstNat ==
  ASSUME NEW T \in SUBSET Nat, T # {}
  PROVE  \E x \in T : \A y \in T : x <= y
<1> DEFINE R == OpToRel(<, Nat)
<1>1. IsWellFoundedOn(R, Nat)
  BY NatLessThanWellFounded, Zenon
<1>2. \A x, y \in Nat : y < x => <<y, x>> \in R
  BY DEF OpToRel
<1> HIDE DEF R
<1>3. PICK x \in T : \A y \in T : ~ (<<y, x>> \in R)
  BY <1>1, WFMin
<1>4. \A y \in T : ~ (y < x)
  BY <1>2, <1>3, Zenon
<1>5. \A y \in T : x <= y
  BY <1>4, T \subseteq Nat
<1>6. QED
  BY <1>5

\* The loop of dispatch_allc() stops somewhere.
LEMMA LiveType ==
  ASSUME NEW r \in Seq(Entry)
  PROVE  Live(r) \in 1 .. Len(r) + 1 /\ SdcchTtl \in Nat
<1> DEFINE T == {n \in 1 .. Len(r) + 1 : n <= Len(r) => r[n].age + 1 <= SdcchTtl}
<1>1. SdcchTtl \in Nat /\ Len(r) \in Nat /\ \A i \in 1 .. Len(r) : r[i].age \in Nat
  <2>1. SdcchTtl \in Nat /\ Len(r) \in Nat /\ \A i \in 1 .. Len(r) : r[i] \in Entry
    BY L1Assumption DEF L1Assumption
  <2>2. \A e \in Entry : e.age \in Nat
    BY DEF Entry
  <2> QED BY <2>1, <2>2
<1>2. Len(r) + 1 \in T /\ T \subseteq Nat
  BY <1>1
<1>3. PICK n \in T : \A m \in T : n <= m
  BY <1>2, FirstNat
<1>4. \A i \in 1 .. n - 1 : r[i].age + 1 > SdcchTtl
  <2> SUFFICES ASSUME NEW i \in 1 .. n - 1, ~ (r[i].age + 1 > SdcchTtl) PROVE FALSE
    OBVIOUS
  <2>1. i \in 1 .. Len(r) /\ ~ (n <= i)
    BY <1>1, <1>3
  <2>2. i \in T
    BY <1>1, <2>1
  <2> QED BY <1>3, <2>1, <2>2
<1> DEFINE D == 1 .. Len(r) + 1
           P(m) == /\ \A i \in 1 .. m - 1 : r[i].age + 1 > SdcchTtl
                   /\ m <= Len(r) => r[m].age + 1 <= SdcchTtl
<1>5. \E m \in D : P(m)
  BY <1>3, <1>4
<1>6. Live(r) = CHOOSE m \in D : P(m)
  BY DEF Live
<1> HIDE DEF D, P
<1>7. Live(r) \in D
  BY <1>5, <1>6
<1> QED BY <1>1, <1>7 DEF D

LEMMA AgedType ==
  ASSUME NEW r \in Seq(Entry)
  PROVE  /\ Aged(r) \in Seq(Entry) /\ Len(Aged(r)) = Len(r)
         /\ \A i \in 1 .. Len(r) : Aged(r)[i].id = r[i].id
<1>1. Len(r) \in Nat /\ \A i \in 1 .. Len(r) : r[i] \in Entry
  OBVIOUS
<1>2. SdcchTtl \in Nat
  BY L1Assumption DEF L1Assumption
<1>3. \A e \in Entry : [e EXCEPT !.age = Older(@, SdcchTtl)] \in Entry
                       /\ [e EXCEPT !.age = Older(@, SdcchTtl)].id = e.id
  BY <1>2 DEF Entry, Older
<1>4. Aged(r) \in [1 .. Len(r) -> Entry]
  BY <1>1, <1>3 DEF Aged
<1>5. Aged(r) \in Seq(Entry) /\ Len(Aged(r)) = Len(r)
  BY <1>1, <1>4
<1>6. \A i \in 1 .. Len(r) : Aged(r)[i].id = r[i].id
  BY <1>1, <1>3 DEF Aged
<1> QED BY <1>5, <1>6

LEMMA FreshType ==
  ASSUME NEW r \in Seq(Entry)
  PROVE  LET k == Live(r) - 1
         IN  /\ k \in 0 .. Len(r) /\ Fresh(r) \in Seq(Entry) /\ Len(Fresh(r)) = Len(r) - k
             /\ \A i \in 1 .. Len(r) - k : Fresh(r)[i].id = r[i + k].id
<1> DEFINE m == Live(r)  t == SubSeq(r, m, Len(r))
<1>1. m \in 1 .. Len(r) + 1 /\ Len(r) \in Nat
  BY LiveType
<1>2. Fresh(r) = Aged(t)
  BY DEF Fresh
<1> HIDE DEF m
<1>3. t \in Seq(Entry) /\ Len(t) = Len(r) - (m - 1) /\ \A i \in 1 .. Len(r) - (m - 1) : t[i] = r[i + (m - 1)]
  BY <1>1
<1> HIDE DEF t
<1>4. Aged(t) \in Seq(Entry) /\ Len(Aged(t)) = Len(t) /\ \A i \in 1 .. Len(t) : Aged(t)[i].id = t[i].id
  BY <1>3, AgedType
<1>5. \A i \in 1 .. Len(r) - (m - 1) : Aged(t)[i].id = r[i + (m - 1)].id
  BY <1>3, <1>4
<1> QED BY <1>1, <1>2, <1>3, <1>4, <1>5 DEF m

\* The ring gives up its first k blocks, of which all that were not presented are
\* lost, and may present the next, which then may leave it too.
LEMMA RingServed ==
  ASSUME RingInv, UNCHANGED sdcch_last,
         NEW k \in 0 .. Len(ring), NEW m \in k .. k + 1, m <= Len(ring),
         NEW S \in SUBSET {Base + k + 1}, S # {} => k < Len(ring), m = k + 1 => Base + k + 1 \in S,
         ring' \in Seq(Entry), Len(ring') = Len(ring) - m,
         \A i \in 1 .. Len(ring') : ring'[i].id = ring[i + m].id,
         shown' = shown \cup S, lost' = lost \cup ((Base + 1 .. Base + k) \ shown)
  PROVE  RingInv'
<1> DEFINE n == Len(ring)  b == Base
<1>1. n \in Nat /\ sdcch_last \in Nat /\ n <= sdcch_last /\ b = sdcch_last - n /\ b \in Nat
      /\ \A i \in 1 .. n : ring[i].id = b + i
  BY DEF RingInv, Base
<1>2. 1 .. b \subseteq shown \cup lost /\ lost \subseteq 1 .. b /\ shown \subseteq 1 .. sdcch_last
      /\ (\A j \in shown : j <= b + 1) /\ shown \cap lost = {}
  BY DEF RingInv
<1>3. Base' = b + m /\ Len(ring') = n - m /\ sdcch_last' = sdcch_last
  BY <1>1 DEF Base
<1>4. \A i \in 1 .. n - m : ring'[i].id = b + m + i
  BY <1>1, <1>3
<1> HIDE DEF n, b
<1>5. S \subseteq {b + k + 1} /\ (S # {} => k < n) /\ (m = k + 1 => b + k + 1 \in S) /\ m <= n
      /\ k \in 0 .. n /\ lost' = lost \cup ((b + 1 .. b + k) \ shown)
  BY DEF n, b
<1>6. 1 .. b + m \subseteq shown' \cup lost'
  <2> SUFFICES ASSUME NEW j \in 1 .. b + m PROVE j \in shown' \cup lost'
    OBVIOUS
  <2>1. j \in 1 .. b \/ j \in b + 1 .. b + k \/ (j = b + k + 1 /\ m = k + 1)
    BY <1>1
  <2> QED BY <1>2, <1>5, <2>1
<1>7. lost' \subseteq 1 .. b + m /\ shown' \cap lost' = {}
  <2> SUFFICES ASSUME NEW j \in lost' PROVE j \in 1 .. b + m /\ j \notin shown'
    OBVIOUS
  <2>1. j \in lost \/ (j \in b + 1 .. b + k /\ j \notin shown)
    BY <1>5
  <2>2. j \in 1 .. b + k /\ j \notin shown
    BY <1>1, <1>2, <2>1
  <2>3. j # b + k + 1 /\ j \in 1 .. b + m
    BY <1>1, <2>2
  <2> QED BY <1>5, <2>2, <2>3
<1>8. shown' \subseteq 1 .. sdcch_last /\ \A j \in shown' : j <= b + m + 1
  BY <1>1, <1>2, <1>5
<1>9. n - m <= sdcch_last
  BY <1>1
<1> QED BY <1>1, <1>3, <1>4, <1>6, <1>7, <1>8, <1>9 DEF RingInv

\* A block fed: the next number, at the end.
LEMMA FeedSdcchRing ==
  ASSUME RingInv, FeedSdcch(sdcch_last + 1)
  PROVE  RingInv'
<1> DEFINE n == Len(ring)  b == Base
           new == [id |-> sdcch_last + 1, age |-> 0, reps |-> 0]
<1>1. n \in Nat /\ sdcch_last \in Nat /\ n <= sdcch_last /\ b = sdcch_last - n /\ b \in Nat
      /\ ring \in Seq(Entry) /\ \A i \in 1 .. n : ring[i].id = b + i
  BY DEF RingInv, Base
<1>2. 1 .. b \subseteq shown \cup lost /\ lost \subseteq 1 .. b /\ shown \subseteq 1 .. sdcch_last
      /\ (\A j \in shown : j <= b + 1) /\ shown \cap lost = {}
  BY DEF RingInv
<1>3. new \in Entry /\ new.id = sdcch_last + 1
  BY <1>1 DEF Entry
<1>4. sdcch_last' = sdcch_last + 1 /\ shown' = shown
  BY DEF FeedSdcch
<1>5. CASE n >= RingN
  <2>1. ring' = Append(Tail(ring), new) /\ lost' = lost \cup Unshown(ring[1]) /\ n >= 1
    BY <1>1, <1>5, L1Assumption DEF FeedSdcch, L1Assumption
  <2> DEFINE t == Tail(ring)
  <2>2. t \in Seq(Entry) /\ Len(t) = n - 1 /\ \A i \in 1 .. n - 1 : t[i] = ring[i + 1]
    BY <1>1, <2>1
  <2> HIDE DEF t, new
  <2>3. ring' = Append(t, new)
    BY <2>1 DEF t
  <2>4. ring' \in Seq(Entry) /\ Len(ring') = n /\ ring'[n] = new /\ \A i \in 1 .. n - 1 : ring'[i] = t[i]
    BY <1>1, <1>3, <2>1, <2>2, <2>3
  <2>5. Base' = b + 1
    BY <1>1, <1>4, <2>4 DEF Base
  <2> HIDE DEF n, b
  <2>6. \A i \in 1 .. n : ring'[i].id = b + 1 + i
    <3> SUFFICES ASSUME NEW i \in 1 .. n PROVE ring'[i].id = b + 1 + i
      OBVIOUS
    <3>1. CASE i = n
      BY <1>1, <1>3, <2>4, <3>1
    <3>2. CASE i # n
      <4>1. i \in 1 .. n - 1 /\ i + 1 \in 1 .. n
        BY <1>1, <3>2
      <4>2. ring'[i] = ring[i + 1] /\ ring[i + 1].id = b + (i + 1)
        BY <1>1, <2>2, <2>4, <4>1
      <4> QED BY <1>1, <4>2
    <3> QED BY <3>1, <3>2
  <2>7. Unshown(ring[1]) = {b + 1} \ shown
    BY <1>1, <2>1 DEF Unshown
  <2>8. 1 .. b + 1 \subseteq shown' \cup lost'
    <3> SUFFICES ASSUME NEW j \in 1 .. b + 1 PROVE j \in shown' \cup lost'
      OBVIOUS
    <3>1. j \in 1 .. b \/ j = b + 1
      BY <1>1
    <3> QED BY <1>2, <1>4, <2>1, <2>7, <3>1
  <2>9. lost' \subseteq 1 .. b + 1 /\ shown' \cap lost' = {}
    BY <1>1, <1>2, <1>4, <2>1, <2>7
  <2>10. shown' \subseteq 1 .. sdcch_last' /\ (\A j \in shown' : j <= b + 1 + 1) /\ n <= sdcch_last'
         /\ sdcch_last' \in Nat
    BY <1>1, <1>2, <1>4
  <2> QED BY <2>4, <2>5, <2>6, <2>8, <2>9, <2>10 DEF RingInv
<1>6. CASE ~ (n >= RingN)
  <2>1. ring' = Append(ring, new) /\ lost' = lost
    BY <1>6 DEF FeedSdcch
  <2> HIDE DEF new
  <2>2. ring' \in Seq(Entry) /\ Len(ring') = n + 1 /\ ring'[n + 1] = new
        /\ \A i \in 1 .. n : ring'[i] = ring[i]
    BY <1>1, <1>3, <2>1
  <2>3. Base' = b
    BY <1>1, <1>4, <2>2 DEF Base
  <2> HIDE DEF n, b
  <2>4. \A i \in 1 .. n + 1 : ring'[i].id = b + i
    BY <1>1, <1>3, <2>2
  <2>5. shown' \subseteq 1 .. sdcch_last' /\ n + 1 <= sdcch_last' /\ sdcch_last' \in Nat
    BY <1>1, <1>2, <1>4
  <2> QED BY <1>2, <1>4, <2>1, <2>2, <2>3, <2>4, <2>5 DEF RingInv
<1> QED BY <1>5, <1>6

\* The expired blocks at the head of the ring.
LEMMA DroppedIds ==
  ASSUME RingInv, NEW d, d.wrote # "agch"
  PROVE  Dropped(d) = ((Base + 1) .. (Base + (Live(ring) - 1))) \ shown
<1> DEFINE k == Live(ring) - 1  b == Base
<1>1. ring \in Seq(Entry) /\ Len(ring) \in Nat /\ b \in Nat /\ \A i \in 1 .. Len(ring) : ring[i].id = b + i
  BY DEF RingInv, Base
<1>3. k \in 0 .. Len(ring)
  BY <1>1, LiveType
<1>4. Dropped(d) = UNION {Unshown(ring[i]) : i \in 1 .. k}
  BY DEF Dropped
<1> HIDE DEF k, b
<1>5. \A i \in 1 .. k : Unshown(ring[i]) = {b + i} \ shown
  BY <1>1, <1>3 DEF Unshown
<1>6. ASSUME NEW j \in Dropped(d) PROVE j \in (b + 1 .. b + k) \ shown
  <2>1. PICK i \in 1 .. k : j \in Unshown(ring[i])
    BY <1>4
  <2>2. j = b + i /\ j \notin shown
    BY <1>5, <2>1
  <2> QED BY <1>1, <1>3, <2>2
<1>7. ASSUME NEW j \in (b + 1 .. b + k) \ shown PROVE j \in Dropped(d)
  <2>1. j - b \in 1 .. k /\ b + (j - b) = j
    BY <1>1, <1>3
  <2>2. j \in Unshown(ring[j - b])
    BY <1>5, <2>1
  <2> QED BY <1>4, <2>1, <2>2
<1>8. Dropped(d) = (b + 1 .. b + k) \ shown
  BY <1>6, <1>7
<1> QED BY <1>8 DEF b, k

\* The ring after its first block was presented: the block may have left it.
LEMMA AfterPresentedType ==
  ASSUME NEW r \in Seq(Entry), r # <<>>, NEW burst
  PROVE  \E m \in {0, 1} :
           /\ AfterPresented(r, burst) \in Seq(Entry) /\ Len(AfterPresented(r, burst)) = Len(r) - m
           /\ \A i \in 1 .. Len(r) - m : AfterPresented(r, burst)[i].id = r[i + m].id
<1>1. Len(r) \in Nat /\ Len(r) >= 1 /\ \A i \in 1 .. Len(r) : r[i] \in Entry
  BY EmptySeq
<1>2. CASE AfterPresented(r, burst) = Tail(r)
  <2> DEFINE t == Tail(r)
  <2>1. t \in Seq(Entry) /\ Len(t) = Len(r) - 1 /\ \A i \in 1 .. Len(r) - 1 : t[i] = r[i + 1]
    BY <1>1
  <2> QED BY <1>2, <2>1
<1>3. CASE AfterPresented(r, burst) = [r EXCEPT ![1].reps = @ + 1]
  <2> DEFINE e == [r[1] EXCEPT !.reps = @ + 1]  u == [r EXCEPT ![1] = e]
  <2>1. e \in Entry /\ e.id = r[1].id
    <3>1. r[1] \in Entry
      BY <1>1
    <3>2. r[1].reps + 1 \in Nat
      BY <3>1 DEF Entry
    <3>3. e = [r[1] EXCEPT !.reps = r[1].reps + 1]
      OBVIOUS
    <3>4. \A f \in Entry, n \in Nat :
            [f EXCEPT !.reps = n] \in Entry /\ [f EXCEPT !.reps = n].id = f.id
      BY DEF Entry
    <3> QED BY <3>1, <3>2, <3>3, <3>4
  <2>2. AfterPresented(r, burst) = u
    BY <1>3
  <2> HIDE DEF e
  <2>3. u \in Seq(Entry) /\ Len(u) = Len(r) - 0 /\ \A i \in 1 .. Len(r) - 0 : u[i].id = r[i + 0].id
    BY <1>1, <2>1
  <2> QED BY <2>2, <2>3
<1> QED BY <1>2, <1>3 DEF AfterPresented

\* dispatch_allc() and the ageing of the ring.
LEMMA ServeTasksRing ==
  ASSUME RingInv, NEW tc, NEW burst, ServeTasks(tc, burst), UNCHANGED sdcch_last
  PROVE  RingInv'
<1> DEFINE a == Aged(ring)  k == Live(ring) - 1  r == Fresh(ring)  b == Base
           d == Dispatch(tc, burst)
<1>1. ring \in Seq(Entry) /\ Len(ring) \in Nat /\ b \in Nat /\ \A i \in 1 .. Len(ring) : ring[i].id = b + i
  BY DEF RingInv, Base
<1>2. a \in Seq(Entry) /\ Len(a) = Len(ring) /\ \A i \in 1 .. Len(ring) : a[i].id = ring[i].id
  BY <1>1, AgedType
<1>3. k \in 0 .. Len(ring) /\ r \in Seq(Entry) /\ Len(r) = Len(ring) - k
  BY <1>1, FreshType
<1>4. \A i \in 1 .. Len(ring) - k : r[i].id = ring[i + k].id
  BY <1>1, FreshType
<1>5. CASE ring' = ring /\ shown' = shown /\ lost' = lost
  BY <1>5 DEF RingInv, Base
<1>6. CASE ring' = a /\ shown' = shown /\ lost' = lost
  <2>1. Base' = b
    BY <1>2, <1>6 DEF Base
  <2> QED BY <1>1, <1>2, <1>6, <2>1 DEF RingInv
<1>7. CASE pending /\ task
  <2>1. ring' = d.ring /\ shown' = shown \cup (IF d.wrote = "sdcch" THEN {r[1].id} ELSE {})
        /\ lost' = lost \cup Dropped(d)
    BY <1>7 DEF ServeTasks
  <2>2. \/ d.wrote = "agch" /\ d.ring = a
        \/ d.wrote = "sdcch" /\ d.ring = AfterPresented(r, burst) /\ r # <<>>
        \/ d.wrote = "rest" /\ d.ring = r
    BY DEF Dispatch
  <2> HIDE DEF d, a, r, k, b
  <2>3. CASE d.wrote = "agch" /\ d.ring = a
    BY <1>6, <2>1, <2>3 DEF Dropped
  <2>4. d.wrote # "agch" => Dropped(d) = (b + 1 .. b + k) \ shown
    BY DroppedIds DEF b, k
  <2>5. CASE d.wrote = "sdcch" /\ d.ring = AfterPresented(r, burst) /\ r # <<>>
    <3>1. PICK m \in {0, 1} :
            /\ ring' \in Seq(Entry) /\ Len(ring') = Len(r) - m
            /\ \A i \in 1 .. Len(r) - m : ring'[i].id = r[i + m].id
      <4>1. ring' = AfterPresented(r, burst) /\ r \in Seq(Entry) /\ r # <<>>
        BY <1>3, <2>1, <2>5
      <4> QED BY <4>1, AfterPresentedType
    <3>2. Len(r) >= 1 /\ k < Len(ring) /\ r[1].id = b + k + 1
      <4> DEFINE n == Len(ring)  l == Len(r)
      <4>1. l # 0
        BY <1>3, <2>5, EmptySeq
      <4>2. n \in Nat /\ k \in 0 .. n /\ l = n - k
        BY <1>1, <1>3
      <4> HIDE DEF n, l
      <4>3. l >= 1 /\ k < n /\ 1 + k \in 1 .. n /\ 1 \in 1 .. n - k /\ b + (1 + k) = b + k + 1
        BY <1>1, <4>1, <4>2
      <4>4. r[1].id = ring[1 + k].id /\ ring[1 + k].id = b + (1 + k)
        BY <1>1, <1>4, <4>3 DEF n
      <4> QED BY <4>3, <4>4 DEF n, l
    <3> DEFINE p == k + m
    <3>3. p \in k .. k + 1 /\ p <= Len(ring) /\ Len(ring') = Len(ring) - p /\ (p = k + 1 => m = 1)
      BY <1>1, <1>3, <3>1, <3>2
    <3>4. \A i \in 1 .. Len(ring') : ring'[i].id = ring[i + p].id
      <4> SUFFICES ASSUME NEW i \in 1 .. Len(ring') PROVE ring'[i].id = ring[i + p].id
        OBVIOUS
      <4>1. i \in 1 .. Len(r) - m /\ i + m \in 1 .. Len(ring) - k /\ (i + m) + k = i + p
        BY <1>1, <1>3, <3>1, <3>3
      <4> QED BY <1>4, <3>1, <4>1
    <3> HIDE DEF p
    <3>5. shown' = shown \cup {b + k + 1} /\ lost' = lost \cup ((b + 1 .. b + k) \ shown)
      BY <2>1, <2>4, <2>5, <3>2
    <3> QED BY <1>3, <3>1, <3>2, <3>3, <3>4, <3>5, RingServed DEF b
  <2>6. CASE d.wrote = "rest" /\ d.ring = r
    <3>1. ring' = r /\ shown' = shown \cup {} /\ lost' = lost \cup ((b + 1 .. b + k) \ shown)
      BY <2>1, <2>4, <2>6
    <3>2. k \in k .. k + 1 /\ k <= Len(ring) /\ k # k + 1
      BY <1>1, <1>3
    <3>3. ring' \in Seq(Entry) /\ Len(ring') = Len(ring) - k
          /\ \A i \in 1 .. Len(ring') : ring'[i].id = ring[i + k].id
      BY <1>3, <1>4, <3>1
    <3> QED BY <1>3, <3>1, <3>2, <3>3, RingServed DEF b
  <2> QED BY <2>2, <2>3, <2>5, <2>6
<1> QED BY <1>5, <1>6, <1>7 DEF ServeTasks

\* Every step preserves RingInv.
LEMMA RingNextInv == RingInv /\ [Next]_vars => RingInv'
<1> SUFFICES ASSUME RingInv, [Next]_vars PROVE RingInv'
  OBVIOUS
<1>1. CASE UNCHANGED <<ring, sdcch_last, shown, lost>>
  BY <1>1 DEF RingInv, Base
<1>2. ASSUME NEW c \in Channels, Enter(c) PROVE RingInv'
  BY <1>1, <1>2 DEF Enter, l1, hist
<1>3. CASE SendData \/ SendLate
  BY <1>1, <1>3 DEF SendData, SendLate, Data, hist
<1>4. CASE Leave \/ WriteReset \/ FeedCell
  BY <1>1, <1>4 DEF Leave, WriteReset, FeedCell, l1, hist
<1>5. ASSUME NEW allc \in BOOLEAN, NEW uplink \in BOOLEAN, WritePage(allc, uplink) PROVE RingInv'
  BY <1>1, <1>5 DEF WritePage, hist
<1>6. ASSUME NEW kind \in {"imm", "paging"}, FeedAgch(kind) PROVE RingInv'
  BY <1>1, <1>6 DEF FeedAgch, hist
<1>7. ASSUME NEW n \in {sdcch_last, sdcch_last + 1}, FeedSdcch(n) PROVE RingInv'
  <2>1. n # sdcch_last
    BY <1>7 DEF FeedSdcch
  <2> QED BY <1>7, <2>1, FeedSdcchRing
<1>8. ASSUME NEW tc \in Tc, NEW burst \in Bursts, FrameTick(tc, burst) PROVE RingInv'
  BY <1>8, ServeTasksRing DEF FrameTick
<1>9. CASE UNCHANGED vars
  BY <1>1, <1>9 DEF vars, l1, hist
<1> QED BY <1>2, <1>3, <1>4, <1>5, <1>6, <1>7, <1>8, <1>9 DEF Next

\* For every ring size, life time and number of presentations: every SDCCH block
\* fed is queued, was presented or was given up, and blocks are presented in the
\* order of their arrival (feed_sdcch, dispatch_allc).
THEOREM BlocksStayInOrder == Spec => []BlocksInOrder
BY RingInitInv, RingNextInv, RingInvImplies, PTL DEF Spec
-----------------------------------------------------------------------------
(* The types and the limits.                                                *)
Slot == [id : 1 .. MaxBlocks, age : 0 .. SdcchTtl + 1, reps : 0 .. MaxPresent - 1]

Limits ==
  /\ AgchTtl \in Nat /\ SdcchTtl \in Nat /\ GuardTicks \in Nat /\ RingN \in Nat /\ RingN >= 1
  /\ MaxPresent \in Nat /\ MaxPresent >= 1 /\ MaxBlocks \in Nat

LEMMA LimitsHold == Limits
  BY L1Assumption DEF L1Assumption, Limits

LEMMA SlotFields ==
  /\ Slot \subseteq Entry
  /\ \A e \in Slot : /\ e.age \in Nat /\ e.age <= SdcchTtl + 1
                     /\ e.reps \in Nat /\ e.reps <= MaxPresent - 1
<1>1. SdcchTtl \in Nat /\ MaxPresent \in Nat /\ MaxBlocks \in Nat
  BY LimitsHold DEF Limits
<1> QED BY <1>1 DEF Slot, Entry

LEMMA OlderType ==
  ASSUME NEW n \in Nat, NEW ttl \in Nat, n <= ttl + 1
  PROVE  Older(n, ttl) \in Nat /\ Older(n, ttl) <= ttl + 1
  BY DEF Older

LEMMA AgedSlots ==
  ASSUME NEW r \in Seq(Slot)
  PROVE  Aged(r) \in Seq(Slot) /\ Len(Aged(r)) = Len(r)
<1>1. Len(r) \in Nat /\ \A i \in 1 .. Len(r) : r[i] \in Slot
  OBVIOUS
<1>2. ASSUME NEW e \in Slot PROVE [e EXCEPT !.age = Older(@, SdcchTtl)] \in Slot
  <2>1. SdcchTtl \in Nat
    BY LimitsHold DEF Limits
  <2>2. Older(e.age, SdcchTtl) \in Nat /\ Older(e.age, SdcchTtl) <= SdcchTtl + 1
    BY <2>1, SlotFields, OlderType
  <2>3. Older(e.age, SdcchTtl) \in 0 .. SdcchTtl + 1
    BY <2>1, <2>2
  <2> QED BY <2>3 DEF Slot
<1>3. Aged(r) \in [1 .. Len(r) -> Slot]
  BY <1>1, <1>2 DEF Aged
<1> QED BY <1>1, <1>3

LEMMA FreshSlots ==
  ASSUME NEW r \in Seq(Slot)
  PROVE  Fresh(r) \in Seq(Slot) /\ Len(Fresh(r)) <= Len(r)
<1> DEFINE m == Live(r)  t == SubSeq(r, m, Len(r))
<1>1. r \in Seq(Entry)
  <2>1. Len(r) \in Nat /\ r \in [1 .. Len(r) -> Slot]
    OBVIOUS
  <2>2. r \in [1 .. Len(r) -> Entry]
    BY <2>1, SlotFields
  <2> QED BY <2>1, <2>2
<1>2. m \in 1 .. Len(r) + 1 /\ Len(r) \in Nat
  BY <1>1, LiveType
<1>3. Fresh(r) = Aged(t)
  BY DEF Fresh
<1> HIDE DEF m
<1>4. t \in Seq(Slot) /\ Len(t) = Len(r) - (m - 1)
  BY <1>2
<1> HIDE DEF t
<1>5. Aged(t) \in Seq(Slot) /\ Len(Aged(t)) = Len(t)
  BY <1>4, AgedSlots
<1> QED BY <1>2, <1>3, <1>4, <1>5

LEMMA PresentedSlots ==
  ASSUME NEW r \in Seq(Slot), r # <<>>, NEW burst
  PROVE  AfterPresented(r, burst) \in Seq(Slot) /\ Len(AfterPresented(r, burst)) <= Len(r)
<1>1. Len(r) \in Nat /\ Len(r) >= 1 /\ r[1] \in Slot
  BY EmptySeq
<1>2. CASE AfterPresented(r, burst) = Tail(r)
  BY <1>1, <1>2
<1>3. CASE ~ (burst >= 3 \/ r[1].reps + 1 >= MaxPresent) /\ AfterPresented(r, burst) = [r EXCEPT ![1].reps = @ + 1]
  <2> DEFINE e == [r[1] EXCEPT !.reps = @ + 1]  u == [r EXCEPT ![1] = e]
  <2>1. r[1].reps + 1 \in 0 .. MaxPresent - 1
    <3>1. r[1].reps \in Nat /\ ~ (r[1].reps + 1 >= MaxPresent)
      BY <1>1, <1>3, SlotFields
    <3>2. MaxPresent \in Nat
      BY LimitsHold DEF Limits
    <3> QED BY <3>1, <3>2
  <2>2. e \in Slot
    BY <1>1, <2>1 DEF Slot
  <2>3. AfterPresented(r, burst) = u
    BY <1>3
  <2> HIDE DEF e
  <2>4. u \in Seq(Slot) /\ Len(u) = Len(r)
    BY <1>1, <2>2
  <2> QED BY <1>1, <2>3, <2>4
<1> QED BY <1>2, <1>3 DEF AfterPresented

SlotInv == ring \in Seq(Slot) /\ Len(ring) <= RingN /\ sdcch_last \in Nat /\ sdcch_last <= MaxBlocks

LEMMA ServeTasksSlots ==
  ASSUME SlotInv, NEW tc, NEW burst, ServeTasks(tc, burst)
  PROVE  ring' \in Seq(Slot) /\ Len(ring') <= RingN
<1> DEFINE d == Dispatch(tc, burst)  r == Fresh(ring)
<1>1. ring \in Seq(Slot) /\ Len(ring) <= RingN /\ RingN \in Nat /\ Len(ring) \in Nat
  BY LimitsHold DEF SlotInv, Limits
<1>2. r \in Seq(Slot) /\ Len(r) <= Len(ring) /\ Len(r) \in Nat
  BY <1>1, FreshSlots
<1>3. Aged(ring) \in Seq(Slot) /\ Len(Aged(ring)) = Len(ring)
  BY <1>1, AgedSlots
<1>4. r # <<>> => AfterPresented(r, burst) \in Seq(Slot) /\ Len(AfterPresented(r, burst)) <= Len(r)
  BY <1>2, PresentedSlots
<1>5. \/ d.ring = Aged(ring)
      \/ d.ring = AfterPresented(r, burst) /\ r # <<>>
      \/ d.ring = r
  BY DEF Dispatch
<1>6. ring' = ring \/ ring' = Aged(ring) \/ ring' = d.ring
  BY DEF ServeTasks
<1> HIDE DEF d, r
<1>7. CASE ring' = AfterPresented(r, burst) /\ r # <<>>
  <2>1. Len(ring') \in Nat
    BY <1>4, <1>7
  <2> QED BY <1>1, <1>2, <1>4, <1>7, <2>1
<1>8. CASE ring' = ring \/ ring' = Aged(ring) \/ ring' = r
  BY <1>1, <1>2, <1>3, <1>8
<1> QED BY <1>5, <1>6, <1>7, <1>8

LEMMA FeedSlots ==
  ASSUME SlotInv, FeedSdcch(sdcch_last + 1)
  PROVE  SlotInv'
<1> DEFINE n == sdcch_last + 1  new == [id |-> n, age |-> 0, reps |-> 0]
           q == IF Len(ring) >= RingN THEN Tail(ring) ELSE ring
<1>1. ring \in Seq(Slot) /\ Len(ring) <= RingN /\ sdcch_last \in Nat /\ Len(ring) \in Nat /\ Limits
  BY LimitsHold DEF SlotInv
<1>2. n <= MaxBlocks /\ sdcch_last' = n /\ ring' = Append(q, new)
  BY DEF FeedSdcch
<1>3. n \in 1 .. MaxBlocks /\ 0 \in 0 .. SdcchTtl + 1 /\ 0 \in 0 .. MaxPresent - 1 /\ n \in Nat
  BY <1>1, <1>2 DEF Limits
<1>4. new \in Slot
  BY <1>3 DEF Slot
<1>5. q \in Seq(Slot) /\ Len(q) + 1 <= RingN
  <2>1. CASE Len(ring) >= RingN
    <3>1. ring # <<>> /\ Len(ring) = RingN
      BY <1>1, <2>1 DEF Limits
    <3>2. Tail(ring) \in Seq(Slot) /\ Len(Tail(ring)) = Len(ring) - 1
      BY <1>1, <3>1
    <3> QED BY <1>1, <2>1, <3>1, <3>2
  <2>2. CASE ~ (Len(ring) >= RingN)
    BY <1>1, <2>2 DEF Limits
  <2> QED BY <2>1, <2>2
<1> HIDE DEF new, q
<1>6. ring' \in Seq(Slot) /\ Len(ring') = Len(q) + 1
  BY <1>2, <1>4, <1>5
<1> QED BY <1>2, <1>3, <1>5, <1>6 DEF SlotInv

LEMMA SlotNextInv == SlotInv /\ [Next]_vars => SlotInv'
<1> SUFFICES ASSUME SlotInv, [Next]_vars PROVE SlotInv'
  OBVIOUS
<1>1. CASE UNCHANGED <<ring, sdcch_last>>
  BY <1>1 DEF SlotInv
<1>2. ASSUME NEW c \in Channels, Enter(c) PROVE SlotInv'
  BY <1>1, <1>2 DEF Enter, l1
<1>3. CASE SendData \/ SendLate
  BY <1>1, <1>3 DEF SendData, SendLate, Data
<1>4. CASE Leave \/ WriteReset \/ FeedCell
  BY <1>1, <1>4 DEF Leave, WriteReset, FeedCell, l1
<1>5. ASSUME NEW allc \in BOOLEAN, NEW uplink \in BOOLEAN, WritePage(allc, uplink) PROVE SlotInv'
  BY <1>1, <1>5 DEF WritePage
<1>6. ASSUME NEW kind \in {"imm", "paging"}, FeedAgch(kind) PROVE SlotInv'
  BY <1>1, <1>6 DEF FeedAgch
<1>7. ASSUME NEW n \in {sdcch_last, sdcch_last + 1}, FeedSdcch(n) PROVE SlotInv'
  <2>1. n # sdcch_last
    BY <1>7 DEF FeedSdcch
  <2> QED BY <1>7, <2>1, FeedSlots
<1>8. ASSUME NEW tc \in Tc, NEW burst \in Bursts, FrameTick(tc, burst) PROVE SlotInv'
  <2>1. ServeTasks(tc, burst) /\ UNCHANGED sdcch_last
    BY <1>8 DEF FrameTick
  <2> QED BY <2>1, ServeTasksSlots DEF SlotInv
<1>9. CASE UNCHANGED vars
  BY <1>1, <1>9 DEF vars, l1
<1> QED BY <1>2, <1>3, <1>4, <1>5, <1>6, <1>7, <1>8, <1>9 DEF Next
\* The rest of the types.
Chans == Channels \cup {NoChan}
Contents == Channels \cup {NoChan, Empty}
FlagInv ==
  /\ pending \in BOOLEAN /\ task \in BOOLEAN /\ sb_valid \in BOOLEAN /\ si_valid \in BOOLEAN
  /\ sdcch_valid \in BOOLEAN /\ guard_armed \in BOOLEAN
TapInv ==
  /\ ss \in {"unset", "sdcch4", "sdcch8"}
  /\ last_chan \in Chans /\ mode \in Chans /\ late \in Chans
  /\ cfg \in Contents /\ unsaid \in BOOLEAN
TimeInv ==
  /\ agch \in {"none", "imm", "paging"} /\ agch_age \in Nat /\ agch_age <= AgchTtl + 1
  /\ guard_age \in Nat /\ guard_age <= GuardTicks + 1

LEMMA FlagNextInv == FlagInv /\ [Next]_vars => FlagInv'
<1> SUFFICES ASSUME FlagInv, [Next]_vars PROVE FlagInv'
  OBVIOUS
<1> USE DEF FlagInv
<1>1. CASE UNCHANGED <<pages, feed, sdcch_valid, guard_armed>>
  BY <1>1 DEF pages, feed
<1>2. ASSUME NEW c \in Channels, Enter(c) PROVE FlagInv'
  BY <1>1, <1>2 DEF Enter, l1
<1>3. ASSUME NEW c, Data(c), UNCHANGED <<pages, feed>> PROVE FlagInv'
  BY <1>3 DEF Data, pages, feed
<1>4. CASE SendData \/ SendLate
  BY <1>3, <1>4 DEF SendData, SendLate
<1>5. CASE Leave \/ WriteReset
  BY <1>1, <1>5 DEF Leave, WriteReset, l1, pages, feed
<1>6. ASSUME NEW allc \in BOOLEAN, NEW uplink \in BOOLEAN, WritePage(allc, uplink) PROVE FlagInv'
  BY <1>6 DEF WritePage, feed
<1>7. CASE FeedCell
  BY <1>7 DEF FeedCell, l1, pages
<1>8. ASSUME NEW kind, FeedAgch(kind) PROVE FlagInv'
  BY <1>8 DEF FeedAgch, pages
<1>9. ASSUME NEW n, FeedSdcch(n) PROVE FlagInv'
  BY <1>9 DEF FeedSdcch, pages
<1>10. ASSUME NEW tc, NEW burst, FrameTick(tc, burst) PROVE FlagInv'
  <2>1. guard_armed' \in BOOLEAN /\ UNCHANGED feed
    BY <1>10 DEF FrameTick
  <2>2. Dispatch(tc, burst).valid \in BOOLEAN
    BY Zenon DEF Dispatch
  <2>3. pending' \in BOOLEAN /\ task' \in BOOLEAN /\ sdcch_valid' \in BOOLEAN
    BY <1>10, <2>2 DEF FrameTick, ServeTasks, pages
  <2> QED BY <2>1, <2>3 DEF feed
<1>11. CASE UNCHANGED vars
  BY <1>1, <1>11 DEF vars, l1
<1> QED BY <1>2, <1>4, <1>5, <1>6, <1>7, <1>8, <1>9, <1>10, <1>11 DEF Next

LEMMA TapNextInv == TapInv /\ [Next]_vars => TapInv'
<1> SUFFICES ASSUME TapInv, [Next]_vars PROVE TapInv'
  OBVIOUS
<1> USE DEF TapInv
<1>1. CASE UNCHANGED <<tap, ss, fw>>
  BY <1>1 DEF tap, fw
<1>2. NoChan \in Chans /\ Channels \subseteq Chans /\ Chans \subseteq Contents
  BY DEF Chans, Contents
<1>0. ASSUME NEW c \in Chans, Publish(c) PROVE cfg' \in Contents /\ unsaid' \in BOOLEAN
  <2>1. Empty \in Contents /\ c \in Contents
    BY <1>2 DEF Contents
  <2> QED BY <1>0, <2>1 DEF Publish
<1>3. ASSUME NEW c \in Chans, c # NoChan, Data(c)
      PROVE  /\ last_chan' \in Chans /\ ss' \in {"unset", "sdcch4", "sdcch8"}
             /\ cfg' \in Contents /\ unsaid' \in BOOLEAN
  <2>1. c.kind \in {"sdcch4", "sdcch8", "tch"}
    BY <1>3, L1Assumption DEF L1Assumption, Chans
  <2> QED BY <1>0, <1>3, <2>1 DEF Data, DcchSet, tap
<1>4. ASSUME NEW c \in Channels, Enter(c) PROVE TapInv'
  BY <1>2, <1>4 DEF Enter, l1, tap
<1>5. CASE SendData
  BY <1>3, <1>5 DEF SendData, Dedicated, fw
<1>6. CASE SendLate
  BY <1>2, <1>3, <1>6 DEF SendLate
<1>7. CASE Leave
  BY <1>2, <1>7 DEF Leave, l1, tap
<1>8. ASSUME Released PROVE last_chan' \in Chans /\ cfg' \in Contents /\ unsaid' \in BOOLEAN
  BY <1>0, <1>2, <1>8 DEF Released
<1>9. CASE WriteReset
  BY <1>8, <1>9 DEF WriteReset, fw
<1>10. ASSUME NEW tc, NEW burst, FrameTick(tc, burst) PROVE TapInv'
  BY <1>8, <1>10 DEF FrameTick, fw, tap
<1>11. CASE FeedCell \/ UNCHANGED vars
  BY <1>1, <1>11 DEF FeedCell, vars, l1
<1>12. ASSUME NEW allc \in BOOLEAN, NEW uplink \in BOOLEAN, WritePage(allc, uplink) PROVE TapInv'
  BY <1>1, <1>12 DEF WritePage
<1>13. ASSUME NEW kind, FeedAgch(kind) PROVE TapInv'
  BY <1>1, <1>13 DEF FeedAgch
<1>14. ASSUME NEW n, FeedSdcch(n) PROVE TapInv'
  BY <1>1, <1>14 DEF FeedSdcch
<1> QED BY <1>4, <1>5, <1>6, <1>7, <1>9, <1>10, <1>11, <1>12, <1>13, <1>14 DEF Next

LEMMA TimeNextInv == TimeInv /\ [Next]_vars => TimeInv'
<1> SUFFICES ASSUME TimeInv, [Next]_vars PROVE TimeInv'
  OBVIOUS
<1>1. CASE UNCHANGED <<agch, agch_age, guard_age>>
  BY <1>1 DEF TimeInv
<1>2. AgchTtl \in Nat /\ GuardTicks \in Nat
  BY LimitsHold DEF Limits
<1>3. ASSUME UNCHANGED <<agch, agch_age>>, guard_age' \in {0, guard_age} PROVE TimeInv'
  BY <1>2, <1>3 DEF TimeInv
<1>4. CASE SendData \/ SendLate
  BY <1>3, <1>4 DEF SendData, SendLate, Data
<1>5. ASSUME NEW allc \in BOOLEAN, NEW uplink \in BOOLEAN, WritePage(allc, uplink) PROVE TimeInv'
  BY <1>3, <1>5 DEF WritePage
<1>6. CASE WriteReset
  BY <1>2, <1>6 DEF WriteReset, TimeInv
<1>7. ASSUME NEW kind \in {"imm", "paging"}, FeedAgch(kind) PROVE TimeInv'
  <2>1. guard_age' = guard_age /\ agch_age' \in {0, agch_age} /\ agch' \in {kind, agch}
    BY <1>7 DEF FeedAgch
  <2> QED BY <1>2, <2>1 DEF TimeInv
<1>8. ASSUME NEW tc, NEW burst, FrameTick(tc, burst) PROVE TimeInv'
  <2> DEFINE o == Older(guard_age, GuardTicks)  a == Older(agch_age, AgchTtl)  d == Dispatch(tc, burst)
  <2>1. o \in Nat /\ o <= GuardTicks + 1
    BY <1>2, OlderType DEF TimeInv
  <2>2. a \in Nat /\ a <= AgchTtl + 1
    BY <1>2, OlderType DEF TimeInv
  <2>3. d.agch \in {"none", agch}
    BY DEF Dispatch
  <2>4. guard_age' \in {0, o, guard_age}
    BY <1>8 DEF FrameTick
  <2>5. agch' \in {agch, d.agch} /\ agch_age' \in {0, a, agch_age}
    BY <1>8 DEF FrameTick, ServeTasks
  <2> HIDE DEF o, a, d
  <2> QED BY <1>2, <2>1, <2>2, <2>3, <2>4, <2>5 DEF TimeInv
<1>9. CASE Leave \/ FeedCell \/ UNCHANGED vars
  BY <1>1, <1>9 DEF Leave, FeedCell, vars, l1
<1>10. ASSUME NEW c, Enter(c) PROVE TimeInv'
  BY <1>1, <1>10 DEF Enter, l1
<1>11. ASSUME NEW n, FeedSdcch(n) PROVE TimeInv'
  BY <1>1, <1>11 DEF FeedSdcch
<1> QED BY <1>4, <1>5, <1>6, <1>7, <1>8, <1>9, <1>10, <1>11 DEF Next

\* For every ring, every limit and every set of channels: the ring never holds more
\* than RingN blocks, none has been presented MaxPresent times and is still queued,
\* an age never runs past its limit by more than one tick, and the windows are
\* those of an SDCCH whatever channel the tap has seen (feed_sdcch, dispatch_allc,
\* frame_complete).
THEOREM L1TypeCorrectness == Spec => []TypeOK
<1> DEFINE Types == FlagInv /\ TapInv /\ TimeInv /\ SlotInv /\ RingInv
<1>1. Init => Types
  <2> SUFFICES ASSUME Init PROVE Types
    OBVIOUS
  <2>1. Limits
    BY LimitsHold
  <2>2. FlagInv /\ TapInv
    BY DEF Init, FlagInv, TapInv, Chans, Contents
  <2>3. TimeInv
    BY <2>1 DEF Init, TimeInv, Limits
  <2>4. ring = <<>> /\ sdcch_last = 0
    BY DEF Init
  <2>5. ring \in Seq(Slot) /\ Len(ring) = 0
    BY <2>4
  <2>6. SlotInv
    BY <2>1, <2>4, <2>5 DEF SlotInv, Limits
  <2> QED BY <2>2, <2>3, <2>6, RingInitInv
<1>2. Types /\ [Next]_vars => Types'
  BY FlagNextInv, TapNextInv, TimeNextInv, SlotNextInv, RingNextInv
<1>3. Types => TypeOK
  <2> SUFFICES ASSUME Types PROVE TypeOK
    OBVIOUS
  <2>1. {pending, task, sb_valid, si_valid, sdcch_valid, guard_armed} \subseteq BOOLEAN
    BY DEF FlagInv
  <2>2. /\ ss \in {"unset", "sdcch4", "sdcch8"}
        /\ {last_chan, mode, late} \subseteq Channels \cup {NoChan}
        /\ cfg \in Channels \cup {NoChan, Empty} /\ unsaid \in BOOLEAN
    BY DEF TapInv, Chans, Contents
  <2>3. /\ agch \in {"none", "imm", "paging"} /\ agch_age \in 0 .. AgchTtl + 1
        /\ guard_age \in 0 .. GuardTicks + 1
    BY LimitsHold DEF TimeInv, Limits
  <2>4. ring \in Seq(Slot) /\ Len(ring) <= RingN /\ sdcch_last \in 0 .. MaxBlocks
    BY LimitsHold DEF SlotInv, Limits
  <2>5. shown \subseteq 1 .. sdcch_last /\ lost \subseteq 1 .. sdcch_last
    <3>1. lost \subseteq 1 .. Base /\ shown \subseteq 1 .. sdcch_last /\ sdcch_last \in Nat
          /\ Len(ring) \in Nat /\ Base = sdcch_last - Len(ring)
      BY DEF RingInv, Base
    <3>2. 1 .. Base \subseteq 1 .. sdcch_last
      BY <3>1
    <3> QED BY <3>1, <3>2
  <2>6. 1 .. sdcch_last \subseteq 1 .. MaxBlocks
    BY <2>4, LimitsHold DEF Limits
  <2>7. shown \subseteq 1 .. MaxBlocks /\ lost \subseteq 1 .. MaxBlocks
    BY <2>5, <2>6
  <2> HIDE DEF Types
  <2> QED BY <2>1, <2>2, <2>3, <2>4, <2>7 DEF TypeOK, Slot
<1> QED BY <1>1, <1>2, <1>3, PTL DEF Spec
=============================================================================
