------------------------------ MODULE L1Ccch --------------------------------
(***************************************************************************)
(* The gr-gsm layer 1 (l1-grgsm/calypso_l1_grgsm.c) as the source of the    *)
(* common and dedicated control blocks in a_cd, together with the tap on    *)
(* the serial line of the firmware (l1-grgsm/calypso_l1ctl_tap.c), which    *)
(* tells it which dedicated channel is in use.                              *)
(*                                                                         *)
(* Actors: the frame tick, the firmware (mailbox pages and L1CTL messages), *)
(* and the gr-gsm receiver that feeds blocks over UDP.  A time stamp of the *)
(* code (tick - x.tick) is an age here, counted up to one past its limit;   *)
(* it is 0 while what it dates is not in use.                               *)
(* The contents of blocks and the choice among system informations are left *)
(* out.  Speech and the cipher key are in TchDownlink and KcPublish.         *)
(***************************************************************************)
EXTENDS Integers, Sequences

CONSTANTS
  Channels,      \* dedicated channels, records [id, kind]; kind "sdcch4", "sdcch8", "tch"
  Tc,            \* values of fn % 51 at which the firmware has tasks
  AgchTtl, SdcchTtl, MaxPresent, RingN, GuardTicks,
  MaxBlocks      \* bound: SDCCH blocks fed in all

ASSUME L1Assumption ==
  /\ {AgchTtl, SdcchTtl, MaxPresent, RingN, GuardTicks} \subseteq Nat \ {0} /\ MaxBlocks \in Nat
  /\ \A c \in Channels : c.kind \in {"sdcch4", "sdcch8", "tch"}

VARIABLES
  pending, task,                 \* g.pending, d_task_d = ALLC
  sb_valid, si_valid,
  agch, agch_age,                \* "none", "imm" or "paging"; age
  ring,                          \* sdcch_ring from head to tail: [id, age, reps]
  sdcch_valid, sdcch_last,       \* blocks are numbered, for their fn
  ss,                            \* sdcch_ss_set and sdcch_ch8: "unset", "sdcch4", "sdcch8"
  guard_armed, guard_age,
  last_chan,                     \* tap.last_chan_nr, NoChan for 0xFF
  cfg                            \* the channel in /dev/shm/calypso_dcch_cfg; NoChan: released

VARIABLES mode, late             \* firmware: the channel it is on; the channel of a
                                 \* message left in its serial queue
VARIABLES shown, lost            \* history: SDCCH blocks presented; dropped unpresented
VARIABLE unsaid                  \* history: the file is not what was to be published last

l1 == <<agch, agch_age, ring, sdcch_valid, sdcch_last, ss, guard_armed, guard_age>>
tap == <<last_chan, cfg, unsaid>>
pages == <<pending, task>>
fw == <<mode, late>>
feed == <<sb_valid, si_valid>>
hist == <<shown, lost>>
vars == <<l1, tap, pages, fw, feed, hist>>

NoChan == [id |-> "none", kind |-> "none"]
Empty == [id |-> "empty", kind |-> "none"]  \* truncated by an open whose write failed
Dedicated == mode # NoChan

-----------------------------------------------------------------------------
(* The tap.                                                                 *)

\* dcch_cfg_publish(): a failed open leaves the file alone, a failed write
\* leaves it empty.  The caller is not told and does not try again.
Publish(c) == cfg' \in {c, cfg, Empty} /\ unsaid' = (cfg' # c)

\* Faulty variant: the release is published, the channel not forgotten.
ReleasedKeepsChan ==
  /\ UNCHANGED last_chan
  /\ IF last_chan = NoChan THEN UNCHANGED <<cfg, unsaid>> ELSE Publish(NoChan)

\* calypso_l1ctl_tap_channel_released()
Released ==
  /\ last_chan' = NoChan
  /\ IF last_chan = NoChan THEN UNCHANGED <<cfg, unsaid>> ELSE Publish(NoChan)

\* calypso_l1_dcch_set()
DcchSet(c) == ss' = c.kind

\* frame_complete() of a DATA_IND or DATA_CONF on a dedicated channel.
Data(c) ==
  /\ guard_armed' = TRUE /\ guard_age' = 0
  /\ IF c.kind # "tch" /\ c # last_chan
     THEN last_chan' = c /\ Publish(c) /\ DcchSet(c)
     ELSE UNCHANGED <<tap, ss>>
  /\ UNCHANGED <<agch, agch_age, ring, sdcch_valid, sdcch_last>>

-----------------------------------------------------------------------------
(* The firmware.                                                            *)

\* An assignment takes it to a dedicated channel of a cell it knows; by then
\* the serial queue is empty.
Enter(c) ==
  /\ ~Dedicated /\ si_valid /\ late = NoChan
  /\ mode' = c
  /\ UNCHANGED <<l1, tap, pages, late, feed, hist>>

\* An L1CTL message of the channel it is on.
SendData ==
  /\ Dedicated
  /\ Data(mode)
  /\ UNCHANGED <<pages, fw, feed, hist>>

\* A last message of the channel leaves the queue after the channel was left.
SendLate ==
  /\ late # NoChan
  /\ Data(late)
  /\ late' = NoChan
  /\ UNCHANGED <<mode, pages, feed, hist>>

\* The channel is left; a message of it may still be queued.
Leave ==
  /\ Dedicated
  /\ mode' = NoChan /\ late' \in {NoChan, mode}
  /\ UNCHANGED <<l1, tap, pages, feed, hist>>

\* d_dsp_page = 0: l1_reset().
WriteReset ==
  /\ ~Dedicated
  /\ agch' = "none" /\ sdcch_valid' = FALSE /\ ss' = "unset" /\ guard_armed' = FALSE
  /\ Released
  /\ agch_age' = 0 /\ guard_age' = 0
  /\ UNCHANGED <<ring, sdcch_last, pages, fw, feed, hist>>

\* Faulty variant: every page keeps the guard alive, not only an uplink task.
WritePageRefreshes(allc, uplink) ==
  /\ ~pending /\ (uplink => Dedicated)
  /\ pending' = TRUE /\ task' = allc
  /\ guard_age' = 0
  /\ UNCHANGED <<agch, agch_age, ring, sdcch_valid, sdcch_last, ss, guard_armed,
                 tap, fw, feed, hist>>

\* calypso_l1_page_written() with a GSM task; an uplink task of the dedicated
\* channel keeps the guard alive.  One page per frame: what becomes of a page
\* that meets another is in Pont.
WritePage(allc, uplink) ==
  /\ ~pending /\ (uplink => Dedicated)
  /\ pending' = TRUE /\ task' = allc
  /\ guard_age' = IF guard_armed /\ uplink THEN 0 ELSE guard_age
  /\ UNCHANGED <<agch, agch_age, ring, sdcch_valid, sdcch_last, ss, guard_armed,
                 tap, fw, feed, hist>>

-----------------------------------------------------------------------------
(* The receiver.                                                            *)

\* sch_readable(), feed_si(): the first SCH, then the first SI.
FeedCell ==
  /\ \/ ~sb_valid /\ sb_valid' = TRUE /\ UNCHANGED si_valid
     \/ sb_valid /\ ~si_valid /\ si_valid' = TRUE /\ UNCHANGED sb_valid
  /\ UNCHANGED <<l1, tap, pages, fw, hist>>

\* feed_agch(): a paging does not replace an assignment still in its time.
FeedAgch(kind) ==
  /\ sb_valid
  /\ IF kind = "paging" /\ agch = "imm" /\ agch_age <= AgchTtl
     THEN UNCHANGED <<agch, agch_age>>
     ELSE agch' = kind /\ agch_age' = 0
  /\ UNCHANGED <<ring, sdcch_valid, sdcch_last, ss, guard_armed, guard_age,
                 tap, pages, fw, sb_valid, si_valid, hist>>

Unshown(e) == IF e.id \in shown THEN {} ELSE {e.id}

\* Faulty variant: the oldest block of a full ring is overwritten where it is.
FeedSdcchInPlace(n) ==
  /\ sb_valid /\ n <= MaxBlocks /\ n # sdcch_last
  /\ sdcch_last' = n
  /\ LET full == Len(ring) >= RingN
         new == [id |-> n, age |-> 0, reps |-> 0]
     IN  /\ ring' = IF full THEN [ring EXCEPT ![1] = new] ELSE Append(ring, new)
         /\ lost' = lost \cup (IF full THEN Unshown(ring[1]) ELSE {})
  /\ sdcch_valid' = TRUE
  /\ UNCHANGED <<agch, agch_age, ss, guard_armed, guard_age, tap, pages, fw,
                 sb_valid, si_valid, shown>>

\* feed_sdcch(): a block received twice is dropped, a full ring loses its
\* oldest.
FeedSdcch(n) ==
  /\ sb_valid /\ n <= MaxBlocks /\ n # sdcch_last
  /\ sdcch_last' = n
  /\ LET full == Len(ring) >= RingN
     IN  /\ ring' = Append(IF full THEN Tail(ring) ELSE ring, [id |-> n, age |-> 0, reps |-> 0])
         /\ lost' = lost \cup (IF full THEN Unshown(ring[1]) ELSE {})
  /\ sdcch_valid' = TRUE
  /\ UNCHANGED <<agch, agch_age, ss, guard_armed, guard_age, tap, pages, fw,
                 sb_valid, si_valid, shown>>

-----------------------------------------------------------------------------
(* The frame tick.                                                          *)
Older(n, ttl) == IF n <= ttl THEN n + 1 ELSE n

AgchWindow(tc) == tc \in 6 .. 9 \/ tc \in 12 .. 19
SdcchWindow(tc) ==
  tc \in CASE ss = "unset" -> 0 .. 39 [] ss = "sdcch4" -> 22 .. 39 [] ss = "sdcch8" -> 0 .. 31
SacchWindow(tc) == tc \in 42 .. 46

\* dcch_si_guard(), which the tick always reaches once the cell is known.
GuardExpires == sb_valid /\ guard_armed /\ guard_age > GuardTicks

\* Faulty variant: the guard is not asked before an SI is written.
PresentedUnguarded(sacch, tch_cfg_valid) ==
  IF ~sb_valid \/ tch_cfg_valid THEN "nothing"
  ELSE IF si_valid /\ ~sdcch_valid /\ agch # "imm" THEN "si"
  ELSE IF guard_armed /\ ~GuardExpires /\ sacch THEN "sacch"
  ELSE "nothing"

\* What the tick writes to a_cd before it looks at the tasks.  `sacch': a
\* SACCH block was received (and, here, its slot is on the air, the channel is no
\* TCH, no SACCH block of a TCH waits, the firmware has read the last block);
\* `tch_cfg_valid': a traffic channel is configured.
Presented(sacch, tch_cfg_valid) ==
  LET guarded == guard_armed /\ ~GuardExpires
  IN  IF ~sb_valid \/ tch_cfg_valid THEN "nothing"
      ELSE IF si_valid /\ ~sdcch_valid /\ ~guarded /\ agch # "imm" THEN "si"
      ELSE IF guarded /\ sacch THEN "sacch"
      ELSE "nothing"

Aged(r) == [i \in 1 .. Len(r) |-> [r[i] EXCEPT !.age = Older(@, SdcchTtl)]]

\* Where the loop over the ring stops (at the first entry still in its time, or
\* past the last) and what it leaves, the tick just counted included.
Live(r) ==
  CHOOSE n \in 1 .. Len(r) + 1 :
    /\ \A i \in 1 .. n - 1 : r[i].age + 1 > SdcchTtl
    /\ n <= Len(r) => r[n].age + 1 <= SdcchTtl
Fresh(r) == Aged(SubSeq(r, Live(r), Len(r)))

\* The ring after its first block was presented once more; `burst': d_burst_d as
\* the firmware left it.
AfterPresented(r, burst) ==
  IF burst >= 3 \/ r[1].reps + 1 >= MaxPresent THEN Tail(r)
  ELSE [r EXCEPT ![1].reps = @ + 1]

\* What dispatch_allc() does with the two queues at tc: the block written, the
\* AGCH buffer and the ring left.  The ages are those of the tick just counted.
Dispatch(tc, burst) ==
  LET buf == IF Older(agch_age, AgchTtl) > AgchTtl THEN "none" ELSE agch
      r == Fresh(ring)
      left(q) == sdcch_valid /\ q # <<>>
  IN  IF buf # "none" /\ AgchWindow(tc)
      THEN [wrote |-> "agch", agch |-> buf, ring |-> Aged(ring), valid |-> sdcch_valid]
      ELSE IF r # <<>> /\ SdcchWindow(tc)
      THEN [wrote |-> "sdcch", agch |-> buf, ring |-> AfterPresented(r, burst),
            valid |-> left(AfterPresented(r, burst))]
      ELSE [wrote |-> "rest", agch |-> buf, ring |-> r, valid |-> left(r)]

\* Dropped by the dispatch without having been presented.
Dropped(d) ==
  IF d.wrote = "agch" THEN {}
  ELSE UNION {Unshown(ring[i]) : i \in 1 .. Live(ring) - 1}

\* What dispatch_allc() writes when neither queue has a block for tc.
Rest(tc, sacch, valid) ==
  IF sacch /\ SacchWindow(tc) THEN "sacch"
  ELSE IF valid THEN "nothing"
  ELSE IF guard_armed /\ ~GuardExpires THEN "bad" ELSE "si"

\* The block in a_cd after the tick.
Written(tc, sacch, tch_cfg_valid) ==
  LET d == Dispatch(tc, 0)
      block == IF d.wrote = "rest" THEN Rest(tc, sacch, d.valid) ELSE d.wrote
  IN  IF pending /\ task /\ block # "nothing" THEN block ELSE Presented(sacch, tch_cfg_valid)

\* The part of the tick that counts time and serves the tasks of the page.
ServeTasks(tc, burst) ==
  IF ~pending
  THEN UNCHANGED <<pages, agch, agch_age, ring, sdcch_valid, shown, lost>>
  ELSE /\ pending' = FALSE /\ task' = FALSE
       /\ LET d == Dispatch(tc, burst)
          IN  IF task
              THEN /\ agch' = d.agch /\ ring' = d.ring /\ sdcch_valid' = d.valid
                   /\ shown' = shown \cup (IF d.wrote = "sdcch" THEN {Fresh(ring)[1].id} ELSE {})
                   /\ lost' = lost \cup Dropped(d)
              ELSE ring' = Aged(ring) /\ UNCHANGED <<agch, sdcch_valid, shown, lost>>
       /\ agch_age' = IF agch' = "none" THEN 0 ELSE Older(agch_age, AgchTtl)

\* calypso_l1_frame_tick()
FrameTick(tc, burst) ==
  /\ ServeTasks(tc, burst)
  /\ guard_armed' = (guard_armed /\ ~GuardExpires)
  /\ guard_age' = IF ~guard_armed' THEN 0
                  ELSE IF pending THEN Older(guard_age, GuardTicks) ELSE guard_age
  /\ IF GuardExpires THEN Released ELSE UNCHANGED tap
  /\ UNCHANGED <<sdcch_last, ss, fw, feed>>

-----------------------------------------------------------------------------
\* calypso_l1_init().  Nothing removes the file of an earlier machine.
Init ==
  /\ pending = FALSE /\ task = FALSE
  /\ sb_valid = FALSE /\ si_valid = FALSE
  /\ agch = "none" /\ agch_age = 0
  /\ ring = <<>> /\ sdcch_valid = FALSE /\ sdcch_last = 0
  /\ ss = "unset" /\ guard_armed = FALSE /\ guard_age = 0
  /\ last_chan = NoChan
  /\ cfg \in {c \in Channels : c.kind # "tch"} \cup {NoChan, Empty}
  /\ unsaid = (cfg # NoChan)
  /\ mode = NoChan /\ late = NoChan
  /\ shown = {} /\ lost = {}

Bursts == {0, 3}

Next ==
  \/ \E c \in Channels : Enter(c)
  \/ SendData
  \/ SendLate
  \/ Leave
  \/ WriteReset
  \/ \E allc, uplink \in BOOLEAN : WritePage(allc, uplink)
  \/ FeedCell
  \/ \E kind \in {"imm", "paging"} : FeedAgch(kind)
  \/ \E n \in {sdcch_last, sdcch_last + 1} : FeedSdcch(n)
  \/ \E tc \in Tc, burst \in Bursts : FrameTick(tc, burst)

Tick == \E tc \in Tc, burst \in Bursts : FrameTick(tc, burst)
ReadCcch == ~Dedicated /\ WritePage(TRUE, FALSE)

\* The frame clock of the bench ticks; a firmware in idle mode reads the CCCH
\* again and again.
Spec == Init /\ [][Next]_vars /\ WF_vars(Tick) /\ SF_vars(ReadCcch)

-----------------------------------------------------------------------------
(* Properties.                                                              *)
TypeOK ==
  /\ {pending, task, sb_valid, si_valid, sdcch_valid, guard_armed} \subseteq BOOLEAN
  /\ ss \in {"unset", "sdcch4", "sdcch8"}
  /\ agch \in {"none", "imm", "paging"} /\ agch_age \in 0 .. AgchTtl + 1
  /\ ring \in Seq([id : 1 .. MaxBlocks, age : 0 .. SdcchTtl + 1, reps : 0 .. MaxPresent - 1])
  /\ Len(ring) <= RingN
  /\ sdcch_last \in 0 .. MaxBlocks /\ guard_age \in 0 .. GuardTicks + 1
  /\ {last_chan, mode, late} \subseteq Channels \cup {NoChan}
  /\ cfg \in Channels \cup {NoChan, Empty} /\ unsaid \in BOOLEAN
  /\ shown \subseteq 1 .. MaxBlocks /\ lost \subseteq 1 .. MaxBlocks

\* The layer 1 and the receiver agree on the dedicated channel: the channel of
\* the tap is guarded against system informations and its blocks are presented
\* in the windows of its own kind, whether or not it could be published; and the
\* file names that channel, or none when there is none, unless the write for
\* it failed (or none was made yet): dcch_cfg_publish() is not called again
\* before the channel changes.
\* Three files' worth of state: tap.last_chan_nr, the published file, g.
PublishedIsGuarded ==
  /\ cfg = last_chan \/ unsaid
  /\ last_chan # NoChan => guard_armed /\ ss = last_chan.kind

\* Every SDCCH block fed is queued, was presented to the firmware, or was given
\* up (full ring, time), and blocks are presented in the order of their arrival.
BlocksInOrder ==
  LET queued == {ring[i].id : i \in 1 .. Len(ring)}
  IN  /\ queued \cup shown \cup lost = 1 .. sdcch_last
      /\ shown \cap lost = {}
      /\ \A n \in shown, k \in 1 .. sdcch_last : k < n => k \in shown \cup lost

\* The firmware is never served a system information on a channel whose guard
\* runs, whichever of the two writers of a_cd the tick goes through.
NoSiOnChannel ==
  guard_armed /\ guard_age <= GuardTicks =>
    \A tc \in Tc, sacch, tch \in BOOLEAN : Written(tc, sacch, tch) # "si"

\* A firmware back in idle mode is served system informations again, whatever
\* was queued, assigned or guarded when it came back, with or without a reset
\* and even if a late message revived the guard.
SiComesBack == []<>(Dedicated \/ ~sb_valid \/ Written(32, FALSE, FALSE) = "si")
=============================================================================
