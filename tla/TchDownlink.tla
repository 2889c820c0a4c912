---------------------------- MODULE TchDownlink -----------------------------
(***************************************************************************)
(* The downlink speech path of the gr-gsm layer 1                           *)
(* (l1-grgsm/calypso_l1_grgsm.c): a ring of numbered frames in a shared     *)
(* file, written by the receiver, is read ahead into a queue by             *)
(* tch_dl_poll(), which dispatch_tch_dl() presents to the firmware one      *)
(* frame at a time.                                                         *)
(*                                                                         *)
(* The writer is another process: it runs between the two reads of a poll,  *)
(* and may be restarted.  A frame is [run, seq], the writer's life and the  *)
(* number in it; the number is all the code sees of it.                     *)
(***************************************************************************)
EXTENDS Integers, Sequences

CONSTANTS
  Slots,       \* n_slots
  Prefetch,    \* TCH_DL_PREFETCH
  Hold,        \* TCH_DL_HOLD
  MaxSeq,      \* bound: frames written in one life of the writer
  MaxRuns      \* bound: lives of the writer

ASSUME TchAssumption == {Slots, Prefetch, Hold, MaxSeq, MaxRuns} \subseteq Nat \ {0}

VARIABLES
  w_seq, slot,         \* the file: header, frame in each slot
  run, written,        \* writer: its life, whether the next frame is in its slot already
  poll,                \* the header a poll has read, 0 between polls
  tch_dl_seq, queue,   \* reader
  blud, waited,        \* B_BLUD of a_dd_0, dispatch_tch_dl()'s `waited'
  heard                \* history: the frame presented last

tchVars == <<w_seq, slot, run, written, poll, tch_dl_seq, queue, blud, waited, heard>>

writer == <<w_seq, slot, run, written>>
reader == <<poll, tch_dl_seq, queue>>
firmwareSide == <<blud, waited, heard>>

NoFrame == [run |-> 0, seq |-> 0]
SlotOf(n) == (n - 1) % Slots

-----------------------------------------------------------------------------
(* The writer (external): a frame goes into its slot, then into the header. *)
WriteSlot ==
  /\ ~written /\ w_seq < MaxSeq
  /\ slot' = [slot EXCEPT ![SlotOf(w_seq + 1)] = [run |-> run, seq |-> w_seq + 1]]
  /\ written' = TRUE
  /\ UNCHANGED <<w_seq, run, reader, firmwareSide>>

WriteHeader ==
  /\ written
  /\ w_seq' = w_seq + 1 /\ written' = FALSE
  /\ UNCHANGED <<slot, run, reader, firmwareSide>>

\* It starts over with an empty ring, in the same file (not within the few
\* microseconds of a poll).
Restart ==
  /\ run < MaxRuns /\ poll = 0
  /\ run' = run + 1 /\ w_seq' = 0 /\ written' = FALSE
  /\ slot' = [i \in 0 .. Slots - 1 |-> NoFrame]
  /\ UNCHANGED <<reader, firmwareSide>>

-----------------------------------------------------------------------------
(* tch_dl_poll().                                                           *)

\* The header: nothing new, a ring that started over, or room for a frame.
PollHeader ==
  /\ poll = 0 /\ w_seq # 0 /\ w_seq # tch_dl_seq
  /\ LET over == w_seq < tch_dl_seq
     IN  /\ over \/ Len(queue) < Prefetch
         /\ tch_dl_seq' = IF over THEN 0 ELSE tch_dl_seq
         /\ queue' = IF over THEN <<>> ELSE queue
  /\ poll' = w_seq
  /\ UNCHANGED <<writer, firmwareSide>>

\* Faulty variant: a reader that was lapped stays where it is.
WantedInOrder == IF tch_dl_seq = 0 THEN poll ELSE tch_dl_seq + 1

\* The frame to read: the next, or the newest at first and when lapped (the
\* difference is unsigned in the code, and poll > tch_dl_seq here).
Wanted ==
  IF tch_dl_seq = 0 \/ poll - (tch_dl_seq + 1) >= Slots THEN poll ELSE tch_dl_seq + 1

\* Faulty variant: whatever frame is in the slot is taken for the one wanted.
PollSlotUnchecked ==
  /\ poll # 0
  /\ tch_dl_seq' = Wanted /\ queue' = Append(queue, slot[SlotOf(Wanted)])
  /\ poll' = 0
  /\ UNCHANGED <<writer, firmwareSide>>

\* The slot, which the writer may have changed since.
PollSlot ==
  /\ poll # 0
  /\ IF slot[SlotOf(Wanted)].seq = Wanted
     THEN tch_dl_seq' = Wanted /\ queue' = Append(queue, slot[SlotOf(Wanted)])
     ELSE UNCHANGED <<tch_dl_seq, queue>>
  /\ poll' = 0
  /\ UNCHANGED <<writer, firmwareSide>>

-----------------------------------------------------------------------------
(* dispatch_tch_dl(), and the firmware that takes the frame.                *)

Dispatch ==
  /\ poll = 0
  /\ IF blud /\ waited < Hold
     THEN waited' = waited + 1 /\ UNCHANGED <<blud, heard, queue>>
     ELSE /\ waited' = 0
          /\ IF queue = <<>> THEN UNCHANGED <<blud, heard, queue>>
             ELSE blud' = TRUE /\ heard' = Head(queue) /\ queue' = Tail(queue)
  /\ UNCHANGED <<poll, tch_dl_seq, writer>>

TakeFrame ==
  /\ blud /\ blud' = FALSE
  /\ UNCHANGED <<waited, heard, reader, writer>>

-----------------------------------------------------------------------------
TchInit ==
  /\ w_seq = 0 /\ slot = [i \in 0 .. Slots - 1 |-> NoFrame]
  /\ run = 1 /\ written = FALSE
  /\ poll = 0 /\ tch_dl_seq = 0 /\ queue = <<>>
  /\ blud = FALSE /\ waited = 0 /\ heard = NoFrame

Poll == PollHeader \/ PollSlot

TchOutside == WriteSlot \/ WriteHeader \/ Restart \/ TakeFrame

TchTick == Poll \/ Dispatch

-----------------------------------------------------------------------------
(* Properties.                                                              *)
Frame == [run : 1 .. MaxRuns, seq : 1 .. MaxSeq]

TchTypeOK ==
  /\ w_seq \in 0 .. MaxSeq /\ slot \in [0 .. Slots - 1 -> Frame \cup {NoFrame}]
  /\ run \in 1 .. MaxRuns /\ written \in BOOLEAN
  /\ poll \in 0 .. MaxSeq /\ tch_dl_seq \in 0 .. MaxSeq
  /\ queue \in Seq(Frame) /\ Len(queue) <= Prefetch
  /\ blud \in BOOLEAN /\ waited \in 0 .. Hold /\ heard \in Frame \cup {NoFrame}

Before(f, g) == f.run < g.run \/ (f.run = g.run /\ f.seq < g.seq)

\* The firmware hears the frames in the order they were written, none twice,
\* although the ring is lapped, starts over or changes under a poll.
SpeechInOrder == [][heard' # heard => Before(heard, heard')]_heard

\* The reader catches up with a writer that has come to rest: no lap, restart
\* or slot overwritten during a poll leaves it waiting for a frame that is no
\* longer there.
ReaderCatchesUp == <>[](w_seq = 0 \/ tch_dl_seq = w_seq)
=============================================================================
