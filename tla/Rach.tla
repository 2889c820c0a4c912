-------------------------------- MODULE Rach --------------------------------
(***************************************************************************)
(* The request reference of the IMMEDIATE ASSIGNMENT (calypso_trx.c): every *)
(* d_rach write queues its RA, every L1CTL_RACH_CONF pairs the oldest one   *)
(* with the frame it was sent in, and the ARM read of the assignment in     *)
(* a_cd shows that frame instead of the one of the BTS.  The firmware's     *)
(* attempts and the memory of the mobile (cr_hist) are outside the          *)
(* repository; the confirmations come in the order of the attempts.         *)
(***************************************************************************)
EXTENDS Integers, Sequences

CONSTANTS
  Ras,          \* random access bytes in use
  Bsic,         \* of the cell; a part of the d_rach value
  Frames,       \* frames a confirmation may carry
  QueueSize,    \* length of rach_file: 8
  Wrap,         \* rach_file_w and rach_file_r count modulo 2^32
  MaxPending    \* attempts the firmware leaves unconfirmed at a time

NoRa == -1
NotSent == -1

ASSUME RachAssumption ==
  /\ Ras \subseteq 0 .. 255 /\ Frames \subseteq Nat
  /\ QueueSize \in Nat \ {0} /\ Wrap \in Nat /\ Wrap % QueueSize = 0 /\ Wrap > QueueSize
  /\ MaxPending \in Nat /\ Bsic \in 0 .. 63

VARIABLES
  rach_file, rach_file_w, rach_file_r,  \* the queue
  rach_fn,                              \* RA -> frame, 0 when unknown
  rach_ra,                              \* the RA confirmed last (rach_ra_vue)
  sent,                                 \* firmware: attempts to be confirmed
  mem                                   \* mobile: RA -> frame confirmed last

trx == <<rach_file, rach_file_w, rach_file_r, rach_fn, rach_ra>>
rachVars == <<trx, sent, mem>>

RachInit ==
  /\ rach_file = [i \in 0 .. QueueSize - 1 |-> 0]
  /\ rach_file_w = 0 /\ rach_file_r = 0
  /\ rach_fn = [ra \in Ras |-> 0] /\ rach_ra = NoRa
  /\ sent = <<>> /\ mem = [ra \in Ras |-> NotSent]

Queued == (rach_file_w - rach_file_r + Wrap) % Wrap

\* Faulty variant: one attempt less fits in the queue.
FullEarly == Queued >= QueueSize - 1

Full == Queued >= QueueSize

Enqueue(ra) ==
  /\ rach_file_r' = IF Full THEN (rach_file_r + 1) % Wrap ELSE rach_file_r
  /\ rach_file' = [rach_file EXCEPT ![rach_file_w % QueueSize] = ra]
  /\ rach_file_w' = (rach_file_w + 1) % Wrap

\* api_write() at NDB_D_RACH, of Bsic << 2 | ra << 8.
WriteRach(ra) ==
  /\ Len(sent) < MaxPending
  /\ IF ra = 0 /\ Bsic = 0
     THEN UNCHANGED <<rach_file, rach_file_w, rach_file_r>>
     ELSE Enqueue(ra)
  /\ sent' = Append(sent, ra)
  /\ UNCHANGED <<rach_fn, rach_ra, mem>>

Pair(fn) ==
  LET ra == rach_file[rach_file_r % QueueSize]
  IN  /\ rach_file_r' = (rach_file_r + 1) % Wrap
      /\ rach_fn' = [rach_fn EXCEPT ![ra] = fn]
      /\ rach_ra' = ra

\* calypso_trx_rach_conf(), and what the mobile remembers of the same message.
RachConf(fn) ==
  /\ sent # <<>>
  /\ sent' = Tail(sent) /\ mem' = [mem EXCEPT ![Head(sent)] = fn]
  /\ IF fn = 0 \/ Queued = 0
     THEN UNCHANGED trx
     ELSE Pair(fn) /\ UNCHANGED <<rach_file, rach_file_w>>

RachNext ==
  \/ \E ra \in Ras : WriteRach(ra)
  \/ \E fn \in Frames : RachConf(fn)

RachSpec == RachInit /\ [][RachNext]_rachVars

-----------------------------------------------------------------------------
\* pont_reqref_corrigee(): bytes 8 and 9 of the block as one word, the first
\* byte low.  T1' and the high half of T3, the low half of T3 and T2.
\* Faulty variant: the low half of T3 is cut to two bits.
PackedNarrow(fn) ==
  LET t1p == (fn \div 1326) % 32  t2 == fn % 26  t3 == fn % 51
  IN  (t1p * 8 + t3 \div 8) + 256 * ((t3 % 4) * 32 + t2)

Packed(fn) ==
  LET t1p == (fn \div 1326) % 32  t2 == fn % 26  t3 == fn % 51
  IN  (t1p * 8 + t3 \div 8) + 256 * ((t3 % 8) * 32 + t2)

\* The reference the ARM reads in an assignment for ra; `bts': the one the BTS
\* sent; `actif': MONTANT_REQREF is not 0.  A frame of 0 in rach_fn leaves the
\* reference alone: the read of last_rach that follows it in the code is for
\* the RA confirmed last, which has one (LastRachIsKnown).
Corrected(ra, bts, actif) ==
  LET memo == rach_fn[ra]
  IN  IF memo = 0 \/ (Packed(memo) # bts /\ ~ actif) THEN bts ELSE Packed(memo)

\* The fields of a reference, as the log of the same function takes it apart.
Reference(word) ==
  LET o8 == word % 256  o9 == word \div 256
  IN  [t1 |-> (o8 \div 8) % 32, t3 |-> (o8 % 8) * 8 + o9 \div 32, t2 |-> o9 % 32]

RachTypeOK ==
  /\ rach_file \in [0 .. QueueSize - 1 -> Ras \cup {0}]
  /\ {rach_file_w, rach_file_r} \subseteq 0 .. Wrap - 1
  /\ rach_fn \in [Ras -> Frames \cup {0}] /\ rach_ra \in Ras \cup {NoRa}
  /\ sent \in Seq(Ras) /\ Len(sent) <= MaxPending
  /\ mem \in [Ras -> Frames \cup {NotSent}]

(***************************************************************************)
(* "The queue is the same pairing the mobile does" (calypso_trx_rach_conf): *)
(* a frame kept for an RA is the one the mobile holds for it, in a burst of *)
(* attempts too, where several RAs wait and the queue wraps.                *)
(***************************************************************************)
SamePairing == \A ra \in Ras : rach_fn[ra] # 0 => rach_fn[ra] = mem[ra]

\* The T1', T2 and T3 of a frame, as the mobile compares them.
FrameFields(fn) == [t1 |-> (fn \div (26 * 51)) % 32, t3 |-> fn % 51, t2 |-> fn % 26]

(***************************************************************************)
(* The mobile accepts the assignments that answer it, and only those are    *)
(* changed.  For every RA with a confirmed attempt, not only the one        *)
(* written last, the ARM reads bit for bit the T1', T2 and T3 of the frame  *)
(* the mobile memorised (pont_reqref_corrigee, gsm48_match_ra), whatever    *)
(* the BTS sent; for any other RA, and always with MONTANT_REQREF=0, "the   *)
(* BTS reference reaches the firmware as is".                               *)
(***************************************************************************)
AssignmentIsAccepted ==
  \A ra \in Ras, fn \in Frames :
    LET bts == Packed(fn)
    IN  /\ Corrected(ra, bts, FALSE) = bts
        /\ IF mem[ra] = NotSent
           THEN Corrected(ra, bts, TRUE) = bts
           ELSE Reference(Corrected(ra, bts, TRUE)) = FrameFields(mem[ra])

\* The RA of the last d_rach write.
LastWritten == IF sent = <<>> THEN rach_ra ELSE sent[Len(sent)]

(***************************************************************************)
(* "The fix is only applied if the assignment's RA is the one of the last   *)
(* d_rach write: otherwise the assignment answers an attempt older than     *)
(* last_rach, and forging a match would be worse than the failure" (comment *)
(* before pont_last_rach_fn).                                               *)
(***************************************************************************)
OnlyLastAttemptIsCorrected ==
  \A ra \in Ras, fn \in Frames :
    Corrected(ra, Packed(fn), TRUE) # Packed(fn) => ra = LastWritten

(***************************************************************************)
(* The read of last_rach in the guest's memory (pont_last_rach_fn) is never *)
(* needed: the RA confirmed last always has a frame of its own.             *)
(***************************************************************************)
LastRachIsKnown == rach_ra # NoRa => rach_fn[rach_ra] # 0
=============================================================================
