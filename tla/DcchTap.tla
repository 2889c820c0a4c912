------------------------------ MODULE DcchTap -------------------------------
(***************************************************************************)
(* calypso_dcch_tap.c: which dedicated channel the mobile uses, learnt from *)
(* the blocks the firmware reports in its serial stream.  A message is the  *)
(* channel and the frame number of a block; the framing of the stream is    *)
(* left out.  The mobile itself (MoveTo, NewFrame) is outside the           *)
(* repository.                                                              *)
(***************************************************************************)
EXTENDS Integers

CONSTANTS
  Hyperframe,   \* 2715648 frames
  Word,         \* 2^32, the width of the frame numbers subtracted
  Separation,   \* DCCH_LIBERE_APRES_TRAMES: 100 frames
  MaxLate,      \* how many frames after its own a block may be reported
  Sdcch, Tch, Pdch  \* dedicated channels by kind

Released == "released"
Common == "common"
Empty == "empty"   \* the file truncated by an open whose write failed
Dedicated == Sdcch \cup Tch \cup Pdch

ASSUME DcchAssumption ==
  /\ Hyperframe \in Nat \ {0} /\ Word \in Nat /\ Word > Hyperframe
  /\ Separation \in Nat /\ MaxLate \in Nat /\ MaxLate < Separation /\ Separation < Hyperframe \div 2
  /\ Word % Hyperframe >= Hyperframe \div 2 + MaxLate
  /\ {Released, Common, Empty} \cap Dedicated = {}

VARIABLES
  dernier_chan_nr, fn_dedie, fn_dedie_vue,  \* the tap
  trx_chan_nr,  \* last channel other than a TCH passed on, or Released (0xFF)
  told,         \* the last call of calypso_trx_dcch()
  cfg           \* the channel in /dev/shm/calypso_dcch_cfg; Released: no file

VARIABLES fn, chan, entered  \* the mobile: frame, channel, frames spent on it

\* History: frames since the last dedicated block; whether a common block of
\* Separation frames after it or more was reported, and whether one of less
\* than half a hyperframe after it was; whether the last publication failed.
VARIABLES age, later, over, lost

tap == <<dernier_chan_nr, fn_dedie, fn_dedie_vue, trx_chan_nr, told, cfg>>
mobile == <<fn, chan, entered>>
vars == <<tap, mobile, age, later, over, lost>>

\* From here on a dedicated block is too old for its age to matter.
OldAge == Hyperframe \div 2 + MaxLate

Init ==
  /\ dernier_chan_nr = Released /\ fn_dedie = 0 /\ fn_dedie_vue = FALSE
  /\ trx_chan_nr = Released /\ told = Released /\ cfg = Released
  /\ fn \in 0 .. Hyperframe - 1 /\ chan = Common /\ entered = MaxLate
  /\ age = OldAge /\ later = TRUE /\ over = TRUE /\ lost = FALSE

\* Faulty variant: the release does not reset the channel passed on last.
PassedOnOnce(c) ==
  IF c \notin Tch \cup {Released, trx_chan_nr}
  THEN trx_chan_nr' = c /\ told' = c
  ELSE told' = (IF c = Released THEN c ELSE told) /\ UNCHANGED trx_chan_nr

\* Passing on to calypso_trx: a release carries chan_nr 0, which is
\* never the channel passed on last.
PassedOn(c) ==
  IF c \notin Tch /\ (c = Released \/ c # trx_chan_nr)
  THEN trx_chan_nr' = c /\ told' = c
  ELSE UNCHANGED <<trx_chan_nr, told>>

\* dcch_cfg_publier(): a failed open leaves the file alone, a failed write
\* leaves it empty; either returns before calypso_trx is told.
Publier(c) ==
  \/ cfg' = c /\ lost' = FALSE /\ PassedOn(c)
  \/ cfg' \in {cfg, Empty} /\ lost' = TRUE /\ UNCHANGED <<trx_chan_nr, told>>

\* DATA_CONF, DATA_IND or GPRS_DL_BLOCK_IND on a dedicated channel.
DedicatedBlock ==
  /\ chan \in Dedicated
  /\ fn_dedie' = fn /\ fn_dedie_vue' = TRUE
  /\ dernier_chan_nr' = chan
  /\ IF chan # dernier_chan_nr THEN Publier(chan)
     ELSE UNCHANGED <<cfg, trx_chan_nr, told, lost>>
  /\ age' = 0 /\ later' = FALSE /\ over' = FALSE
  /\ UNCHANGED mobile

\* fn - fn_dedie in 32 bits, then modulo the hyperframe.
Ecart(f) == ((f - fn_dedie + Word) % Word) % Hyperframe

\* Faulty variant: the separation is not asked for.
ClearlyLaterAny(f) == ~ fn_dedie_vue \/ Ecart(f) < Hyperframe \div 2

ClearlyLater(f) ==
  \/ ~ fn_dedie_vue
  \/ Ecart(f) >= Separation /\ Ecart(f) < Hyperframe \div 2

\* A block on a common channel, reported late frames after its own.
CommonBlock(late) ==
  /\ chan = Common \/ late > entered
  /\ LET f == (fn - late + Hyperframe) % Hyperframe
     IN  IF dernier_chan_nr # Released /\ ClearlyLater(f)
         THEN /\ dernier_chan_nr' = Released /\ fn_dedie_vue' = FALSE
              /\ Publier(Released)
         ELSE UNCHANGED <<dernier_chan_nr, fn_dedie_vue, cfg, trx_chan_nr, told, lost>>
  /\ later' = (later \/ age - late >= Separation)
  /\ over' = (over \/ age - late \in Separation .. Hyperframe \div 2 - 1)
  /\ UNCHANGED <<fn_dedie, mobile, age>>

MoveTo(c) ==
  /\ c # chan /\ chan' = c /\ entered' = 0
  /\ UNCHANGED <<tap, fn, age, later, over, lost>>

NewFrame ==
  /\ fn' = (fn + 1) % Hyperframe
  /\ entered' = IF entered < MaxLate THEN entered + 1 ELSE entered
  /\ age' = IF age < OldAge THEN age + 1 ELSE age
  /\ UNCHANGED <<tap, chan, later, over, lost>>

Next ==
  \/ DedicatedBlock
  \/ \E late \in 0 .. MaxLate : CommonBlock(late)
  \/ \E c \in Dedicated \cup {Common} : MoveTo(c)
  \/ NewFrame

Spec == Init /\ [][Next]_vars

-----------------------------------------------------------------------------
TypeOK ==
  /\ dernier_chan_nr \in Dedicated \cup {Released} /\ fn_dedie \in 0 .. Hyperframe - 1
  /\ fn_dedie_vue \in BOOLEAN /\ cfg \in Dedicated \cup {Released, Empty}
  /\ {trx_chan_nr, told} \subseteq Sdcch \cup Pdch \cup {Released}
  /\ fn \in 0 .. Hyperframe - 1 /\ chan \in Dedicated \cup {Common}
  /\ entered \in 0 .. MaxLate /\ age \in 0 .. OldAge
  /\ later \in BOOLEAN /\ over \in BOOLEAN /\ lost \in BOOLEAN

(***************************************************************************)
(* A late common block does not cut a connection: the channel is released   *)
(* only when a common block was "clearly LATER than the last block of the   *)
(* dedicated channel" (trame_complete), also around the end of the          *)
(* hyperframe, where the 32-bit difference underflows.                      *)
(***************************************************************************)
ReleaseIsDue == dernier_chan_nr = Released => later

(***************************************************************************)
(* A common block clearly later than the last dedicated one, and less than  *)
(* half a hyperframe later, releases the channel: "the reliable signal is a *)
(* block received or sent on a NON-dedicated channel" (trame_complete).     *)
(***************************************************************************)
ReleaseIsSeen == over => dernier_chan_nr = Released

(***************************************************************************)
(* The readers of the file and the DSP work on one channel: calypso_trx was *)
(* told of the SDCCH, the PDCH or the release that stands in the file, also *)
(* when the mobile comes back to a channel it has used before (a TCH keeps  *)
(* the SDCCH it was assigned from); and that channel is the one learnt,     *)
(* unless its own publication failed (dcch_cfg_publier).                    *)
(***************************************************************************)
TrxKnowsChannel ==
  /\ cfg \notin Tch \cup {Empty} => told = cfg
  /\ ~ lost => cfg = dernier_chan_nr
=============================================================================
