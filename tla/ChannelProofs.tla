---------------------------- MODULE ChannelProofs ---------------------------
(***************************************************************************)
(* How the mobile gets a dedicated channel and which one it is on: the      *)
(* request reference of its access attempts, then the channel learnt by the *)
(* tap.                                                                     *)
(***************************************************************************)
EXTENDS DcchTap, Rach, TLAPS

-----------------------------------------------------------------------------
(* The pairing of access attempts and confirmations for a queue of any      *)
(* length, index counters of any width it divides and any set of frames,    *)
(* as long as the attempts fit in the queue and neither frame 0 nor a       *)
(* d_rach value of 0 occurs (Usable; see the hazards of calypso_trx.c:378,  *)
(* 618 and 623).  The invariant says that the queue holds exactly the       *)
(* attempts that wait for a confirmation, in their order.                   *)

Usable ==
  /\ MaxPending <= QueueSize /\ 0 \notin Frames
  /\ Bsic # 0 \/ 0 \notin Ras

-----------------------------------------------------------------------------
(* Remainders.                                                              *)
LEMMA ModUnique ==
  ASSUME NEW q \in Nat \ {0}, NEW x \in Int, NEW d \in Int, NEW e \in 0 .. q - 1, x = q * d + e
  PROVE  x % q = e
<1> DEFINE c == x \div q  g == x % q
<1>1. x = q * c + g /\ g \in 0 .. q - 1 /\ c \in Int
  OBVIOUS
<1> HIDE DEF c, g
<1> DEFINE k == d - c
<1>2. q * k = g - e /\ k \in Int
  BY <1>1
<1>3. q * k < q /\ q * k > -q
  BY <1>1, <1>2
<1> HIDE DEF k
<1>4. k = 0
  BY <1>2, <1>3
<1>5. g = e
  BY <1>1, <1>2, <1>4
<1> QED BY <1>5 DEF g

\* Taking away a multiple of q.
LEMMA ModShift ==
  ASSUME NEW q \in Nat \ {0}, NEW w \in Nat, w % q = 0, NEW x \in Nat
  PROVE  (x - w) % q = x % q
<1> DEFINE a == x \div q  b == w \div q  g == x % q
<1>1. w = q * b /\ x = q * a + g /\ a \in Int /\ b \in Int /\ g \in 0 .. q - 1
  OBVIOUS
<1> HIDE DEF a, b, g
<1>2. x - w = q * (a - b) + g /\ a - b \in Int
  BY <1>1
<1>3. (x - w) % q = g
  BY <1>1, <1>2, ModUnique
<1> QED BY <1>3 DEF g

\* Less than q apart, two numbers differ modulo q.
LEMMA ModApart ==
  ASSUME NEW q \in Nat \ {0}, NEW x \in Nat, NEW y \in Nat, x < y, y < x + q
  PROVE  x % q # y % q
<1>1. x = q * (x \div q) + (x % q) /\ y = q * (y \div q) + (y % q)
  OBVIOUS
<1>2. x % q \in 0 .. q - 1 /\ y % q \in 0 .. q - 1 /\ x \div q \in Int /\ y \div q \in Int
  OBVIOUS
<1> SUFFICES ASSUME x % q = y % q PROVE FALSE
  OBVIOUS
<1>3. y - x = q * ((y \div q) - (x \div q))
  BY <1>1, <1>2
<1> DEFINE d == (y \div q) - (x \div q)
<1>4. d \in Int /\ q * d > 0 /\ q * d < q
  BY <1>2, <1>3
<1> HIDE DEF d
<1> QED BY <1>4

LEMMA Sizes ==
  /\ QueueSize \in Nat \ {0} /\ Wrap \in Nat \ {0} /\ Wrap % QueueSize = 0 /\ Wrap > QueueSize
  /\ MaxPending \in Nat
<1>1. /\ QueueSize \in Nat \ {0} /\ Wrap \in Nat /\ Wrap % QueueSize = 0 /\ Wrap > QueueSize
      /\ MaxPending \in Nat
  BY RachAssumption, Zenon DEF RachAssumption
<1>2. Wrap # 0
  BY <1>1
<1> QED BY <1>1, <1>2

LEMMA FramesAreNat == Frames \subseteq Nat
BY RachAssumption, Zenon DEF RachAssumption

LEMMA ModWrap ==
  ASSUME NEW x \in Nat, x < Wrap + Wrap
  PROVE  x % Wrap = (IF x < Wrap THEN x ELSE x - Wrap) /\ x % Wrap \in 0 .. Wrap - 1
<1>0. Wrap \in Nat \ {0}
  BY Sizes
<1>1. CASE x < Wrap
  <2>1. x = Wrap * 0 + x /\ x \in 0 .. Wrap - 1
    BY <1>0, <1>1
  <2>2. x % Wrap = x
    BY <1>0, <2>1, ModUnique
  <2> QED BY <1>1, <2>1, <2>2
<1>2. CASE ~ (x < Wrap)
  <2>1. x = Wrap * 1 + (x - Wrap) /\ x - Wrap \in 0 .. Wrap - 1
    BY <1>0, <1>2
  <2>2. x % Wrap = x - Wrap
    BY <1>0, <2>1, ModUnique
  <2> QED BY <1>2, <2>1, <2>2
<1> QED BY <1>1, <1>2

\* The slot of rach_file the counter value x names.
Slot(x) == (x % Wrap) % QueueSize

LEMMA SlotIsMod ==
  ASSUME NEW x \in Nat, x < Wrap + Wrap
  PROVE  Slot(x) = x % QueueSize /\ Slot(x) \in 0 .. QueueSize - 1
<1>0. QueueSize \in Nat \ {0} /\ Wrap \in Nat /\ Wrap % QueueSize = 0
  BY Sizes
<1>1. Slot(x) = x % QueueSize
  <2>1. CASE x < Wrap
    BY <2>1, ModWrap DEF Slot
  <2>2. CASE ~ (x < Wrap)
    <3>1. x % Wrap = x - Wrap
      BY <1>0, <2>2, ModWrap
    <3>2. (x - Wrap) % QueueSize = x % QueueSize
      BY <1>0, ModShift
    <3> QED BY <3>1, <3>2 DEF Slot
  <2> QED BY <2>1, <2>2
<1>2. x % QueueSize \in 0 .. QueueSize - 1
  BY <1>0
<1> QED BY <1>1, <1>2

LEMMA SlotsApart ==
  ASSUME NEW x \in Nat, NEW y \in Nat, x < y, y < x + QueueSize, y < Wrap + Wrap
  PROVE  Slot(x) # Slot(y)
<1>1. QueueSize \in Nat \ {0} /\ Wrap \in Nat
  BY Sizes
<1>2. Slot(x) = x % QueueSize /\ Slot(y) = y % QueueSize
  <2>1. x < Wrap + Wrap
    BY <1>1
  <2> QED BY <2>1, SlotIsMod
<1> QED BY <1>1, <1>2, ModApart

\* A counter that has wrapped goes on as if it had not.
LEMMA WrapGoesOn ==
  ASSUME NEW x \in Nat, NEW k \in Nat, x + k < Wrap + Wrap
  PROVE  ((x % Wrap) + k) % Wrap = (x + k) % Wrap
<1>0. Wrap \in Nat \ {0}
  BY Sizes
<1>1. CASE x < Wrap
  BY <1>0, <1>1, ModWrap
<1>2. CASE ~ (x < Wrap)
  <2>1. x % Wrap = x - Wrap /\ x - Wrap + k \in Nat /\ x - Wrap + k < Wrap
    BY <1>0, <1>2, ModWrap
  <2>2. (x - Wrap + k) % Wrap = x - Wrap + k
    BY <1>0, <2>1, ModWrap
  <2>3. (x + k) % Wrap = x + k - Wrap
    BY <1>0, <1>2, ModWrap
  <2> QED BY <1>0, <2>1, <2>2, <2>3
<1> QED BY <1>1, <1>2

-----------------------------------------------------------------------------
(* The queue.                                                               *)
Waiting == Len(sent)

QueueInv ==
  /\ rach_file \in [0 .. QueueSize - 1 -> Ras \cup {0}]
  /\ rach_file_r \in 0 .. Wrap - 1
  /\ sent \in Seq(Ras) /\ Waiting <= MaxPending
  /\ rach_file_w = (rach_file_r + Waiting) % Wrap
  /\ \A i \in 1 .. Waiting : rach_file[Slot(rach_file_r + i - 1)] = sent[i]

PairInv ==
  /\ rach_fn \in [Ras -> Frames \cup {0}] /\ mem \in [Ras -> Frames \cup {NotSent}]
  /\ rach_ra \in Ras \cup {NoRa}
  /\ \A ra \in Ras : rach_fn[ra] = IF mem[ra] = NotSent THEN 0 ELSE mem[ra]
  /\ rach_ra # NoRa => mem[rach_ra] # NotSent

RachInv == QueueInv /\ PairInv

LEMMA RachInitInv == RachInit => RachInv
<1> SUFFICES ASSUME RachInit PROVE RachInv
  OBVIOUS
<1>1. rach_file_r = 0 /\ rach_file_w = 0 /\ Waiting = 0 /\ sent \in Seq(Ras)
  BY DEF RachInit, Waiting
<1>2. rach_file_r \in 0 .. Wrap - 1 /\ Waiting <= MaxPending /\ 0 % Wrap = 0
  BY <1>1, Sizes, ModWrap
<1>3. QueueInv
  BY <1>1, <1>2 DEF RachInit, QueueInv
<1>4. PairInv
  BY DEF RachInit, PairInv
<1> QED BY <1>3, <1>4 DEF RachInv

\* The code's count of the queue is the number of attempts that wait.
LEMMA QueuedIsWaiting ==
  ASSUME Usable, QueueInv
  PROVE  Queued = Waiting /\ Waiting \in Nat /\ Waiting <= QueueSize /\ Waiting < Wrap
<1>1. /\ Waiting \in Nat /\ Waiting <= QueueSize /\ Waiting < Wrap /\ rach_file_r \in 0 .. Wrap - 1
      /\ Wrap \in Nat
  BY Sizes DEF Usable, QueueInv, Waiting
<1> DEFINE x == rach_file_r + Waiting
<1>2. rach_file_w = IF x < Wrap THEN x ELSE x - Wrap
  <2>1. x \in Nat /\ x < Wrap + Wrap
    BY <1>1
  <2>2. rach_file_w = x % Wrap
    BY DEF QueueInv
  <2> HIDE DEF x
  <2> QED BY <2>1, <2>2, ModWrap
<1>3. rach_file_w - rach_file_r + Wrap \in {Waiting, Waiting + Wrap}
  BY <1>1, <1>2
<1>4. Waiting % Wrap = Waiting /\ (Waiting + Wrap) % Wrap = Waiting
  BY <1>1, ModWrap
<1> QED BY <1>1, <1>3, <1>4 DEF Queued

\* api_write() at NDB_D_RACH: a free slot is filled, the ones in use stay.
LEMMA WriteRachInv ==
  ASSUME Usable, RachInv, NEW ra \in Ras, WriteRach(ra)
  PROVE  RachInv'
<1> DEFINE n == Waiting  r == rach_file_r
<1>0. /\ n \in Nat /\ n < MaxPending /\ MaxPending <= QueueSize /\ QueueSize < Wrap /\ r \in 0 .. Wrap - 1
      /\ Wrap \in Nat /\ QueueSize \in Nat \ {0} /\ MaxPending \in Nat /\ sent \in Seq(Ras)
  BY Sizes DEF RachInv, QueueInv, WriteRach, Waiting, Usable
<1>1. ~ (ra = 0 /\ Bsic = 0)
  BY DEF Usable
<1>2. Enqueue(ra) /\ sent' = Append(sent, ra) /\ UNCHANGED <<rach_fn, rach_ra, mem>>
  BY <1>1 DEF WriteRach
<1>3. ~ Full
  BY <1>0, QueuedIsWaiting DEF Full, RachInv
<1>4. /\ rach_file_r' = r /\ rach_file_w' = (rach_file_w + 1) % Wrap
      /\ rach_file' = [rach_file EXCEPT ![rach_file_w % QueueSize] = ra]
  BY <1>2, <1>3 DEF Enqueue
<1>5. /\ sent' \in Seq(Ras) /\ Waiting' = n + 1 /\ sent'[n + 1] = ra
      /\ \A i \in 1 .. n : sent'[i] = sent[i]
  BY <1>0, <1>2 DEF Waiting
<1>6. rach_file_w' = (r + (n + 1)) % Wrap
  <2>1. r + n \in Nat /\ r + n + 1 < Wrap + Wrap /\ r + (n + 1) = (r + n) + 1
    BY <1>0
  <2>2. (((r + n) % Wrap) + 1) % Wrap = ((r + n) + 1) % Wrap
    BY <2>1, WrapGoesOn
  <2> QED BY <1>4, <2>1, <2>2 DEF RachInv, QueueInv
<1>7. rach_file_w % QueueSize = Slot(r + n) /\ Slot(r + n) \in 0 .. QueueSize - 1
  <2>1. r + n \in Nat /\ r + n < Wrap + Wrap
    BY <1>0
  <2> QED BY <2>1, SlotIsMod DEF Slot, RachInv, QueueInv
<1>8. rach_file' \in [0 .. QueueSize - 1 -> Ras \cup {0}]
  BY <1>4 DEF RachInv, QueueInv
<1>9. ASSUME NEW i \in 1 .. n + 1 PROVE rach_file'[Slot(r + i - 1)] = sent'[i]
  <2>1. CASE i = n + 1
    <3>1. r + i - 1 = r + n
      BY <1>0, <2>1
    <3>2. rach_file'[Slot(r + n)] = ra
      BY <1>4, <1>7 DEF RachInv, QueueInv
    <3> QED BY <1>5, <2>1, <3>1, <3>2
  <2>2. CASE i \in 1 .. n
    <3>1. r + i - 1 \in Nat /\ r + i - 1 < r + n /\ r + n < (r + i - 1) + QueueSize
          /\ r + n < Wrap + Wrap /\ r + n \in Nat /\ r + i - 1 < Wrap + Wrap
      BY <1>0, <2>2
    <3>2. Slot(r + i - 1) # Slot(r + n) /\ Slot(r + i - 1) \in 0 .. QueueSize - 1
      BY <3>1, SlotsApart, SlotIsMod
    <3>3. rach_file'[Slot(r + i - 1)] = rach_file[Slot(r + i - 1)]
      BY <1>4, <1>7, <3>2 DEF RachInv, QueueInv
    <3>4. rach_file[Slot(r + i - 1)] = sent[i]
      BY <2>2 DEF RachInv, QueueInv
    <3> QED BY <1>5, <2>2, <3>3, <3>4
  <2> QED BY <1>0, <1>9, <2>1, <2>2
<1>10. QueueInv'
  <2>1. Waiting' <= MaxPending /\ r' \in 0 .. Wrap - 1
    BY <1>0, <1>4, <1>5
  <2> QED BY <1>4, <1>5, <1>6, <1>8, <1>9, <2>1 DEF QueueInv
<1>11. PairInv'
  BY <1>2 DEF RachInv, PairInv
<1> QED BY <1>10, <1>11 DEF RachInv

\* calypso_trx_rach_conf(): the oldest attempt waiting is the one confirmed.
LEMMA RachConfInv ==
  ASSUME Usable, RachInv, NEW frame \in Frames, RachConf(frame)
  PROVE  RachInv'
<1> DEFINE n == Waiting  r == rach_file_r
<1>0. /\ n \in Nat \ {0} /\ n <= MaxPending /\ n < Wrap /\ r \in 0 .. Wrap - 1
      /\ Wrap \in Nat /\ QueueSize \in Nat \ {0} /\ MaxPending \in Nat /\ sent \in Seq(Ras)
  <2>1. sent # <<>> /\ sent \in Seq(Ras) /\ n = Len(sent)
    BY DEF RachInv, QueueInv, RachConf, Waiting
  <2>2. n \in Nat \ {0}
    BY <2>1
  <2> QED BY <2>1, <2>2, Sizes DEF RachInv, QueueInv, Usable
<1>1. frame # 0 /\ Queued # 0
  BY <1>0, QueuedIsWaiting DEF Usable, RachInv
<1>2. /\ Pair(frame) /\ UNCHANGED <<rach_file, rach_file_w>>
      /\ sent' = Tail(sent) /\ mem' = [mem EXCEPT ![Head(sent)] = frame]
  BY <1>1 DEF RachConf
<1>3. rach_file[r % QueueSize] = Head(sent) /\ Head(sent) \in Ras
  <2>1. 1 \in 1 .. n /\ r + 1 - 1 = r /\ r < Wrap + Wrap /\ r \in Nat /\ sent # <<>>
    BY <1>0 DEF Waiting
  <2>2. Slot(r) = r % QueueSize
    BY <2>1, SlotIsMod
  <2>3. rach_file[Slot(r + 1 - 1)] = sent[1]
    BY <2>1 DEF RachInv, QueueInv
  <2>4. Head(sent) = sent[1] /\ Head(sent) \in Ras
    BY <1>0, <2>1
  <2> QED BY <2>1, <2>2, <2>3, <2>4
<1>4. /\ rach_file_r' = (r + 1) % Wrap /\ rach_ra' = Head(sent)
      /\ rach_fn' = [rach_fn EXCEPT ![Head(sent)] = frame]
  BY <1>2, <1>3 DEF Pair
<1>5. /\ sent' \in Seq(Ras) /\ Waiting' = n - 1
      /\ \A i \in 1 .. n - 1 : sent'[i] = sent[i + 1]
  BY <1>0, <1>2 DEF Waiting
<1>6. ASSUME NEW k \in 0 .. n - 1
      PROVE  (rach_file_r' + k) % Wrap = (r + (k + 1)) % Wrap /\ rach_file_r' \in 0 .. Wrap - 1
  <2>1. r + 1 \in Nat /\ r + 1 < Wrap + Wrap /\ k \in Nat /\ (r + 1) + k < Wrap + Wrap
        /\ (r + 1) + k = r + (k + 1)
    BY <1>0, <1>6
  <2>2. (((r + 1) % Wrap) + k) % Wrap = ((r + 1) + k) % Wrap
    BY <2>1, WrapGoesOn
  <2>3. (r + 1) % Wrap \in 0 .. Wrap - 1
    BY <2>1, ModWrap
  <2> QED BY <1>4, <2>1, <2>2, <2>3
<1>7. rach_file_w' = (rach_file_r' + Waiting') % Wrap
  <2>1. n - 1 \in 0 .. n - 1 /\ (n - 1) + 1 = n
    BY <1>0
  <2>2. (rach_file_r' + (n - 1)) % Wrap = (r + n) % Wrap
    BY <1>6, <2>1
  <2> QED BY <1>2, <1>5, <2>2 DEF RachInv, QueueInv
<1>8. ASSUME NEW i \in 1 .. n - 1 PROVE rach_file'[Slot(rach_file_r' + i - 1)] = sent'[i]
  <2>1. /\ i - 1 \in 0 .. n - 1 /\ i + 1 \in 1 .. n /\ r + ((i - 1) + 1) = r + (i + 1) - 1
        /\ rach_file_r' \in Int /\ rach_file_r' + (i - 1) = rach_file_r' + i - 1
    BY <1>0, <1>6, <1>8
  <2>2. Slot(rach_file_r' + i - 1) = Slot(r + (i + 1) - 1)
    BY <1>6, <2>1 DEF Slot
  <2>3. rach_file[Slot(r + (i + 1) - 1)] = sent[i + 1]
    BY <2>1 DEF RachInv, QueueInv
  <2> QED BY <1>2, <1>5, <2>2, <2>3
<1>9. QueueInv'
  <2>1. rach_file_r' \in 0 .. Wrap - 1 /\ Waiting' <= MaxPending
    BY <1>0, <1>5, <1>6
  <2> QED BY <1>2, <1>5, <1>7, <1>8, <2>1 DEF RachInv, QueueInv
<1>10. PairInv'
  <2>1. frame # NotSent
    <3>1. Frames \subseteq Nat
      BY FramesAreNat
    <3> QED BY <3>1 DEF NotSent
  <2> QED BY <1>2, <1>3, <1>4, <2>1 DEF RachInv, PairInv
<1> QED BY <1>9, <1>10 DEF RachInv

LEMMA RachNextInv ==
  ASSUME Usable
  PROVE  RachInv /\ [RachNext]_rachVars => RachInv'
<1> SUFFICES ASSUME RachInv, [RachNext]_rachVars PROVE RachInv'
  OBVIOUS
<1>1. CASE UNCHANGED rachVars
  BY <1>1 DEF rachVars, trx, RachInv, QueueInv, PairInv, Waiting
<1> QED BY <1>1, WriteRachInv, RachConfInv DEF RachNext

LEMMA RachAlways ==
  ASSUME Usable
  PROVE  RachSpec => []RachInv
BY RachInitInv, RachNextInv, PTL DEF RachSpec

\* The fields of a reference come back from the two bytes they are packed in.
LEMMA LowByte ==
  ASSUME NEW a \in 0 .. 31, NEW b \in 0 .. 6, NEW c \in 0 .. 7, NEW d \in 0 .. 25
  PROVE  LET word == (a * 8 + b) + 256 * (c * 32 + d)
         IN  word % 256 = a * 8 + b /\ word \div 256 = c * 32 + d
OBVIOUS

LEMMA Fields ==
  ASSUME NEW a \in 0 .. 31, NEW b \in 0 .. 6, NEW c \in 0 .. 7, NEW d \in 0 .. 25
  PROVE  /\ ((a * 8 + b) \div 8) % 32 = a /\ (a * 8 + b) % 8 = b
         /\ (c * 32 + d) \div 32 = c /\ (c * 32 + d) % 32 = d
<1>1. (a * 8 + b) \div 8 = a /\ a % 32 = a
  OBVIOUS
<1>2. (a * 8 + b) % 8 = b
  OBVIOUS
<1>3. (c * 32 + d) \div 32 = c /\ (c * 32 + d) % 32 = d
  OBVIOUS
<1> QED BY <1>1, <1>2, <1>3

LEMMA PackedIsReadBack ==
  ASSUME NEW frame \in Nat
  PROVE  Reference(Packed(frame)) = FrameFields(frame)
<1> DEFINE a == (frame \div 1326) % 32  t3 == frame % 51  b == t3 \div 8  c == t3 % 8  d == frame % 26
           word == (a * 8 + b) + 256 * (c * 32 + d)
<1>1. a \in 0 .. 31 /\ t3 \in 0 .. 50 /\ d \in 0 .. 25
  OBVIOUS
<1>2. Packed(frame) = word
  BY DEF Packed
<1> HIDE DEF a, t3, d
<1>3. b \in 0 .. 6 /\ c \in 0 .. 7
  BY <1>1
<1>4. t3 = b * 8 + c
  BY <1>1
<1> HIDE DEF b, c
<1>5. word % 256 = a * 8 + b /\ word \div 256 = c * 32 + d
  BY <1>1, <1>3, LowByte
<1> HIDE DEF word
<1>6. Reference(word) = [t1 |-> a, t3 |-> b * 8 + c, t2 |-> d]
  <2>1. /\ ((a * 8 + b) \div 8) % 32 = a /\ (a * 8 + b) % 8 = b
        /\ (c * 32 + d) \div 32 = c /\ (c * 32 + d) % 32 = d
    BY <1>1, <1>3, Fields
  <2>2. ((word % 256) \div 8) % 32 = a /\ (word % 256) % 8 = b
    BY <1>5, <2>1, Zenon
  <2>3. (word \div 256) \div 32 = c /\ (word \div 256) % 32 = d
    BY <1>5, <2>1, Zenon
  <2> QED BY <2>2, <2>3, Zenon DEF Reference
<1>7. 26 * 51 = 1326
  OBVIOUS
<1> QED BY <1>2, <1>4, <1>5, <1>6, <1>7 DEF FrameFields, a, t3, d

\* The indices, the frames kept and the attempts pending keep their ranges, the
\* wrap of both indices included (calypso_trx_rach_conf, api_write).
THEOREM RachTypeCorrectness ==
  ASSUME Usable
  PROVE  RachSpec => []RachTypeOK
<1>1. RachInv => RachTypeOK
  <2> SUFFICES ASSUME RachInv PROVE RachTypeOK
    OBVIOUS
  <2>1. sent \in Seq(Ras) /\ Len(sent) <= MaxPending /\ rach_file_r \in 0 .. Wrap - 1
    BY DEF RachInv, QueueInv, Waiting
  <2>2. rach_file_w \in 0 .. Wrap - 1
    <3>1. rach_file_r + Waiting \in Nat /\ Wrap \in Nat \ {0}
      BY <2>1, Sizes DEF Waiting
    <3> QED BY <3>1 DEF RachInv, QueueInv
  <2> QED BY <2>1, <2>2 DEF RachInv, QueueInv, PairInv, RachTypeOK
<1> QED BY <1>1, RachAlways, PTL

\* Whatever bursts of attempts wait and however the queue wraps, a frame kept for
\* an RA is the one the mobile holds for it (calypso_trx_rach_conf).
THEOREM PairingIsTheMobiles ==
  ASSUME Usable
  PROVE  RachSpec => []SamePairing
<1>1. RachInv => SamePairing
  BY DEF RachInv, PairInv, SamePairing
<1> QED BY <1>1, RachAlways, PTL

\* The RA confirmed last always has a frame of its own: the read of last_rach in
\* the guest's memory is never needed (pont_last_rach_fn).
THEOREM LastConfirmedIsKnown ==
  ASSUME Usable
  PROVE  RachSpec => []LastRachIsKnown
<1>1. RachInv => LastRachIsKnown
  <2> SUFFICES ASSUME RachInv, rach_ra # NoRa PROVE rach_fn[rach_ra] # 0
    BY DEF LastRachIsKnown
  <2>1. rach_ra \in Ras /\ mem[rach_ra] \in Frames /\ rach_fn[rach_ra] = mem[rach_ra]
    BY DEF RachInv, PairInv
  <2> QED BY <2>1 DEF Usable
<1> QED BY <1>1, RachAlways, PTL

\* The assignment the ARM reads carries, bit for bit, the reference the mobile
\* expects, for every frame number and whatever the BTS sent; an assignment for
\* an RA without a confirmed attempt, or read with MONTANT_REQREF=0, is not
\* touched (pont_reqref_corrigee).
THEOREM MobileAcceptsAssignment ==
  ASSUME Usable
  PROVE  RachSpec => []AssignmentIsAccepted
<1>1. RachInv => AssignmentIsAccepted
  <2> SUFFICES ASSUME RachInv, NEW ra \in Ras, NEW bts
               PROVE  /\ Corrected(ra, bts, FALSE) = bts
                      /\ IF mem[ra] = NotSent
                         THEN Corrected(ra, bts, TRUE) = bts
                         ELSE Reference(Corrected(ra, bts, TRUE)) = FrameFields(mem[ra])
    BY Zenon DEF AssignmentIsAccepted
  <2>1. Corrected(ra, bts, FALSE) = bts
    BY DEF Corrected
  <2>2. CASE mem[ra] = NotSent
    <3>1. rach_fn[ra] = 0
      BY <2>2 DEF RachInv, PairInv
    <3> QED BY <2>1, <2>2, <3>1 DEF Corrected
  <2>3. CASE mem[ra] # NotSent
    <3>1. mem[ra] \in Frames /\ rach_fn[ra] = mem[ra]
      BY <2>3 DEF RachInv, PairInv
    <3>2. mem[ra] \in Nat /\ mem[ra] # 0
      BY <3>1, FramesAreNat DEF Usable
    <3>3. Corrected(ra, bts, TRUE) = Packed(mem[ra])
      BY <3>1, <3>2 DEF Corrected
    <3> QED BY <2>1, <2>3, <3>2, <3>3, PackedIsReadBack
  <2> QED BY <2>2, <2>3
<1> QED BY <1>1, RachAlways, PTL

-----------------------------------------------------------------------------
(* The channel in the side-band file is the channel the DSP was told of,    *)
(* for any channels, hyperframe and word width.  TrxKnowsChannel is not     *)
(* inductive as it stands: whether a channel is passed on is decided by     *)
(* trx_chan_nr, so the invariant adds that this is the channel told last.   *)
(*                                                                         *)
(* That no connection is cut early rests on the frame arithmetic: the       *)
(* invariant DueInv ties the frame numbers of the tap to the age of the     *)
(* last dedicated block, and NotLaterYet shows what the difference in 32    *)
(* bits makes of an age below the separation.                               *)

Inv == TypeOK /\ TrxKnowsChannel /\ told = trx_chan_nr

\* The age of a dedicated block is a natural number.
LEMMA OldAgeType == OldAge \in Nat
BY DcchAssumption DEF DcchAssumption, OldAge

\* Published, or lost on the way: what dcch_cfg_publier() leaves behind.
LEMMA PublierKeepsAgreement ==
  ASSUME NEW c \in Dedicated \cup {Released}, Inv, Publier(c)
  PROVE  /\ cfg' \in Dedicated \cup {Released, Empty}
         /\ {trx_chan_nr', told'} \subseteq Sdcch \cup Pdch \cup {Released}
         /\ told' = trx_chan_nr'
         /\ cfg' \notin Tch \cup {Empty} => told' = cfg'
         /\ lost' \in BOOLEAN
         /\ ~ lost' => cfg' = c
<1> USE DcchAssumption DEF DcchAssumption, Inv, TypeOK, TrxKnowsChannel, Dedicated
<1>1. CASE cfg' = c /\ lost' = FALSE /\ PassedOn(c)
  <2>1. c \in Tch => UNCHANGED <<trx_chan_nr, told>>
    BY <1>1 DEF PassedOn
  <2>2. c \notin Tch => trx_chan_nr' = c /\ told' = c
    BY <1>1 DEF PassedOn
  <2> QED BY <1>1, <2>1, <2>2
<1>2. CASE cfg' \in {cfg, Empty} /\ lost' = TRUE /\ UNCHANGED <<trx_chan_nr, told>>
  BY <1>2
<1> QED BY <1>1, <1>2 DEF Publier

\* Inv holds when the machine starts.
LEMMA InitInv == Init => Inv
<1> SUFFICES ASSUME Init PROVE Inv
  OBVIOUS
<1>1. fn_dedie \in 0 .. Hyperframe - 1 /\ fn \in 0 .. Hyperframe - 1
  BY DcchAssumption DEF DcchAssumption, Init
<1>2. entered \in 0 .. MaxLate /\ age \in 0 .. OldAge
  BY DcchAssumption, OldAgeType DEF DcchAssumption, Init
<1> QED BY <1>1, <1>2 DEF Init, Inv, TypeOK, TrxKnowsChannel

\* Every block, move and frame preserves Inv.
LEMMA NextInv == Inv /\ [Next]_vars => Inv'
<1> SUFFICES ASSUME Inv, [Next]_vars PROVE Inv'
  OBVIOUS
<1>1. CASE DedicatedBlock
  <2>0. fn_dedie' \in 0 .. Hyperframe - 1 /\ age' \in 0 .. OldAge
    BY <1>1, OldAgeType DEF DedicatedBlock, Inv, TypeOK
  <2>1. CASE chan # dernier_chan_nr
    <3>1. Publier(chan) /\ chan \in Dedicated
      BY <1>1, <2>1 DEF DedicatedBlock
    <3>2. /\ cfg' \in Dedicated \cup {Released, Empty}
          /\ {trx_chan_nr', told'} \subseteq Sdcch \cup Pdch \cup {Released}
          /\ told' = trx_chan_nr'
          /\ cfg' \notin Tch \cup {Empty} => told' = cfg'
          /\ lost' \in BOOLEAN
          /\ ~ lost' => cfg' = chan
      BY <3>1, PublierKeepsAgreement
    <3> QED BY <1>1, <2>0, <3>2 DEF DedicatedBlock, mobile, Inv, TypeOK, TrxKnowsChannel
  <2>2. CASE chan = dernier_chan_nr
    BY <1>1, <2>0, <2>2 DEF DedicatedBlock, mobile, Inv, TypeOK, TrxKnowsChannel
  <2> QED BY <2>1, <2>2
<1>2. ASSUME NEW late \in 0 .. MaxLate, CommonBlock(late) PROVE Inv'
  <2>1. /\ later' \in BOOLEAN /\ over' \in BOOLEAN
        /\ fn_dedie' = fn_dedie /\ age' = age /\ UNCHANGED mobile
    BY <1>2 DEF CommonBlock, Inv, TypeOK
  <2>2. CASE Publier(Released) /\ dernier_chan_nr' = Released /\ fn_dedie_vue' = FALSE
    <3>1. /\ cfg' \in Dedicated \cup {Released, Empty}
          /\ {trx_chan_nr', told'} \subseteq Sdcch \cup Pdch \cup {Released}
          /\ told' = trx_chan_nr'
          /\ cfg' \notin Tch \cup {Empty} => told' = cfg'
          /\ lost' \in BOOLEAN
          /\ ~ lost' => cfg' = Released
      BY <2>2, PublierKeepsAgreement
    <3> QED BY <2>1, <2>2, <3>1 DEF mobile, Inv, TypeOK, TrxKnowsChannel
  <2>3. CASE UNCHANGED <<dernier_chan_nr, fn_dedie_vue, cfg, trx_chan_nr, told, lost>>
    BY <2>1, <2>3 DEF mobile, Inv, TypeOK, TrxKnowsChannel
  <2> QED BY <1>2, <2>2, <2>3 DEF CommonBlock
<1>3. ASSUME NEW c \in Dedicated \cup {Common}, MoveTo(c) PROVE Inv'
  <2>1. entered' \in 0 .. MaxLate
    BY <1>3, DcchAssumption DEF DcchAssumption, MoveTo
  <2> QED BY <1>3, <2>1 DEF MoveTo, tap, Inv, TypeOK, TrxKnowsChannel
<1>4. CASE NewFrame
  <2>1. fn' \in 0 .. Hyperframe - 1
    BY <1>4, DcchAssumption DEF DcchAssumption, NewFrame, Inv, TypeOK
  <2>2. entered' \in 0 .. MaxLate /\ age' \in 0 .. OldAge
    BY <1>4, OldAgeType, DcchAssumption DEF DcchAssumption, NewFrame, Inv, TypeOK
  <2> QED BY <1>4, <2>1, <2>2 DEF NewFrame, tap, Inv, TypeOK, TrxKnowsChannel
<1>5. CASE UNCHANGED vars
  BY <1>5 DEF vars, tap, mobile, Inv, TypeOK, TrxKnowsChannel
<1> QED BY <1>1, <1>2, <1>3, <1>4, <1>5 DEF Next

\* Inv is an invariant.
LEMMA Invariance == Spec => []Inv
BY InitInv, NextInv, PTL DEF Spec

(***************************************************************************)
(* A channel number written to the file or passed on to calypso_trx is one  *)
(* of the kinds the readers know; a TCH is never passed on                  *)
(* (dcch_cfg_publier).                                                      *)
(***************************************************************************)
THEOREM TypeCorrectness == Spec => []TypeOK
<1>1. Inv => TypeOK
  BY DEF Inv
<1> QED BY <1>1, Invariance, PTL

(***************************************************************************)
(* The readers of the file and the DSP work on one channel, and it is the   *)
(* channel learnt from the firmware unless its own publication failed       *)
(* (dcch_cfg_publier, trame_complete).                                      *)
(***************************************************************************)
THEOREM ChannelIsShared == Spec => []TrxKnowsChannel
<1>1. Inv => TrxKnowsChannel
  BY DEF Inv
<1> QED BY <1>1, Invariance, PTL

-----------------------------------------------------------------------------
(* No connection is cut early.                                              *)
HalfHyper == Hyperframe \div 2

DueInv ==
  /\ dernier_chan_nr # Released => fn_dedie_vue
  /\ dernier_chan_nr = Released => later
  /\ age < OldAge => fn \in {fn_dedie + age, fn_dedie + age - Hyperframe, fn_dedie + age - 2 * Hyperframe}

LEMMA FrameSizes ==
  /\ Hyperframe \in Nat \ {0} /\ HalfHyper \in Nat /\ 2 * HalfHyper <= Hyperframe
  /\ Separation \in Nat /\ MaxLate \in Nat /\ MaxLate < Separation /\ Separation < HalfHyper
  /\ OldAge = HalfHyper + MaxLate
<1>1. /\ Hyperframe \in Nat \ {0} /\ Separation \in Nat /\ MaxLate \in Nat
      /\ MaxLate < Separation /\ Separation < Hyperframe \div 2
  BY DcchAssumption DEF DcchAssumption
<1>2. Hyperframe \div 2 \in Nat /\ 2 * (Hyperframe \div 2) <= Hyperframe
  BY <1>1
<1> QED BY <1>1, <1>2 DEF HalfHyper, OldAge

\* One subtraction or addition reduces a number less than q away.
LEMMA ModNear ==
  ASSUME NEW q \in Nat \ {0}, NEW x \in Int, -q <= x, x < 2 * q
  PROVE  x % q = IF x < 0 THEN x + q ELSE IF x < q THEN x ELSE x - q
<1> DEFINE c == x \div q  g == x % q
<1>1. x = q * c + g /\ g \in 0 .. q - 1 /\ c \in Int
  OBVIOUS
<1> HIDE DEF c, g
<1>2. c \in {-1, 0, 1}
  <2>1. c <= -2 => q * c <= -2 * q
    BY <1>1
  <2>2. c >= 2 => q * c >= 2 * q
    BY <1>1
  <2> QED BY <1>1, <2>1, <2>2
<1>3. g = IF x < 0 THEN x + q ELSE IF x < q THEN x ELSE x - q
  BY <1>1, <1>2
<1> QED BY <1>3 DEF g

LEMMA DivMod ==
  ASSUME NEW q \in Nat \ {0}, NEW y \in Int
  PROVE  y = q * (y \div q) + (y % q) /\ y \div q \in Int /\ y % q \in 0 .. q - 1
OBVIOUS

\* A term may be reduced first.
LEMMA ModSum ==
  ASSUME NEW q \in Nat \ {0}, NEW w \in Nat, NEW x \in Int
  PROVE  (x + w) % q = (x + (w % q)) % q
<1> DEFINE a == w \div q  r == w % q  c == (x + (w % q)) \div q  g == (x + (w % q)) % q
<1>1. w = q * a + r /\ a \in Int /\ r \in 0 .. q - 1
  OBVIOUS
<1>2. x + r = q * c + g /\ c \in Int /\ g \in 0 .. q - 1
  <2>1. x + r \in Int
    BY <1>1
  <2> QED BY <2>1, DivMod, Zenon
<1> DEFINE e == (x + w) \div q  h == (x + w) % q
<1>3. x + w = q * e + h /\ e \in Int /\ h \in 0 .. q - 1
  OBVIOUS
<1> HIDE DEF a, r, c, g, e, h
<1> DEFINE k == e - a - c
<1>4. q * k = g - h /\ k \in Int
  BY <1>1, <1>2, <1>3
<1>5. q * k < q /\ q * k > -q
  BY <1>2, <1>3, <1>4
<1> HIDE DEF k
<1>6. k = 0
  BY <1>4, <1>5
<1>7. g = h
  BY <1>2, <1>3, <1>4, <1>6
<1> QED BY <1>7 DEF g, h, r

\* What the difference in 32 bits makes of a number of frames.
LEMMA EcartIs ==
  ASSUME NEW f \in 0 .. Hyperframe - 1, fn_dedie \in 0 .. Hyperframe - 1
  PROVE  LET r == Word % Hyperframe
             x == f - fn_dedie
         IN  /\ r \in HalfHyper + MaxLate .. Hyperframe - 1
             /\ x >= 0 => Ecart(f) = x
             /\ x < 0 => Ecart(f) = IF x + r < 0 THEN x + r + Hyperframe ELSE x + r
<1> DEFINE r == Word % Hyperframe  x == f - fn_dedie
<1>1. /\ Hyperframe \in Nat \ {0} /\ Word \in Nat \ {0} /\ Word > Hyperframe
      /\ r \in 0 .. Hyperframe - 1 /\ r >= HalfHyper + MaxLate /\ HalfHyper + MaxLate \in Nat
      /\ x \in Int /\ x < Hyperframe /\ x > -Hyperframe
  BY DcchAssumption, FrameSizes DEF DcchAssumption, HalfHyper
<1>2. (x + Word) % Word = IF x < 0 THEN x + Word ELSE x
  <2> DEFINE y == x + Word
  <2>1. y \in Int /\ -Word <= y /\ y < 2 * Word /\ x = y - Word
    BY <1>1
  <2> HIDE DEF x, r, y
  <2>2. y % Word = IF y < 0 THEN y + Word ELSE IF y < Word THEN y ELSE y - Word
    BY <1>1, <2>1, ModNear, Zenon
  <2>3. y % Word = IF x < 0 THEN x + Word ELSE x
    BY <1>1, <2>1, <2>2
  <2> QED BY <2>3 DEF y
<1>3. Ecart(f) = ((x + Word) % Word) % Hyperframe
  BY DEF Ecart
<1> HIDE DEF x
<1>4. x >= 0 => Ecart(f) = x
  <2> SUFFICES ASSUME x >= 0 PROVE Ecart(f) = x
    OBVIOUS
  <2>1. (x + Word) % Word = x
    BY <1>1, <1>2
  <2>2. Ecart(f) = x % Hyperframe
    BY <1>3, <2>1
  <2> QED BY <1>1, <2>2
<1>5. x < 0 => Ecart(f) = IF x + r < 0 THEN x + r + Hyperframe ELSE x + r
  <2> SUFFICES ASSUME x < 0 PROVE Ecart(f) = IF x + r < 0 THEN x + r + Hyperframe ELSE x + r
    OBVIOUS
  <2>1. Ecart(f) = (x + Word) % Hyperframe
    BY <1>2, <1>3
  <2>2. (x + Word) % Hyperframe = (x + r) % Hyperframe
    BY <1>1, ModSum, Zenon
  <2> HIDE DEF r
  <2>3. x + r \in Int /\ -Hyperframe <= x + r /\ x + r < Hyperframe
    BY <1>1
  <2>4. (x + r) % Hyperframe =
          IF x + r < 0 THEN x + r + Hyperframe
          ELSE IF x + r < Hyperframe THEN x + r ELSE x + r - Hyperframe
    <3>1. x + r < 2 * Hyperframe
      BY <1>1, <2>3
    <3> QED BY <1>1, <2>3, <3>1, ModNear, Zenon
  <2> QED BY <2>1, <2>2, <2>3, <2>4
<1>6. r \in HalfHyper + MaxLate .. Hyperframe - 1
  BY <1>1
<1> QED BY <1>4, <1>5, <1>6 DEF x

\* A block reported late frames after its own, less than the separation after
\* the last dedicated one, is not clearly later.
LEMMA NotLaterYet ==
  ASSUME Inv, DueInv, NEW late \in 0 .. MaxLate, fn_dedie_vue, age - late < Separation
  PROVE  ~ ClearlyLater((fn - late + Hyperframe) % Hyperframe)
<1> DEFINE f == (fn - late + Hyperframe) % Hyperframe  r == Word % Hyperframe
<1>1. /\ fn \in 0 .. Hyperframe - 1 /\ fn_dedie \in 0 .. Hyperframe - 1
      /\ age \in 0 .. OldAge /\ age \in Int /\ late \in 0 .. MaxLate /\ late \in Int
  BY FrameSizes DEF Inv, TypeOK
<1>2. age < OldAge
  BY <1>1, FrameSizes
<1>3. fn \in {fn_dedie + age, fn_dedie + age - Hyperframe, fn_dedie + age - 2 * Hyperframe}
  BY <1>2 DEF DueInv
<1>4. f = (IF fn - late < 0 THEN fn - late + Hyperframe ELSE fn - late) /\ f \in 0 .. Hyperframe - 1
  <2> DEFINE y == fn - late + Hyperframe
  <2>1. y \in Int /\ -Hyperframe <= y /\ y < 2 * Hyperframe /\ fn - late = y - Hyperframe /\ y >= 0
    BY <1>1, FrameSizes
  <2>2. f = y % Hyperframe
    OBVIOUS
  <2> HIDE DEF f, y
  <2>3. y % Hyperframe = IF y < 0 THEN y + Hyperframe ELSE IF y < Hyperframe THEN y ELSE y - Hyperframe
    BY <2>1, FrameSizes, ModNear, Zenon
  <2> QED BY <1>1, <2>1, <2>2, <2>3, FrameSizes
<1> HIDE DEF f
<1>5. /\ r \in HalfHyper + MaxLate .. Hyperframe - 1
      /\ f - fn_dedie >= 0 => Ecart(f) = f - fn_dedie
      /\ f - fn_dedie < 0 =>
           Ecart(f) = IF f - fn_dedie + r < 0 THEN f - fn_dedie + r + Hyperframe ELSE f - fn_dedie + r
  BY <1>1, <1>4, EcartIs
<1> HIDE DEF r
<1>6. f - fn_dedie \in {age - late, age - late - Hyperframe, age - late + Hyperframe}
  BY <1>1, <1>2, <1>3, <1>4, FrameSizes
<1>7. Ecart(f) < Separation \/ Ecart(f) >= HalfHyper
  BY <1>1, <1>4, <1>5, <1>6, FrameSizes
<1>8. Ecart(f) \in Int
  BY <1>1, <1>4, <1>5, FrameSizes
<1>9. ~ ClearlyLater(f)
  BY <1>7, <1>8, FrameSizes DEF ClearlyLater, HalfHyper
<1> QED BY <1>9 DEF f

LEMMA InitDue == Init => DueInv
<1> SUFFICES ASSUME Init PROVE DueInv
  OBVIOUS
<1>1. ~ (age < OldAge)
  BY OldAgeType DEF Init
<1> QED BY <1>1 DEF Init, DueInv

LEMMA NextDue == Inv /\ DueInv /\ [Next]_vars => DueInv'
<1> SUFFICES ASSUME Inv, DueInv, [Next]_vars PROVE DueInv'
  OBVIOUS
<1>0. /\ fn \in 0 .. Hyperframe - 1 /\ fn_dedie \in 0 .. Hyperframe - 1
      /\ age \in 0 .. OldAge /\ later \in BOOLEAN
  BY DEF Inv, TypeOK
<1>1. CASE DedicatedBlock
  <2>1. fn_dedie_vue' = TRUE /\ dernier_chan_nr' # Released
    BY <1>1, DcchAssumption DEF DcchAssumption, DedicatedBlock
  <2>2. fn' = fn_dedie' + age'
    BY <1>0, <1>1, FrameSizes DEF DedicatedBlock, mobile
  <2> QED BY <2>1, <2>2 DEF DueInv
<1>2. ASSUME NEW late \in 0 .. MaxLate, CommonBlock(late) PROVE DueInv'
  <2>1. fn' = fn /\ fn_dedie' = fn_dedie /\ age' = age /\ OldAge' = OldAge
    BY <1>2 DEF CommonBlock, mobile, OldAge
  <2>2. age' < OldAge =>
          fn' \in {fn_dedie' + age', fn_dedie' + age' - Hyperframe, fn_dedie' + age' - 2 * Hyperframe}
    BY <2>1 DEF DueInv
  <2>3. later => later'
    BY <1>2, Zenon DEF CommonBlock
  <2>4. CASE dernier_chan_nr # Released /\ ClearlyLater((fn - late + Hyperframe) % Hyperframe)
    <3>1. fn_dedie_vue
      BY <2>4 DEF DueInv
    <3>2. ~ (age - late < Separation)
      BY <2>4, <3>1, NotLaterYet
    <3>3. age - late >= Separation
      BY <1>0, <3>2, FrameSizes
    <3>4. later'
      BY <1>2, <3>3, Zenon DEF CommonBlock
    <3>5. dernier_chan_nr' = Released
      BY <1>2, <2>4 DEF CommonBlock
    <3> QED BY <2>2, <3>4, <3>5 DEF DueInv
  <2>5. CASE ~ (dernier_chan_nr # Released /\ ClearlyLater((fn - late + Hyperframe) % Hyperframe))
    <3>1. UNCHANGED <<dernier_chan_nr, fn_dedie_vue>>
      BY <1>2, <2>5 DEF CommonBlock
    <3> QED BY <2>2, <2>3, <3>1 DEF DueInv
  <2> QED BY <2>4, <2>5
<1>3. ASSUME NEW c \in Dedicated \cup {Common}, MoveTo(c) PROVE DueInv'
  BY <1>3 DEF MoveTo, tap, DueInv
<1>4. CASE NewFrame
  <2>1. fn' = (IF fn + 1 = Hyperframe THEN 0 ELSE fn + 1)
    <3> DEFINE y == fn + 1
    <3>1. y \in Int /\ -Hyperframe <= y /\ y < 2 * Hyperframe /\ y \in 1 .. Hyperframe
      BY <1>0, FrameSizes
    <3>2. fn' = y % Hyperframe
      BY <1>4 DEF NewFrame
    <3>3. fn' = IF y = Hyperframe THEN 0 ELSE y
      <4> HIDE DEF y
      <4>1. y % Hyperframe = IF y < 0 THEN y + Hyperframe ELSE IF y < Hyperframe THEN y ELSE y - Hyperframe
        BY <3>1, FrameSizes, ModNear, Zenon
      <4> QED BY <3>1, <3>2, <4>1, FrameSizes
    <3> QED BY <3>3
  <2>2. age' = (IF age < OldAge THEN age + 1 ELSE age) /\ fn_dedie' = fn_dedie
    BY <1>4 DEF NewFrame, tap
  <2>3. age' < OldAge => age < OldAge /\ age' = age + 1
    BY <1>0, <2>2, FrameSizes
  <2>4. age' < OldAge =>
          fn' \in {fn_dedie' + age', fn_dedie' + age' - Hyperframe, fn_dedie' + age' - 2 * Hyperframe}
    <3> SUFFICES ASSUME age' < OldAge
                 PROVE  fn' \in {fn_dedie' + age', fn_dedie' + age' - Hyperframe, fn_dedie' + age' - 2 * Hyperframe}
      OBVIOUS
    <3>1. fn \in {fn_dedie + age, fn_dedie + age - Hyperframe, fn_dedie + age - 2 * Hyperframe}
      BY <2>3 DEF DueInv
    <3> QED BY <1>0, <2>1, <2>2, <2>3, <3>1, FrameSizes
  <2> QED BY <1>4, <2>4 DEF NewFrame, tap, DueInv
<1>5. CASE UNCHANGED vars
  BY <1>5 DEF vars, tap, mobile, DueInv
<1> QED BY <1>1, <1>2, <1>3, <1>4, <1>5 DEF Next

(***************************************************************************)
(* A late common block never cuts a connection, wherever in the hyperframe  *)
(* the two blocks lie and whatever the 32-bit difference makes of them      *)
(* (trame_complete).                                                        *)
(***************************************************************************)
THEOREM NoEarlyRelease == Spec => []ReleaseIsDue
<1>1. Spec => []DueInv
  BY InitDue, NextDue, Invariance, PTL DEF Spec
<1>2. DueInv => ReleaseIsDue
  BY DEF DueInv, ReleaseIsDue
<1> QED BY <1>1, <1>2, PTL
=============================================================================
