----------------------------- MODULE KcPublish ------------------------------
(***************************************************************************)
(* publish_kc() of the gr-gsm layer 1 (l1-grgsm/calypso_l1_grgsm.c): the    *)
(* cipher mode and key that the firmware loads into the mailbox, word by    *)
(* word, are copied to a file for the receiver.  A switch to cleartext is   *)
(* held back until it has been seen Grace times in a row.                   *)
(*                                                                         *)
(* The four words of a_kc are two halves here, a mode is on or off, and the *)
(* calls between two observations (KC_PUBLISH_EVERY) do nothing.            *)
(***************************************************************************)
EXTENDS Integers

CONSTANTS
  Keys,     \* cipher keys, positive integers; a half of a_kc holds one or 0
  Grace     \* KC_CLEAR_GRACE

ASSUME KcAssumption == Keys \subseteq Nat \ {0} /\ Grace \in Nat \ {0}

VARIABLES
  d_a5mode, a_kc,         \* the mailbox
  target, todo,           \* what the firmware is loading, the words it has not written
  last,                   \* the record published last, None before
  file,                   \* the record in the file
  clear_pending,
  clears                  \* history: clear observations in a row, up to Grace

kcVars == <<d_a5mode, a_kc, target, todo, last, file, clear_pending, clears>>

Halves == {"lo", "hi"}
KeyWords(k) == [h \in Halves |-> k]
Clear == KeyWords(0)
None == [h \in Halves |-> -1]

-----------------------------------------------------------------------------
(* The firmware.                                                            *)

\* DM_REL_REQ and the like switch ciphering off, a cipher mode command or an
\* assignment loads a key.
Load(k) ==
  /\ todo = {}
  /\ target' = k
  /\ todo' = IF k = 0 THEN {"mode"} ELSE {"mode"} \cup Halves
  /\ UNCHANGED <<d_a5mode, a_kc, last, file, clear_pending, clears>>

\* One word of it, in the order the compiler chose.
WriteWord(w) ==
  /\ w \in todo
  /\ todo' = todo \ {w}
  /\ d_a5mode' = IF w = "mode" THEN target # 0 ELSE d_a5mode
  /\ a_kc' = IF w = "mode" THEN a_kc ELSE [a_kc EXCEPT ![w] = target]
  /\ UNCHANGED <<target, last, file, clear_pending, clears>>

-----------------------------------------------------------------------------
(* publish_kc().                                                            *)

\* The record of the mailbox: a mode without a key is cleartext.
Observed == IF d_a5mode THEN a_kc ELSE Clear

Ciphered == last \notin {None, Clear}

\* A switch to cleartext that may be an assignment in progress.
HeldBack == Observed = Clear /\ Ciphered /\ clear_pending + 1 < Grace

\* Faulty variant: only a publication ends the count of clear observations.
SeenKeepsCount == last = Observed /\ UNCHANGED <<last, file, clear_pending>>

\* Nothing new.
Seen == last = Observed /\ clear_pending' = 0 /\ UNCHANGED <<last, file>>

Wait ==
  /\ last # Observed /\ HeldBack
  /\ clear_pending' = clear_pending + 1
  /\ UNCHANGED <<last, file>>

\* Faulty variant: the record counts as published although the write failed.
WriteForgets(ok) ==
  /\ last # Observed /\ ~HeldBack
  /\ clear_pending' = 0
  /\ last' = Observed /\ file' = IF ok THEN Observed ELSE file

\* The record is written; open() or pwrite() may fail.
Write(ok) ==
  /\ last # Observed /\ ~HeldBack
  /\ clear_pending' = 0
  /\ IF ok THEN last' = Observed /\ file' = Observed ELSE UNCHANGED <<last, file>>

Publish(ok) ==
  /\ Seen \/ Wait \/ Write(ok)
  /\ clears' = IF Observed # Clear THEN 0 ELSE IF clears < Grace THEN clears + 1 ELSE clears
  /\ UNCHANGED <<d_a5mode, a_kc, target, todo>>

-----------------------------------------------------------------------------
KcInit ==
  /\ d_a5mode = FALSE /\ a_kc = Clear
  /\ target = 0 /\ todo = {}
  /\ last = None /\ file = None /\ clear_pending = 0
  /\ clears = 0

KcFirmware ==
  \/ \E k \in Keys \cup {0} : Load(k)
  \/ \E w \in {"mode"} \cup Halves : WriteWord(w)

KcTick == \E ok \in BOOLEAN : Publish(ok)

KcNext == KcFirmware \/ KcTick

KcSpec == KcInit /\ [][KcNext]_kcVars

-----------------------------------------------------------------------------
(* Properties.                                                              *)
Words == [Halves -> Keys \cup {0}]

KcTypeOK ==
  /\ d_a5mode \in BOOLEAN /\ a_kc \in Words
  /\ target \in Keys \cup {0} /\ todo \subseteq {"mode"} \cup Halves
  /\ {last, file} \subseteq Words \cup {None}
  /\ clear_pending \in 0 .. Grace - 1 /\ clears \in 0 .. Grace

\* The receiver is told to stop deciphering only after Grace observations of
\* cleartext in a row: an assignment that reloads the key in between does not
\* show ("the firmware clears d_a5mode on every DM_REL_REQ, including during an
\* Assignment Command where the Kc is reloaded right after").
ClearIsConfirmed ==
  [][last' = Clear /\ Ciphered => clears' = Grace]_kcVars

\* Once the firmware has finished loading, the receiver gets what it loaded,
\* whatever half-loaded key was published meanwhile and however often the file
\* could not be written.
SettledIsPublished ==
  <>[](todo = {}) => <>[](file = KeyWords(target))
=============================================================================
