----------------------------- MODULE SimProofs ------------------------------
(***************************************************************************)
(* The SIM interface for every length of header and data and every set of   *)
(* contents.  NoLostInterrupt is inductive by itself; the others follow     *)
(* from SimInv: what each driver has done to CONF1 and the supply by now    *)
(* (Wiring), which timers can be armed (Armed), what the card has collected *)
(* (Collecting) and what is on its way (OnTheWay), each by phase of the     *)
(* terminal.                                                                *)
(***************************************************************************)
EXTENDS Sim, SequenceTheorems, TLAPS

\* CONF1 of a card that is supplied and clocked, reset line low.
Clocked == {"BYPASS", "SVCCLEV", "SCLKEN"}

InUse == {"atr", "idle", "send", "ack", "answer"}

\* What the two activation sequences have done to the interface so far.
Wiring ==
  /\ driver = "osmocom" =>
       /\ conf1 = {} /\ ~atr_due /\ phase \notin {"stopped", "manual", "low"}
       /\ phase # "off" => powered
  /\ driver = "ti" =>
       /\ phase # "started"
       /\ phase \in {"off", "stopped"} => conf1 = {} /\ ~atr_manual_done
       /\ phase = "stopped" => ~powered
       /\ phase = "manual" => conf1 \in {{}, {"BYPASS", "SVCCLEV"}} /\ ~atr_manual_done
       /\ phase = "manual" /\ conf1 # {} => powered
       /\ phase = "low" => conf1 = Clocked /\ ~atr_manual_done /\ powered
       /\ phase \in InUse =>
            conf1 \in {Clocked, Clocked \cup {"SRSTLEV"}} /\ atr_manual_done /\ powered

\* An answer held back has its timer armed; after a silence nothing is.
Armed == (pend # <<>> => resp_due) /\ (silent => ~resp_due /\ ~tx_due)

\* What the card has collected, by phase of the terminal.
Collecting ==
  /\ phase \in {"manual", "low", "atr", "answer"} => apdu = <<>>
  /\ phase = "idle" \/ (phase = "send" /\ sent = 0) => apdu = <<>> \/ silent
  /\ CommandsAligned
  /\ phase \in {"send", "ack"} /\ sent > 0 =>
       expected = IF sent >= Header THEN Header + Data ELSE 0
  /\ phase = "send" => sent < Length(cmd)
  /\ phase = "ack" => sent = Header /\ cmd.kind \in Outgoing

\* The answer and the ATR on their way, by phase.
OnTheWay ==
  /\ ~cut /\ phase \in {"manual", "low", "idle", "send"} => rx = <<>> /\ pend = <<>> /\ ~atr_due
  /\ ~cut /\ phase = "atr" => pend = <<>> /\ rx = IF atr_due THEN <<>> ELSE <<Atr>>
  /\ phase \in {"send", "ack", "answer"} => ~cut
  /\ phase \in {"ack", "answer"} => ~atr_due
  /\ ExactlyTheAnswer

Bytes == [id : {0, 1}, kind : Kinds, arg : UNION {Args(k) : k \in Kinds}, pos : Nat]

SimInv == TypeOK /\ apdu \in Seq(Bytes) /\ Wiring /\ Armed /\ Collecting /\ OnTheWay

-----------------------------------------------------------------------------
(* Operators of the model.                                                 *)

\* The fields of a command.
LEMMA CommandFields ==
  ASSUME NEW c \in Commands
  PROVE  /\ c.id \in {0, 1} /\ c.kind \in Kinds /\ c.arg \in Args(c.kind)
         /\ Length(c) \in {Header, Header + Data}
<1>1. PICK k \in Kinds : c \in [id : {0, 1}, kind : {k}, arg : Args(k)]
  BY DEF Commands
<1> QED BY <1>1 DEF Length

\* A byte of a command is a byte.
LEMMA ByteType ==
  ASSUME NEW c \in Commands, NEW n \in Nat
  PROVE  Byte(c, n) \in Bytes
<1>1. c.arg \in UNION {Args(k) : k \in Kinds}
  BY CommandFields
<1> QED BY <1>1, CommandFields DEF Byte, Bytes

\* The first n bytes of a command, and one more.
LEMMA OneMoreByte ==
  ASSUME NEW c \in Commands, NEW n \in Nat
  PROVE  /\ [i \in 1 .. n |-> Byte(c, i)] \in Seq(Bytes)
         /\ Len([i \in 1 .. n |-> Byte(c, i)]) = n
         /\ Append([i \in 1 .. n |-> Byte(c, i)], Byte(c, n + 1)) = [i \in 1 .. n + 1 |-> Byte(c, i)]
         /\ n = 0 => <<Byte(c, n + 1)>> = [i \in 1 .. n + 1 |-> Byte(c, i)]
         /\ n = 0 => [i \in 1 .. n |-> Byte(c, i)] = <<>>
<1> DEFINE S(m) == [i \in 1 .. m |-> Byte(c, i)]
<1>1. \A m \in Nat : S(m) \in Seq(Bytes) /\ Len(S(m)) = m
  BY ByteType
<1>2. Append(S(n), Byte(c, n + 1)) = S(n + 1)
  BY <1>1, ByteType
<1>3. n = 0 => <<Byte(c, n + 1)>> = S(n + 1)
  BY <1>1, ByteType
<1>4. n = 0 => S(n) = <<>>
  BY <1>1
<1> QED BY <1>1, <1>2, <1>3, <1>4

\* Tuples put together.
LEMMA Joined ==
  ASSUME NEW S, NEW x \in S, NEW y \in S, NEW z \in S
  PROVE  <<x>> \o <<y>> = <<x, y>> /\ <<x>> \o <<y, z>> = <<x, y, z>>
<1>1. /\ <<x>> \in Seq(S) /\ <<y>> \in Seq(S) /\ <<y, z>> \in Seq(S)
      /\ <<x, y>> \in Seq(S) /\ <<x, y, z>> \in Seq(S)
      /\ Len(<<x, y>>) = 2 /\ Len(<<x, y, z>>) = 3
  OBVIOUS
<1>2. <<x>> \o <<y>> \in Seq(S) /\ Len(<<x>> \o <<y>>) = 2
  BY <1>1
<1>3. <<x>> \o <<y, z>> \in Seq(S) /\ Len(<<x>> \o <<y, z>>) = 3
  BY <1>1
<1>4. \A i \in 1 .. 2 : (<<x>> \o <<y>>)[i] = <<x, y>>[i]
  BY <1>1
<1>5. \A i \in 1 .. 3 : (<<x>> \o <<y, z>>)[i] = <<x, y, z>>[i]
  BY <1>1
<1>6. <<x>> \o <<y>> = <<x, y>>
  BY <1>1, <1>2, <1>4, SeqEqual
<1>7. <<x>> \o <<y, z>> = <<x, y, z>>
  BY <1>1, <1>3, <1>5, SeqEqual
<1> QED BY <1>6, <1>7

\* The answer to a command: tagged with it, and only the last token a status.
LEMMA AnswerShape ==
  ASSUME TypeOK, NEW c, c.id \in {0, 1}
  PROVE  /\ Answer(c) \in Seq(Tokens) /\ Answer(c) # <<>>
         /\ \A i \in 1 .. Len(Answer(c)) :
              Answer(c)[i].id = c.id /\ (Status(Answer(c)[i]) <=> i = Len(Answer(c)))
<1>1. \A w \in StatusWords : Token(c, w) \in Tokens /\ Token(c, w).id = c.id /\ Status(Token(c, w))
  BY SimAssumption DEF SimAssumption, Token, Tokens, Status, StatusWords, Files
<1>2. \A v \in {"ACK"} \cup Values \cup Files :
         Token(c, v) \in Tokens /\ Token(c, v).id = c.id /\ ~ Status(Token(c, v))
  BY DEF Token, Tokens, Status
<1>3. content \in Values /\ (resp # "none" => resp \in Files)
  BY DEF TypeOK
<1> DEFINE Shaped(a) ==
      /\ a \in Seq(Tokens) /\ a # <<>>
      /\ \A i \in 1 .. Len(a) : a[i].id = c.id /\ (Status(a[i]) <=> i = Len(a))
<1>4. \A w \in StatusWords : Shaped(<<Token(c, w)>>)
  BY <1>1
<1>ack. Token(c, "ACK") \in Tokens /\ Token(c, "ACK").id = c.id /\ ~ Status(Token(c, "ACK"))
  BY <1>2
<1>two. \A t \in Tokens : t.id = c.id /\ Status(t) => Shaped(<<Token(c, "ACK")>> \o <<t>>)
  <2> SUFFICES ASSUME NEW t \in Tokens, t.id = c.id, Status(t), NEW u \in Tokens,
                      u.id = c.id, ~ Status(u)
               PROVE  Shaped(<<u>> \o <<t>>)
    BY <1>ack
  <2>1. Shaped(<<u, t>>)
    OBVIOUS
  <2> QED BY <2>1, Joined
<1>three. \A t \in Tokens, v \in Tokens :
         t.id = c.id /\ Status(t) /\ v.id = c.id /\ ~ Status(v) => Shaped(<<Token(c, "ACK")>> \o <<v, t>>)
  <2> SUFFICES ASSUME NEW t \in Tokens, t.id = c.id, Status(t), NEW u \in Tokens,
                      u.id = c.id, ~ Status(u), NEW v \in Tokens, v.id = c.id, ~ Status(v)
               PROVE  Shaped(<<u>> \o <<v, t>>)
    BY <1>ack
  <2>1. Shaped(<<u, v, t>>)
    OBVIOUS
  <2> QED BY <2>1, Joined
<1>5. \A w \in StatusWords : Shaped(<<Token(c, "ACK")>> \o <<Token(c, w)>>)
  BY <1>1, <1>two
<1>6. \A v \in Values \cup Files :
         Shaped(<<Token(c, "ACK")>> \o <<Token(c, v), Token(c, "SW_9000")>>)
  <2>1. "SW_9000" \in StatusWords
    BY DEF StatusWords
  <2> QED BY <1>1, <1>2, <1>three, <2>1
<1>7. {"SW_9000", "SW_9F", "SW_6A82", "SW_9408", "SW_9400", "SW_6F00", "SW_6D00"} = StatusWords
  BY DEF StatusWords
<1> HIDE DEF Shaped
<1>8. Shaped(Answer(c))
  <2>1. CASE c.kind = "select"
    BY <1>4, <1>7, <2>1 DEF Answer
  <2>2. CASE c.kind = "update"
    BY <1>4, <1>7, <2>2 DEF Answer
  <2>3. CASE c.kind = "read"
    BY <1>3, <1>5, <1>6, <1>7, <2>3 DEF Answer
  <2>4. CASE c.kind = "getresp"
    BY <1>3, <1>5, <1>6, <1>7, <2>4 DEF Answer
  <2>5. CASE c.kind \notin {"select", "update", "read", "getresp"}
    BY <1>4, <1>7, <2>5 DEF Answer
  <2> QED BY <2>1, <2>2, <2>3, <2>4, <2>5
<1> QED BY <1>8 DEF Shaped

-----------------------------------------------------------------------------
(* A byte sent.                                                             *)

\* What the card has collected with this byte: the command up to it.
LEMMA CollectedIs ==
  ASSUME SimInv, SendByte
  PROVE  /\ cmd \in Commands /\ sent \in Nat /\ sent < Length(cmd) /\ rx = <<>> /\ pend = <<>>
         /\ Collected(Byte(cmd, sent + 1)) = [i \in 1 .. sent + 1 |-> Byte(cmd, i)]
         /\ sent > 0 => expected = IF sent >= Header THEN Header + Data ELSE 0
         /\ ~ cut
<1>1. cmd \in Commands /\ sent \in Nat /\ phase = "send"
  BY SimAssumption DEF SimInv, TypeOK, SimAssumption, SendByte
<1>2. sent = 0 => Collected(Byte(cmd, sent + 1)) = [i \in 1 .. sent + 1 |-> Byte(cmd, i)]
  <2>1. apdu \in Seq(Bytes) /\ Byte(cmd, 1) \in Bytes
    BY <1>1, ByteType DEF SimInv
  <2>2. sent = 0 => Collected(Byte(cmd, sent + 1)) = <<Byte(cmd, sent + 1)>>
    <3>1. sent = 0 => apdu = <<>> \/ silent
      BY <1>1 DEF SimInv, Collecting
    <3>2. apdu = <<>> => Append(apdu, Byte(cmd, 1)) = <<Byte(cmd, 1)>>
      BY <2>1
    <3> QED BY <1>1, <3>1, <3>2 DEF Collected
  <2> QED BY <1>1, <2>2, OneMoreByte
<1>3. sent > 0 => Collected(Byte(cmd, sent + 1)) = [i \in 1 .. sent + 1 |-> Byte(cmd, i)]
  BY <1>1, OneMoreByte DEF SimInv, Collecting, CommandsAligned, Collected, SendByte
<1>4. rx = <<>> /\ pend = <<>> /\ ~ cut
  BY <1>1 DEF SimInv, OnTheWay
<1>5. /\ sent < Length(cmd)
      /\ sent > 0 => expected = IF sent >= Header THEN Header + Data ELSE 0
  BY <1>1 DEF SimInv, Collecting
<1> QED BY <1>1, <1>2, <1>3, <1>4, <1>5

\* A byte in the middle of a command, and the last one of a command.
LEMMA SentByte ==
  ASSUME SimInv, SendByte
  PROVE  /\ sent + 1 < Length(cmd) =>
              /\ apdu' = [i \in 1 .. sent + 1 |-> Byte(cmd, i)]
              /\ expected' = IF sent + 1 >= Header THEN Header + Data ELSE 0
              /\ pend' = IF sent + 1 = Header THEN <<Token(cmd, "ACK")>> ELSE <<>>
              /\ phase' = IF sent + 1 = Header THEN "ack" ELSE "send"
              /\ sent + 1 >= Header => cmd.kind \in Outgoing
              /\ UNCHANGED files
         /\ sent + 1 >= Length(cmd) =>
              /\ sent + 1 = Length(cmd) /\ apdu' = <<>> /\ expected' = 0 /\ phase' = "answer"
              /\ \E c : c.id = cmd.id /\ c.kind = cmd.kind /\ c.arg = cmd.arg
                       /\ Dispatch(c) /\ pend' = Answer(c)
<1> DEFINE n == sent + 1
           a == Collected(Byte(cmd, n))
<1>1. /\ cmd \in Commands /\ n \in Nat \ {0} /\ sent \in Nat /\ sent < Length(cmd) /\ rx = <<>> /\ pend = <<>>
      /\ a = [i \in 1 .. n |-> Byte(cmd, i)]
      /\ sent > 0 => expected = IF sent >= Header THEN Header + Data ELSE 0
  BY CollectedIs
<1> HIDE DEF a
<1>2. Len(a) = n /\ a \in Seq(Bytes)
  BY <1>1, OneMoreByte
<1>3. /\ Header \in Nat \ {0, 1} /\ Data \in Nat \ {0}
      /\ Length(cmd) = IF cmd.kind \in Outgoing THEN Header + Data ELSE Header
  BY SimAssumption DEF SimAssumption, Length
<1>4. n >= 2 => a[2] = Byte(cmd, 2) /\ a[Len(a)] = Byte(cmd, n)
  BY <1>1, <1>2
<1>5. n >= 2 => a[2].kind = cmd.kind /\ a[2].id = cmd.id /\ Token(a[2], "ACK") = Token(cmd, "ACK")
  BY <1>4 DEF Byte, Token
<1>6. ExpectedAfter(a) = IF n >= Header THEN Length(cmd) ELSE 0
  <2>1. CASE n = Header
    BY <1>1, <1>2, <1>3, <1>5, <2>1 DEF ExpectedAfter
  <2>2. CASE n = 1
    BY <1>1, <1>2, <1>3, <2>2 DEF ExpectedAfter
  <2>3. CASE n # 1 /\ n # Header
    BY <1>1, <1>2, <1>3, <2>3 DEF ExpectedAfter
  <2> QED BY <2>1, <2>2, <2>3
<1>7. HeaderAck(a) = IF n = Header /\ cmd.kind \in Outgoing THEN <<Token(cmd, "ACK")>> ELSE <<>>
  BY <1>2, <1>3, <1>5 DEF HeaderAck
<1>8. Len(a) = ExpectedAfter(a) <=> n = Length(cmd)
  BY <1>1, <1>2, <1>3, <1>6
<1>9. Token(cmd, "ACK") \in Tokens /\ HeaderAck(a) \in Seq(Tokens)
  <2>1. Token(cmd, "ACK") \in Tokens
    BY <1>1, CommandFields DEF Token, Tokens
  <2>2. <<Token(cmd, "ACK")>> \in Seq(Tokens) /\ <<>> \in Seq(Tokens)
    BY <2>1
  <2> QED BY <1>7, <2>1, <2>2
<1>10. ASSUME n < Length(cmd)
       PROVE  /\ apdu' = a /\ expected' = ExpectedAfter(a) /\ pend' = HeaderAck(a) /\ UNCHANGED files
              /\ phase' = IF n = Header THEN "ack" ELSE "send"
  <2>1. Len(a) # ExpectedAfter(a)
    BY <1>1, <1>3, <1>8, <1>10
  <2>2. apdu' = a /\ expected' = ExpectedAfter(a) /\ pend' = pend \o HeaderAck(a) /\ UNCHANGED files
    BY <2>1 DEF SendByte, WriteDtx, a
  <2>3. pend' = HeaderAck(a)
    BY <1>1, <1>9, <2>2
  <2>4. phase' = IF n = Header THEN "ack" ELSE "send"
    BY <1>1, <1>3, <1>10 DEF SendByte
  <2> QED BY <2>2, <2>3, <2>4
<1>11. ASSUME n >= Length(cmd)
       PROVE  /\ n = Length(cmd) /\ apdu' = <<>> /\ expected' = 0 /\ phase' = "answer"
              /\ Dispatch(Decode(a)) /\ pend' = Answer(Decode(a))
              /\ Decode(a).id = cmd.id /\ Decode(a).kind = cmd.kind /\ Decode(a).arg = cmd.arg
  <2>1. n = Length(cmd) /\ n >= 2 /\ Len(a) = ExpectedAfter(a)
    BY <1>1, <1>3, <1>8, <1>11
  <2>2. HeaderAck(a) = <<>>
    BY <1>3, <1>7, <2>1
  <2>3. /\ apdu' = <<>> /\ expected' = 0 /\ Dispatch(Decode(a))
        /\ pend' = pend \o HeaderAck(a) \o Answer(Decode(a))
    BY <2>1 DEF SendByte, WriteDtx, a
  <2>4. Decode(a).id = cmd.id /\ Decode(a).kind = cmd.kind /\ Decode(a).arg = cmd.arg
    BY <1>4, <2>1 DEF Decode, Byte
  <2>5. Answer(Decode(a)) \in Seq(Tokens)
    BY <1>1, <2>4, AnswerShape, CommandFields DEF SimInv
  <2>6. pend' = Answer(Decode(a))
    BY <1>1, <2>2, <2>3, <2>5
  <2> QED BY <2>1, <2>3, <2>4, <2>6 DEF SendByte
<1>12. n >= Header /\ n < Length(cmd) => Length(cmd) = Header + Data /\ cmd.kind \in Outgoing
  BY <1>1, <1>3
<1>13. ASSUME n < Length(cmd)
       PROVE  /\ apdu' = [i \in 1 .. n |-> Byte(cmd, i)]
              /\ expected' = IF n >= Header THEN Header + Data ELSE 0
              /\ pend' = IF n = Header THEN <<Token(cmd, "ACK")>> ELSE <<>>
  <2>1. n = Header => n >= Header
    BY <1>3
  <2> QED BY <1>1, <1>6, <1>7, <1>10, <1>12, <1>13, <2>1
<1>14. n >= Length(cmd) \/ n < Length(cmd)
  BY <1>1, <1>3
<1> QED BY <1>10, <1>11, <1>12, <1>13, <1>14
-----------------------------------------------------------------------------
(* The steps.                                                               *)

\* What it does to the answer held back, and to the files.
LEMMA SentPend ==
  ASSUME SimInv, SendByte
  PROVE  \/ pend' = <<>> \/ pend' = <<Token(cmd, "ACK")>>
         \/ \E c : c.id = cmd.id /\ pend' = Answer(c)
<1>1. Length(cmd) \in Nat /\ sent \in Nat
  BY CollectedIs, CommandFields, SimAssumption DEF SimAssumption
<1>2. CASE sent + 1 < Length(cmd)
  BY <1>2, SentByte
<1>3. CASE sent + 1 >= Length(cmd)
  BY <1>3, SentByte
<1> QED BY <1>1, <1>2, <1>3

LEMMA SentFiles ==
  ASSUME SimInv, SendByte
  PROVE  \/ UNCHANGED files
         \/ sent + 1 = Length(cmd) /\ \E c : c.kind = cmd.kind /\ c.arg = cmd.arg /\ Dispatch(c)
<1>1. Length(cmd) \in Nat /\ sent \in Nat
  BY CollectedIs, CommandFields, SimAssumption DEF SimAssumption
<1>2. CASE sent + 1 < Length(cmd)
  BY <1>2, SentByte
<1>3. CASE sent + 1 >= Length(cmd)
  BY <1>3, SentByte
<1> QED BY <1>1, <1>2, <1>3

\* Every step computes the line anew from what it leaves behind, or does not
\* touch the interrupts and at most empties the FIFO.
LEMMA IrqPaths ==
  ASSUME Next
  PROVE  \/ \E i : UpdateIrq(i, rx', maskit')
         \/ UNCHANGED ints /\ rx' \in {rx, <<>>}
<1>1. CASE Timers
  BY <1>1 DEF Timers, TxFires, RespFires, WtFires, AtrFires, Silence, fifo, ints
<1>2. CASE OsmocomStart \/ OsmocomReset \/ TiStop \/ TiReset
  BY <1>2 DEF OsmocomStart, OsmocomReset, TiStop, TiReset, CmdStart, CmdStop, CardReset, fifo, ints
<1>3. ASSUME NEW val, WriteConf1(val)
      PROVE  UNCHANGED ints /\ rx' \in {rx, <<>>}
  BY <1>3 DEF WriteConf1
<1>4. CASE TiSupply \/ TiClock \/ TiRaise \/ TiWarmReset \/ TiWarmRaise \/ PowerOff
  BY <1>3, <1>4
     DEF TiSupply, TiClock, TiRaise, TiWarmReset, TiWarmRaise, PowerOff, CmdStop, fifo, ints
<1>5. CASE SeeIt \/ TakeByte \/ StartCommand \/ Abandon
  BY <1>5 DEF SeeIt, ReadIt, TakeByte, ReadDrx, StartCommand, Abandon, fifo, ints
<1>6. CASE SendByte
  BY <1>6 DEF SendByte, WriteDtx
<1>7. CASE Mask
  BY <1>7 DEF Mask, WriteMaskit, fifo
<1> QED BY <1>1, <1>2, <1>4, <1>5, <1>6, <1>7 DEF Next, Activation, Terminal

\* No step loses an interrupt.
LEMMA IrqStep ==
  ASSUME NoLostInterrupt, [Next]_vars
  PROVE  NoLostInterrupt'
<1>1. ASSUME NEW i, UpdateIrq(i, rx', maskit') PROVE NoLostInterrupt'
  BY <1>1 DEF UpdateIrq, Refreshed, NoLostInterrupt
<1>2. CASE UNCHANGED ints /\ rx' \in {rx, <<>>}
  BY <1>2 DEF ints, Refreshed, NoLostInterrupt
<1>3. CASE UNCHANGED vars
  BY <1>3 DEF vars, ints, fifo, NoLostInterrupt
<1> QED BY <1>1, <1>2, <1>3, IrqPaths

\* What the writes to CONF1 of the TI driver come to, each in its place in
\* the sequence.  The supply comes first.
LEMMA Supplied ==
  ASSUME SimInv, TiSupply
  PROVE  /\ driver = "ti" /\ phase = "manual" /\ phase' = "manual"
         /\ conf1' = {"BYPASS", "SVCCLEV"} /\ powered' = TRUE /\ atr_manual_done' = FALSE
         /\ UNCHANGED <<rx, apdu, expected, cut, atr_due>>
<1>1. phase = "manual" /\ conf1 = {} /\ driver = "ti"
  BY DEF SimInv, TypeOK, Wiring, TiSupply
<1>2. ~ atr_manual_done /\ atr_due \in BOOLEAN
  BY <1>1 DEF SimInv, TypeOK, Wiring
<1> QED BY <1>1, <1>2 DEF TiSupply, WriteConf1

\* The clock: the ATR is on its way.
LEMMA ClockRises ==
  ASSUME SimInv, TiClock
  PROVE  /\ driver = "ti" /\ phase = "manual" /\ phase' = "atr"
         /\ conf1' = Clocked /\ powered' = TRUE /\ atr_manual_done' = TRUE /\ atr_due' = TRUE
         /\ UNCHANGED <<rx, apdu, expected, cut>>
<1>1. phase = "manual" /\ conf1 = {"BYPASS", "SVCCLEV"} /\ driver = "ti"
  BY DEF SimInv, TypeOK, Wiring, TiClock
<1>2. ~ atr_manual_done /\ atr_due \in BOOLEAN
  BY <1>1 DEF SimInv, TypeOK, Wiring
<1>3. /\ conf1 \cup {"SCLKEN"} = Clocked /\ "SCLKEN" \in Clocked \ conf1 /\ "BYPASS" \in Clocked
      /\ "SVCCLEV" \in Clocked /\ "SRSTLEV" \notin conf1 /\ conf1 \ Clocked = {}
  BY <1>1 DEF Clocked
<1>4. WriteConf1(Clocked) /\ phase' = "atr"
  BY <1>3 DEF TiClock
<1> QED BY <1>1, <1>2, <1>3, <1>4 DEF WriteConf1

\* The reset line after the clock: no second ATR.
LEMMA LineRises ==
  ASSUME SimInv, TiRaise
  PROVE  /\ driver = "ti" /\ phase \in {"atr", "idle"} /\ phase' = phase
         /\ conf1' = Clocked \cup {"SRSTLEV"} /\ powered' = TRUE /\ atr_manual_done' = TRUE
         /\ UNCHANGED <<rx, apdu, expected, cut, atr_due>>
<1>1. phase \in {"atr", "idle"} /\ conf1 = Clocked /\ driver = "ti"
  BY DEF SimInv, TypeOK, Wiring, TiRaise, InUse
<1>2. atr_manual_done /\ atr_due \in BOOLEAN /\ atr_manual_done \in BOOLEAN
  BY <1>1 DEF SimInv, TypeOK, Wiring, InUse
<1> QED BY <1>1, <1>2 DEF TiRaise, WriteConf1, Clocked

\* A warm reset: what was on its way is cut.
LEMMA LineFalls ==
  ASSUME SimInv, TiWarmReset
  PROVE  /\ driver = "ti" /\ phase \in InUse /\ phase' = "low"
         /\ conf1' = Clocked /\ powered' = TRUE /\ atr_manual_done' = FALSE
         /\ rx' = <<>> /\ apdu' = <<>> /\ expected' = 0 /\ cut' = InFlight /\ UNCHANGED atr_due
<1>1. phase \in InUse /\ conf1 = Clocked \cup {"SRSTLEV"} /\ driver = "ti"
  BY DEF SimInv, TypeOK, Wiring, TiWarmReset, InUse, Clocked
<1>2. powered /\ powered \in BOOLEAN /\ atr_due \in BOOLEAN
  BY <1>1 DEF SimInv, TypeOK, Wiring
<1> QED BY <1>1, <1>2 DEF TiWarmReset, WriteConf1, Clocked

\* The end of a warm reset: an ATR again.
LEMMA LineRisesAgain ==
  ASSUME SimInv, TiWarmRaise
  PROVE  /\ driver = "ti" /\ phase = "low" /\ phase' = "atr"
         /\ conf1' = Clocked \cup {"SRSTLEV"} /\ powered' = TRUE /\ atr_manual_done' = TRUE
         /\ atr_due' = TRUE /\ UNCHANGED <<rx, apdu, expected, cut>>
<1>1. phase = "low" /\ conf1 = Clocked /\ driver = "ti" /\ ~ atr_manual_done /\ powered
  BY DEF SimInv, TypeOK, Wiring, TiWarmRaise
<1>2. atr_due \in BOOLEAN /\ powered \in BOOLEAN
  BY DEF SimInv, TypeOK
<1> QED BY <1>1, <1>2 DEF TiWarmRaise, WriteConf1, Clocked

\* Power off, in either driver.
LEMMA SupplyFalls ==
  ASSUME SimInv, PowerOff
  PROVE  /\ phase \in InUse \cup {"low"} /\ phase' = "off" /\ UNCHANGED atr_due
         /\ driver = "osmocom" => UNCHANGED <<conf1, atr_manual_done>>
         /\ driver = "ti" => conf1' = {} /\ atr_manual_done' = FALSE
         /\ powered' \in BOOLEAN /\ atr_manual_done' \in BOOLEAN
         /\ \/ UNCHANGED <<rx, apdu, expected, cut>>
            \/ rx' = <<>> /\ apdu' = <<>> /\ expected' = 0 /\ cut' = InFlight
<1>1. phase \in InUse \cup {"low"} /\ phase' = "off"
  BY DEF PowerOff, InUse
<1>2. CASE driver = "osmocom"
  BY <1>1, <1>2 DEF PowerOff, CmdStop, SimInv, TypeOK, timers, card, fifo
<1>3. CASE driver = "ti"
  <2>1. "SVCCLEV" \in conf1 /\ atr_due \in BOOLEAN /\ powered \in BOOLEAN
    BY <1>1, <1>3 DEF SimInv, TypeOK, Wiring, Clocked
  <2>2. WriteConf1({})
    BY <1>3 DEF PowerOff
  <2> QED BY <1>1, <1>3, <2>1, <2>2 DEF WriteConf1
<1> QED BY <1>1, <1>2, <1>3 DEF SimInv, TypeOK

\* A timer leaves the interface, the card and the terminal alone.
LEMMA TimersFrame ==
  ASSUME Timers
  PROVE  /\ UNCHANGED <<power, card, terminal, cut>> /\ (atr_due' = FALSE \/ atr_due' = atr_due)
         /\ silent => silent'
<1>1. CASE TxFires
  BY <1>1 DEF TxFires
<1>2. CASE RespFires
  BY <1>2 DEF RespFires
<1>3. CASE WtFires
  BY <1>3 DEF WtFires
<1>4. CASE AtrFires
  BY <1>4 DEF AtrFires
<1>5. CASE Silence
  BY <1>5 DEF Silence, timers
<1> QED BY <1>1, <1>2, <1>3, <1>4, <1>5 DEF Timers

\* The two activation sequences stay in step with the interface.
LEMMA WiringStep ==
  ASSUME SimInv, [Next]_vars
  PROVE  Wiring'
<1> USE DEF SimInv, Wiring
<1>1. CASE Timers
  <2>1. UNCHANGED <<conf1, powered, atr_manual_done, driver, phase>> /\ (atr_due' = FALSE \/ atr_due' = atr_due)
    BY <1>1, TimersFrame DEF power, terminal
  <2> QED BY <2>1
<1>2. CASE OsmocomStart \/ OsmocomReset \/ TiStop \/ TiReset
  <2>1. CASE OsmocomStart
    BY <2>1 DEF OsmocomStart, CmdStart, Quiet, timers, InUse
  <2>2. CASE OsmocomReset
    BY <2>2 DEF OsmocomReset, CardReset, Quiet, power, timers, InUse
  <2>3. CASE TiStop
    BY <2>3 DEF TiStop, CmdStop, Quiet, timers, InUse
  <2>4. CASE TiReset
    BY <2>4 DEF TiReset, CardReset, Quiet, power, timers, InUse
  <2> QED BY <1>2, <2>1, <2>2, <2>3, <2>4
<1>3. CASE TiSupply
  BY <1>3, Supplied DEF TiSupply, Quiet, InUse
<1>4. CASE TiClock
  BY <1>4, ClockRises DEF TiClock, Quiet, InUse
<1>5. CASE TiRaise
  BY <1>5, LineRises DEF TiRaise, Quiet, InUse
<1>6. CASE TiWarmReset
  BY <1>6, LineFalls DEF TiWarmReset, Quiet, InUse
<1>7. CASE TiWarmRaise
  BY <1>7, LineRisesAgain DEF TiWarmRaise, Quiet, InUse
<1>8. CASE PowerOff
  <2>1. /\ phase' = "off" /\ atr_due' = atr_due
        /\ driver = "osmocom" => conf1' = conf1
        /\ driver = "ti" => conf1' = {} /\ atr_manual_done' = FALSE
    BY <1>8, SupplyFalls
  <2>2. driver' = driver
    BY <1>8 DEF PowerOff, Quiet
  <2> QED BY <2>1, <2>2 DEF InUse
<1>9. CASE SeeIt \/ Mask
  <2>1. UNCHANGED <<conf1, powered, atr_manual_done, atr_due, driver, phase>>
    BY <1>9 DEF SeeIt, ReadIt, Mask, WriteMaskit, power, timers, terminal
  <2> QED BY <2>1
<1>10. CASE TakeByte \/ StartCommand \/ SendByte \/ Abandon
  <2>1. UNCHANGED <<power, atr_due, driver>> /\ (phase' = phase \/ (phase \in InUse /\ phase' \in InUse))
    BY <1>10 DEF TakeByte, ReadDrx, AfterByte, Quiet, StartCommand, SendByte, WriteDtx, Abandon,
                 power, timers, InUse
  <2> QED BY <2>1 DEF power, InUse
<1>11. CASE UNCHANGED vars
  BY <1>11 DEF vars, power, timers, terminal
<1> QED BY <1>1, <1>2, <1>3, <1>4, <1>5, <1>6, <1>7, <1>8, <1>9, <1>10, <1>11
    DEF Next, Activation, Terminal

\* An answer held back keeps its timer.
LEMMA ArmedStep ==
  ASSUME SimInv, [Next]_vars
  PROVE  Armed'
<1> USE DEF SimInv, Armed
<1>1. CASE Timers
  <2>1. CASE TxFires \/ WtFires
    BY <2>1 DEF TxFires, WtFires, fifo
  <2>2. CASE RespFires
    BY <2>2 DEF RespFires
  <2>3. CASE AtrFires \/ Silence
    BY <2>3 DEF AtrFires, Silence, timers, fifo
  <2> QED BY <1>1, <2>1, <2>2, <2>3 DEF Timers
<1>2. ASSUME NEW val, WriteConf1(val) PROVE Armed'
  BY <1>2 DEF WriteConf1
<1>3. CASE Activation
  BY <1>2, <1>3
     DEF Activation, OsmocomStart, OsmocomReset, TiStop, TiReset, CmdStart, CmdStop, CardReset,
         TiSupply, TiClock, TiRaise, TiWarmReset, TiWarmRaise, PowerOff, timers, fifo
<1>4. CASE SendByte
  BY <1>4 DEF SendByte, WriteDtx
<1>5. CASE Terminal /\ ~ SendByte
  <2>1. CASE SeeIt \/ TakeByte
    BY <2>1 DEF SeeIt, ReadIt, TakeByte, ReadDrx, timers, fifo
  <2>2. CASE StartCommand \/ Abandon
    BY <2>2 DEF StartCommand, Abandon, timers, fifo
  <2>3. CASE Mask
    BY <2>3 DEF Mask, WriteMaskit, fifo
  <2> QED BY <1>5, <2>1, <2>2, <2>3 DEF Terminal
<1>6. CASE UNCHANGED vars
  BY <1>6 DEF vars, timers, fifo
<1> QED BY <1>1, <1>3, <1>4, <1>5, <1>6 DEF Next

\* The card collects what the terminal sends.
LEMMA CollectingStep ==
  ASSUME SimInv, [Next]_vars
  PROVE  Collecting'
<1> USE DEF SimInv, Collecting, CommandsAligned
<1>1. CASE Timers
  <2>1. UNCHANGED <<apdu, expected, phase, cmd, sent>> /\ (silent => silent')
    BY <1>1, TimersFrame DEF card, terminal
  <2> QED BY <2>1 DEF Length, Byte
<1>2. CASE OsmocomStart \/ TiStop \/ PowerOff
  BY <1>2 DEF OsmocomStart, TiStop, PowerOff
<1>3. CASE OsmocomReset \/ TiReset
  BY <1>3 DEF OsmocomReset, TiReset, CardReset
<1>4. CASE TiSupply
  BY <1>4, Supplied
<1>5. CASE TiClock
  BY <1>5, ClockRises
<1>6. CASE TiRaise
  <2>1. phase \in {"atr", "idle"} /\ phase' = phase /\ apdu' = apdu /\ silent' = silent
    BY <1>6, LineRises DEF TiRaise, WriteConf1
  <2> QED BY <2>1
<1>7. CASE TiWarmReset
  BY <1>7, LineFalls
<1>8. CASE TiWarmRaise
  BY <1>8, LineRisesAgain
<1>9. CASE SeeIt \/ Mask
  <2>1. UNCHANGED <<apdu, expected, phase, cmd, sent, silent>>
    BY <1>9 DEF SeeIt, ReadIt, Mask, WriteMaskit, card, terminal
  <2> QED BY <2>1 DEF Length, Byte
<1>10. CASE TakeByte
  <2>1. UNCHANGED <<apdu, expected, cmd, sent, silent>>
    BY <1>10 DEF TakeByte, ReadDrx, Quiet, card
  <2>2. \/ phase' = phase
        \/ phase \in {"atr", "answer"} /\ phase' = "idle"
        \/ phase = "ack" /\ phase' = "send"
    BY <1>10 DEF TakeByte, AfterByte
  <2>3. phase = "ack" => Header > 0 /\ Header < Header + Data /\ Length(cmd) = Header + Data
    BY SimAssumption DEF SimAssumption, Length
  <2> QED BY <2>1, <2>2, <2>3 DEF Length, Byte
<1>11. CASE StartCommand
  <2>1. apdu' = apdu /\ silent' = silent /\ sent' = 0 /\ phase' = "send" /\ phase = "idle"
        /\ cmd' \in Commands
    BY <1>11 DEF StartCommand, card
  <2>2. \A c \in Commands : 0 < Length(c)
    BY CommandFields, SimAssumption DEF SimAssumption
  <2>3. 0 < Length(cmd')
    BY <2>1, <2>2
  <2> QED BY <2>1, <2>3 DEF Length
<1>12. CASE SendByte
  <2>typed. cmd \in Commands /\ sent \in Nat /\ cmd' = cmd /\ sent' = sent + 1
    BY <1>12, CollectedIs DEF SendByte
  <2>1. sent \in Nat /\ cmd' = cmd /\ sent' = sent + 1 /\ Length(cmd) \in Nat /\ Header \in Nat
    BY <2>typed, CommandFields, SimAssumption DEF SimAssumption
  <2>2. CASE sent + 1 < Length(cmd)
    <3>1. /\ apdu' = [i \in 1 .. sent + 1 |-> Byte(cmd, i)]
          /\ expected' = IF sent + 1 >= Header THEN Header + Data ELSE 0
          /\ phase' = IF sent + 1 = Header THEN "ack" ELSE "send"
          /\ sent + 1 >= Header => cmd.kind \in Outgoing
      BY <1>12, <2>2, SentByte
    <3>2. sent' > 0 /\ phase' \in {"send", "ack"} /\ (phase' = "ack" => sent' = Header /\ cmd'.kind \in Outgoing)
      BY <2>1, <3>1
    <3>3. CommandsAligned'
      BY <2>1, <3>1 DEF Byte
    <3>4. sent' < Length(cmd)' /\ expected' = IF sent' >= Header THEN Header + Data ELSE 0
      BY <2>1, <2>2, <3>1 DEF Length
    <3> HIDE DEF CommandsAligned
    <3> QED BY <3>2, <3>3, <3>4
  <2>3. CASE sent + 1 >= Length(cmd)
    <3>1. apdu' = <<>> /\ phase' = "answer"
      BY <1>12, <2>3, SentByte
    <3> QED BY <3>1
  <2> QED BY <2>1, <2>2, <2>3
<1>13. CASE Abandon
  BY <1>13 DEF Abandon
<1>14. CASE UNCHANGED vars
  <2>1. UNCHANGED <<apdu, expected, phase, cmd, sent, silent>>
    BY <1>14 DEF vars, card, terminal
  <2> QED BY <2>1 DEF Length, Byte
<1> QED BY <1>1, <1>2, <1>3, <1>4, <1>5, <1>6, <1>7, <1>8, <1>9, <1>10, <1>11, <1>12, <1>13, <1>14
    DEF Next, Activation, Terminal

\* The FIFO and the answer behind it as one queue: what is read is its head,
\* and an answer that comes out of its delay does not change it.
LEMMA OneQueue ==
  ASSUME rx \in Seq(Tokens), pend \in Seq(Tokens)
  PROVE  /\ Owed \in Seq(Tokens) /\ Len(Owed) = Len(rx) + Len(pend)
         /\ Owed \o <<>> = Owed
         /\ pend = <<>> => Owed = rx
         /\ rx # <<>> =>
              /\ Head(rx) = Owed[1] /\ Head(rx) \in Tokens /\ Tail(rx) \in Seq(Tokens)
              /\ Tail(rx) \o pend = Tail(Owed)
              /\ Len(Tail(Owed)) = Len(Owed) - 1 /\ Len(Owed) >= 1
              /\ \A i \in 1 .. Len(Owed) - 1 : Tail(Owed)[i] = Owed[i + 1]
              /\ Len(Owed) = 1 => Tail(rx) = <<>> /\ pend = <<>>
<1>1. Owed \in Seq(Tokens) /\ Len(Owed) = Len(rx) + Len(pend)
  BY DEF Owed
<1>2. Owed \o <<>> = Owed
  BY <1>1, ConcatEmptySeq
<1>3. pend = <<>> => Owed = rx
  BY ConcatEmptySeq DEF Owed
<1>4. ASSUME rx # <<>>
      PROVE  /\ Head(rx) = Owed[1] /\ Head(rx) \in Tokens /\ Tail(rx) \in Seq(Tokens)
             /\ Tail(rx) \o pend = Tail(Owed)
             /\ Len(Tail(Owed)) = Len(Owed) - 1 /\ Len(Owed) >= 1
             /\ \A i \in 1 .. Len(Owed) - 1 : Tail(Owed)[i] = Owed[i + 1]
             /\ Len(Owed) = 1 => Tail(rx) = <<>> /\ pend = <<>>
  <2>1. /\ Len(rx) \in Nat /\ Len(rx) >= 1 /\ Head(rx) = rx[1] /\ Head(rx) \in Tokens
        /\ Tail(rx) \in Seq(Tokens) /\ Len(Tail(rx)) = Len(rx) - 1 /\ Len(pend) \in Nat
    BY <1>4
  <2>2. Owed[1] = rx[1] /\ Owed # <<>>
    BY <1>1, <2>1 DEF Owed
  <2>3. /\ Tail(Owed) \in Seq(Tokens) /\ Len(Tail(Owed)) = Len(Owed) - 1
        /\ \A i \in 1 .. Len(Owed) - 1 : Tail(Owed)[i] = Owed[i + 1]
    BY <1>1, <2>2
  <2>4. Tail(rx) \o pend = Tail(Owed)
    <3>1. Tail(rx) \o pend \in Seq(Tokens) /\ Len(Tail(rx) \o pend) = Len(Owed) - 1
      BY <1>1, <2>1
    <3>2. \A i \in 1 .. Len(Owed) - 1 : (Tail(rx) \o pend)[i] = Tail(Owed)[i]
      BY <1>1, <2>1, <2>3 DEF Owed
    <3> QED BY <2>3, <3>1, <3>2, SeqEqual
  <2>5. Len(Owed) = 1 => Tail(rx) = <<>> /\ pend = <<>>
    <3>1. Len(Owed) = 1 => Len(Tail(rx)) = 0 /\ Len(pend) = 0
      BY <1>1, <2>1
    <3> QED BY <2>1, <3>1, EmptySeq
  <2> QED BY <1>1, <2>1, <2>2, <2>3, <2>4, <2>5
<1> QED BY <1>1, <1>2, <1>3, <1>4

\* The rest of an answer is the rest of an answer.
LEMMA RestOfAnswer ==
  ASSUME NEW q \in Seq(Tokens), NEW k, Len(q) # 1, q # <<>>,
         \A i \in 1 .. Len(q) : q[i].id = k /\ (Status(q[i]) <=> i = Len(q))
  PROVE  /\ ~ Status(q[1]) /\ Tail(q) # <<>>
         /\ \A i \in 1 .. Len(Tail(q)) :
              Tail(q)[i].id = k /\ (Status(Tail(q)[i]) <=> i = Len(Tail(q)))
<1>1. Len(q) \in Nat /\ Len(q) > 1
  BY EmptySeq
<1>2. /\ Tail(q) \in Seq(Tokens) /\ Len(Tail(q)) = Len(q) - 1
      /\ \A i \in 1 .. Len(q) - 1 : Tail(q)[i] = q[i + 1]
  BY <1>1
<1>3. ~ Status(q[1])
  BY <1>1
<1>4. Tail(q) # <<>>
  <2> DEFINE t == Tail(q)
  <2>1. Len(t) = Len(q) - 1
    BY <1>2
  <2> HIDE DEF t
  <2>2. Len(t) # 0
    BY <1>1, <2>1
  <2>3. t # <<>>
    BY <2>2
  <2> QED BY <2>3 DEF t
<1>5. ASSUME NEW i \in 1 .. Len(q) - 1
      PROVE  Tail(q)[i].id = k /\ (Status(Tail(q)[i]) <=> i = Len(q) - 1)
  <2>1. i + 1 \in 1 .. Len(q) /\ (i = Len(q) - 1 <=> i + 1 = Len(q))
    BY <1>1
  <2>2. q[i + 1].id = k /\ (Status(q[i + 1]) <=> i + 1 = Len(q))
    BY <2>1
  <2> QED BY <1>2, <2>1, <2>2
<1> QED BY <1>2, <1>3, <1>4, <1>5

\* What is on its way is what the terminal waits for.
LEMMA OnTheWayStep ==
  ASSUME SimInv, [Next]_vars
  PROVE  OnTheWay'
<1>1. /\ rx \in Seq(Tokens) /\ pend \in Seq(Tokens) /\ OnTheWay /\ atr_due \in BOOLEAN
      /\ cut \in BOOLEAN /\ Atr \in Tokens
  BY DEF SimInv, TypeOK, Atr, Tokens
<1>2. ASSUME UNCHANGED <<rx, pend, atr_due, phase, cmd, cut>> PROVE OnTheWay'
  BY <1>1, <1>2 DEF OnTheWay, ExactlyTheAnswer, Owed, Token, Status
<1>3. CASE TxFires \/ WtFires \/ Silence \/ SeeIt \/ Mask
  BY <1>2, <1>3
     DEF TxFires, WtFires, Silence, SeeIt, ReadIt, Mask, WriteMaskit, timers, fifo, terminal
<1>4. CASE RespFires
  <2>1. /\ UNCHANGED <<atr_due, phase, cmd, cut>>
        /\ rx' = Owed /\ pend' = <<>> /\ Owed' = Owed
    BY <1>1, <1>4, OneQueue DEF RespFires, Owed, terminal
  <2>2. pend = <<>> => rx' = rx
    BY <1>1, <2>1, OneQueue
  <2> QED BY <1>1, <2>1, <2>2 DEF OnTheWay, ExactlyTheAnswer, Token, Status
<1>5. CASE AtrFires
  <2>1. UNCHANGED <<pend, phase, cmd, cut>> /\ atr_due /\ atr_due' = FALSE
    BY <1>5 DEF AtrFires, terminal
  <2>2. CASE cut \/ phase \in {"off", "started", "stopped"}
    BY <1>1, <2>1, <2>2 DEF OnTheWay, ExactlyTheAnswer
  <2>3. CASE ~ cut /\ phase \notin {"off", "started", "stopped"}
    <3>1. phase = "atr" /\ rx = <<>> /\ pend = <<>>
      BY <1>1, <2>1, <2>3 DEF OnTheWay, SimInv, TypeOK, Phases
    <3>2. powered
      BY <3>1 DEF SimInv, TypeOK, Wiring, InUse
    <3>3. rx' = <<Atr>>
      BY <1>1, <1>5, <3>1, <3>2 DEF AtrFires
    <3>4. Owed' = <<Atr>>
      BY <1>1, <2>1, <3>1, <3>3, ConcatEmptySeq DEF Owed
    <3> QED BY <2>1, <2>3, <3>1, <3>3, <3>4 DEF OnTheWay, ExactlyTheAnswer
  <2> QED BY <2>2, <2>3
<1>6. CASE OsmocomStart \/ TiStop \/ PowerOff
  BY <1>6 DEF OsmocomStart, TiStop, PowerOff, OnTheWay, ExactlyTheAnswer
<1>7. CASE OsmocomReset \/ TiReset
  <2>1. /\ pend' = pend /\ atr_due' = atr_due /\ cut' = (pend # <<>> \/ atr_due)
        /\ rx' = IF powered THEN <<Atr>> ELSE <<>>
    BY <1>7 DEF OsmocomReset, TiReset, CardReset, InFlight, timers
  <2>2. phase' = IF powered THEN "atr" ELSE "manual"
    BY <1>7 DEF OsmocomReset, TiReset, SimInv, Wiring, TypeOK
  <2>3. <<Atr>> \in Seq(Tokens) /\ <<>> \in Seq(Tokens)
    BY <1>1
  <2>4. \A s \in Seq(Tokens) : s \o <<>> = s
    BY ConcatEmptySeq
  <2>5. ~ cut' => Owed' = rx' /\ pend' = <<>> /\ ~ atr_due'
    BY <1>1, <2>1, <2>3, <2>4 DEF Owed
  <2> QED BY <1>1, <2>1, <2>2, <2>5 DEF OnTheWay, ExactlyTheAnswer
<1>8. CASE TiSupply
  <2>1. UNCHANGED <<rx, atr_due, phase, cut>>
    BY <1>8, Supplied
  <2> QED BY <1>2, <1>8, <2>1 DEF TiSupply, WriteConf1, Quiet
<1>9. CASE TiRaise
  <2>1. UNCHANGED <<rx, atr_due, phase, cut>>
    BY <1>9, LineRises
  <2> QED BY <1>2, <1>9, <2>1 DEF TiRaise, WriteConf1, Quiet
<1>10. CASE TiClock \/ TiWarmRaise
  <2>1. /\ phase \in {"manual", "low"} /\ phase' = "atr" /\ atr_due' = TRUE
        /\ rx' = rx /\ cut' = cut
    BY <1>10, ClockRises, LineRisesAgain
  <2>2. pend' = pend
    BY <1>10 DEF TiClock, TiWarmRaise, WriteConf1
  <2>3. ~ cut' => rx' = <<>> /\ pend' = <<>> /\ Owed' = <<>>
    BY <1>1, <2>1, <2>2, OneQueue DEF OnTheWay, Owed
  <2> QED BY <2>1, <2>3 DEF OnTheWay, ExactlyTheAnswer
<1>11. CASE TiWarmReset
  <2>1. phase' = "low" /\ rx' = <<>> /\ cut' = (pend # <<>> \/ atr_due) /\ atr_due' = atr_due
    BY <1>11, LineFalls DEF InFlight
  <2>2. pend' = pend
    BY <1>11 DEF TiWarmReset, WriteConf1
  <2> QED BY <1>1, <2>1, <2>2 DEF OnTheWay, ExactlyTheAnswer
<1>12. CASE TakeByte
  <2>1. /\ UNCHANGED <<pend, atr_due, cmd, cut>> /\ rx # <<>> /\ rx' = Tail(rx)
        /\ phase' = AfterByte(Head(rx))
    BY <1>12 DEF TakeByte, ReadDrx, Quiet, timers
  <2>2. /\ Head(rx) = Owed[1] /\ Owed' = Tail(Owed) /\ Owed \in Seq(Tokens) /\ Owed # <<>>
        /\ Len(Owed) = 1 => rx' = <<>> /\ pend' = <<>>
    <3>1. /\ Head(rx) = Owed[1] /\ Tail(rx) \o pend = Tail(Owed) /\ Len(Owed) >= 1
          /\ Owed \in Seq(Tokens)
          /\ Len(Owed) = 1 => Tail(rx) = <<>> /\ pend = <<>>
      BY <1>1, <2>1, OneQueue
    <3>2. Owed' = Tail(Owed)
      BY <2>1, <3>1 DEF Owed
    <3>3. Owed # <<>>
      BY <3>1
    <3> QED BY <2>1, <3>1, <3>2, <3>3
  <2>3. CASE cut
    <3>1. phase \notin {"send", "ack", "answer"}
      BY <1>1, <2>3 DEF OnTheWay
    <3> QED BY <2>1, <2>3, <3>1 DEF OnTheWay, ExactlyTheAnswer, AfterByte
  <2>4. CASE phase \in {"off", "started", "stopped"}
    BY <2>1, <2>4 DEF OnTheWay, ExactlyTheAnswer, AfterByte
  <2>5. CASE ~ cut /\ phase = "atr"
    <3>1. rx = <<Atr>> /\ ~ atr_due /\ pend = <<>>
      BY <1>1, <2>1, <2>5 DEF OnTheWay
    <3>2. phase' = "idle" /\ rx' = <<>>
      BY <1>1, <2>1, <2>5, <3>1 DEF AfterByte
    <3> QED BY <2>1, <3>1, <3>2, ConcatEmptySeq DEF OnTheWay, ExactlyTheAnswer, Owed
  <2>6. CASE ~ cut /\ phase = "ack"
    <3>1. Owed = <<Token(cmd, "ACK")>> /\ ~ atr_due
      BY <1>1, <2>6 DEF OnTheWay, ExactlyTheAnswer
    <3>2. Len(Owed) = 1 /\ Head(rx) = Token(cmd, "ACK")
      BY <2>2, <3>1
    <3>3. phase' = "send" /\ rx' = <<>> /\ pend' = <<>>
      BY <2>1, <2>2, <2>6, <3>2 DEF AfterByte, Token
    <3>4. Owed' = <<>>
      BY <3>3, ConcatEmptySeq DEF Owed
    <3> QED BY <2>1, <2>6, <3>1, <3>3, <3>4 DEF OnTheWay, ExactlyTheAnswer
  <2>7. CASE ~ cut /\ phase = "answer"
    <3>1. /\ ~ atr_due
          /\ \A i \in 1 .. Len(Owed) :
               Owed[i].id = cmd.id /\ (Status(Owed[i]) <=> i = Len(Owed))
      BY <1>1, <2>7 DEF OnTheWay, ExactlyTheAnswer
    <3>2. CASE Len(Owed) = 1
      <4>1. phase' = "idle" /\ rx' = <<>> /\ pend' = <<>>
        BY <2>1, <2>2, <2>7, <3>1, <3>2 DEF AfterByte
      <4>2. Owed' = <<>>
        BY <4>1, ConcatEmptySeq DEF Owed
      <4> QED BY <2>1, <2>7, <3>1, <4>1, <4>2 DEF OnTheWay, ExactlyTheAnswer
    <3>3. CASE Len(Owed) # 1
      <4>rest. /\ ~ Status(Owed[1]) /\ Tail(Owed) # <<>>
            /\ \A i \in 1 .. Len(Tail(Owed)) :
                 Tail(Owed)[i].id = cmd.id /\ (Status(Tail(Owed)[i]) <=> i = Len(Tail(Owed)))
        BY <2>2, <3>1, <3>3, RestOfAnswer
      <4>1. /\ ~ Status(Head(rx)) /\ Owed' # <<>>
            /\ \A i \in 1 .. Len(Owed') :
                 Owed'[i].id = cmd.id /\ (Status(Owed'[i]) <=> i = Len(Owed'))
        BY <2>2, <4>rest
      <4>2. phase' = "answer"
        BY <2>1, <2>7, <4>1 DEF AfterByte
      <4> QED BY <2>1, <2>7, <3>1, <4>1, <4>2 DEF OnTheWay, ExactlyTheAnswer, Status
    <3> QED BY <3>2, <3>3
  <2>8. ~ cut => phase \notin {"manual", "low", "idle", "send"}
    BY <1>1, <2>1 DEF OnTheWay
  <2> QED BY <2>3, <2>4, <2>5, <2>6, <2>7, <2>8 DEF SimInv, TypeOK, Phases
<1>13. CASE StartCommand
  <2>1. phase = "idle" /\ ~ cut /\ phase' = "send" /\ UNCHANGED <<rx, pend, atr_due, cut>>
    BY <1>13 DEF StartCommand, timers, fifo
  <2> QED BY <1>1, <2>1 DEF OnTheWay, ExactlyTheAnswer, Owed
<1>14. CASE SendByte
  <2>1. UNCHANGED <<rx, atr_due, cut, cmd>> /\ phase = "send"
    BY <1>14 DEF SendByte, WriteDtx
  <2>2. rx' = <<>> /\ ~ cut' /\ ~ atr_due' /\ cmd \in Commands /\ cmd' = cmd
    BY <1>1, <1>14, <2>1, CollectedIs DEF OnTheWay
  <2>3. pend' \in Seq(Tokens) => Owed' = pend'
    BY <2>2, ConcatEmptySeq DEF Owed
  <2>4. CASE sent + 1 < Length(cmd)
    <3>1. /\ pend' = IF sent + 1 = Header THEN <<Token(cmd, "ACK")>> ELSE <<>>
          /\ phase' = IF sent + 1 = Header THEN "ack" ELSE "send"
      BY <1>14, <2>4, SentByte
    <3>2. Token(cmd, "ACK") \in Tokens
      BY <2>2, CommandFields DEF Token, Tokens
    <3>3. <<Token(cmd, "ACK")>> \in Seq(Tokens) /\ <<>> \in Seq(Tokens)
      BY <3>2
    <3>4. pend' \in Seq(Tokens)
      BY <3>1, <3>3
    <3> QED BY <2>2, <2>3, <3>1, <3>4 DEF OnTheWay, ExactlyTheAnswer, Token
  <2>5. CASE sent + 1 >= Length(cmd)
    <3>1. /\ phase' = "answer"
          /\ \E c : c.id = cmd.id /\ pend' = Answer(c)
      BY <1>14, <2>5, SentByte
    <3>2. PICK c : c.id = cmd.id /\ pend' = Answer(c)
      BY <3>1
    <3>3. /\ pend' \in Seq(Tokens) /\ pend' # <<>>
          /\ \A i \in 1 .. Len(pend') :
               pend'[i].id = cmd.id /\ (Status(pend'[i]) <=> i = Len(pend'))
      BY <2>2, <3>2, AnswerShape, CommandFields DEF SimInv
    <3> QED BY <2>2, <2>3, <3>1, <3>3 DEF OnTheWay, ExactlyTheAnswer, Status
  <2>6. sent + 1 < Length(cmd) \/ sent + 1 >= Length(cmd)
    BY <1>14, <2>2, CollectedIs, CommandFields, SimAssumption DEF SimAssumption
  <2> QED BY <2>4, <2>5, <2>6
<1>15. CASE Abandon
  <2>1. /\ silent /\ phase \in {"send", "ack", "answer"} /\ rx' = <<>> /\ phase' = "idle"
        /\ UNCHANGED <<pend, atr_due, cut>>
    BY <1>15 DEF Abandon, timers
  <2>2. pend' = <<>> /\ ~ atr_due'
    BY <1>1, <2>1 DEF SimInv, Armed, OnTheWay
  <2>3. Owed' = <<>>
    BY <2>1, <2>2, ConcatEmptySeq DEF Owed
  <2> QED BY <2>1, <2>2, <2>3 DEF OnTheWay, ExactlyTheAnswer
<1>16. CASE UNCHANGED vars
  BY <1>2, <1>16 DEF vars, timers, fifo, terminal
<1> QED BY <1>3, <1>4, <1>5, <1>6, <1>7, <1>8, <1>9, <1>10, <1>11, <1>12, <1>13, <1>14, <1>15, <1>16
    DEF Next, Timers, Activation, Terminal

\* The FIFO and the answer held back are made of tokens.
LEMMA QueuesStep ==
  ASSUME SimInv, [Next]_vars
  PROVE  rx' \in Seq(Tokens) /\ pend' \in Seq(Tokens)
<1>1. /\ rx \in Seq(Tokens) /\ pend \in Seq(Tokens) /\ Atr \in Tokens
      /\ <<>> \in Seq(Tokens) /\ <<Atr>> \in Seq(Tokens)
  BY DEF SimInv, TypeOK, Atr, Tokens
<1>2. CASE Timers
  <2>1. CASE RespFires
    <3>1. rx' = rx \o pend /\ pend' = <<>>
      BY <2>1 DEF RespFires
    <3> QED BY <1>1, <3>1
  <2>2. CASE AtrFires
    <3>1. rx' \in {rx, Append(rx, Atr)} /\ pend' = pend
      BY <2>2 DEF AtrFires
    <3> QED BY <1>1, <3>1
  <2>3. CASE TxFires \/ WtFires \/ Silence
    BY <1>1, <2>3 DEF TxFires, WtFires, Silence, fifo
  <2> QED BY <1>2, <2>1, <2>2, <2>3 DEF Timers
<1>3. ASSUME NEW val, WriteConf1(val) PROVE rx' \in {rx, <<>>} /\ pend' = pend
  BY <1>3 DEF WriteConf1
<1>4. CASE Activation
  <2>1. CASE OsmocomStart
    BY <1>1, <2>1 DEF OsmocomStart, CmdStart
  <2>2. CASE OsmocomReset \/ TiReset
    BY <1>1, <2>2 DEF OsmocomReset, TiReset, CardReset
  <2>3. CASE TiStop \/ TiSupply \/ TiClock \/ TiRaise \/ TiWarmReset \/ TiWarmRaise \/ PowerOff
    <3>1. rx' \in {rx, <<>>} /\ pend' = pend
      BY <1>3, <2>3 DEF TiStop, TiSupply, TiClock, TiRaise, TiWarmReset, TiWarmRaise, PowerOff,
                        CmdStop, fifo
    <3> QED BY <1>1, <3>1
  <2> QED BY <1>4, <2>1, <2>2, <2>3 DEF Activation
<1>5. CASE SeeIt \/ Mask \/ StartCommand \/ Abandon
  BY <1>1, <1>5 DEF SeeIt, ReadIt, Mask, WriteMaskit, StartCommand, Abandon, fifo
<1>6. CASE TakeByte
  <2>1. rx # <<>> /\ rx' = Tail(rx) /\ pend' = pend
    BY <1>6 DEF TakeByte, ReadDrx
  <2> QED BY <1>1, <2>1
<1>7. CASE SendByte
  <2>1. rx' = rx /\ cmd \in Commands
    BY <1>7, CollectedIs DEF SendByte, WriteDtx
  <2>2. \/ pend' = <<>> \/ pend' = <<Token(cmd, "ACK")>>
        \/ \E c : c.id = cmd.id /\ pend' = Answer(c)
    BY <1>7, SentPend
  <2>3. Token(cmd, "ACK") \in Tokens
    BY <2>1, CommandFields DEF Token, Tokens
  <2>4. <<Token(cmd, "ACK")>> \in Seq(Tokens)
    BY <2>3
  <2>5. \A c : c.id = cmd.id => Answer(c) \in Seq(Tokens)
    BY <2>1, AnswerShape, CommandFields DEF SimInv
  <2> QED BY <1>1, <2>1, <2>2, <2>4, <2>5
<1>8. CASE UNCHANGED vars
  BY <1>1, <1>8 DEF vars, fifo
<1> QED BY <1>2, <1>4, <1>5, <1>6, <1>7, <1>8 DEF Next, Terminal

CollectedType ==
  /\ apdu \in Seq(Bytes) /\ Len(apdu) < Header + Data
  /\ expected \in {0, Header, Header + Data}

\* The bytes collected are never more than a command.
LEMMA CollectedStep ==
  ASSUME SimInv, [Next]_vars
  PROVE  CollectedType'
<1>1. CollectedType
  BY DEF SimInv, TypeOK, CollectedType
<1>2. ASSUME UNCHANGED <<apdu, expected>> PROVE CollectedType'
  BY <1>1, <1>2 DEF CollectedType
<1>3. ASSUME apdu' = <<>>, expected' = 0 PROVE CollectedType'
  BY <1>3, SimAssumption DEF SimAssumption, CollectedType
<1>4. CASE Timers
  BY <1>2, <1>4 DEF Timers, TxFires, RespFires, WtFires, AtrFires, Silence, card
<1>5. ASSUME NEW val, WriteConf1(val) PROVE CollectedType'
  BY <1>2, <1>3, <1>5 DEF WriteConf1
<1>6. CASE Activation
  BY <1>2, <1>3, <1>5, <1>6
     DEF Activation, OsmocomStart, OsmocomReset, TiStop, TiReset, CmdStart, CmdStop, CardReset,
         TiSupply, TiClock, TiRaise, TiWarmReset, TiWarmRaise, PowerOff, card
<1>7. CASE SeeIt \/ TakeByte \/ StartCommand \/ Abandon \/ Mask
  BY <1>2, <1>7 DEF SeeIt, ReadIt, TakeByte, ReadDrx, StartCommand, Abandon, Mask, WriteMaskit, card
<1>8. CASE SendByte
  <2>1. /\ cmd \in Commands /\ sent \in Nat /\ Length(cmd) \in {Header, Header + Data}
        /\ Header \in Nat \ {0, 1} /\ Data \in Nat \ {0}
    BY <1>8, CollectedIs, CommandFields, SimAssumption DEF SimAssumption
  <2>2. CASE sent + 1 < Length(cmd)
    <3>1. apdu' = [i \in 1 .. sent + 1 |-> Byte(cmd, i)] /\ expected' \in {0, Header + Data}
      BY <1>8, <2>2, SentByte
    <3>more. sent + 1 \in Nat
      BY <2>1
    <3>2. apdu' \in Seq(Bytes) /\ Len(apdu') = sent + 1
      BY <2>1, <3>1, <3>more, OneMoreByte
    <3> QED BY <2>1, <2>2, <3>1, <3>2 DEF CollectedType
  <2>3. CASE sent + 1 >= Length(cmd)
    BY <1>3, <1>8, <2>3, SentByte
  <2> QED BY <2>1, <2>2, <2>3
<1>9. CASE UNCHANGED vars
  BY <1>2, <1>9 DEF vars, card
<1> QED BY <1>4, <1>6, <1>7, <1>8, <1>9 DEF Next, Terminal

\* The other types.
LEMMA TypeStep ==
  ASSUME SimInv, [Next]_vars
  PROVE  TypeOK' /\ (apdu \in Seq(Bytes))'
<1> DEFINE Rest ==
      /\ it \subseteq {"RX", "TX", "WT"} /\ maskit \subseteq {"WT"} /\ irq \in BOOLEAN
      /\ selected \in Files /\ content \in Values /\ resp \in Files \cup {"none"}
      /\ cmd \in Commands /\ sent \in 0 .. Header + Data
      /\ {tx_due, resp_due, wt_due, silent, may_send} \subseteq BOOLEAN
           Control ==
      /\ conf1 \subseteq {"BYPASS", "SVCCLEV", "SCLKEN", "SRSTLEV"}
      /\ powered \in BOOLEAN /\ atr_manual_done \in BOOLEAN
      /\ atr_due \in BOOLEAN /\ cut \in BOOLEAN
      /\ phase \in Phases /\ driver \in {"osmocom", "ti"}
<1>1. Rest /\ Control
  BY DEF SimInv, TypeOK
<1>2. Rest'
  <2>1. CASE Timers
    BY <1>1, <2>1 DEF Timers, TxFires, RespFires, WtFires, AtrFires, Silence, UpdateIrq, Refreshed,
                      timers, files, card, ints, terminal
  <2>2. CASE OsmocomStart \/ OsmocomReset \/ TiStop \/ TiReset
    BY <1>1, <2>2 DEF OsmocomStart, OsmocomReset, TiStop, TiReset, CmdStart, CmdStop, CardReset, Quiet,
                      UpdateIrq, Refreshed, timers, files, card, ints, Files
  <2>3. ASSUME NEW val, WriteConf1(val), Quiet PROVE Rest'
    BY <1>1, <2>3 DEF WriteConf1, Quiet, files, ints
  <2>4. CASE TiSupply \/ TiClock \/ TiRaise \/ TiWarmReset \/ TiWarmRaise \/ PowerOff
    <3>1. CASE CmdStop /\ Quiet
      BY <1>1, <3>1 DEF CmdStop, Quiet, timers, files, card, ints
    <3> QED BY <2>3, <2>4, <3>1 DEF TiSupply, TiClock, TiRaise, TiWarmReset, TiWarmRaise, PowerOff
  <2>5. CASE SeeIt \/ TakeByte \/ Abandon \/ Mask
    <3>1. CASE SeeIt
      BY <1>1, <3>1 DEF SeeIt, ReadIt, UpdateIrq, Refreshed, timers, files, card
    <3>2. CASE TakeByte
      BY <1>1, <3>2 DEF TakeByte, ReadDrx, Quiet, UpdateIrq, Refreshed, timers, files, card
    <3>3. CASE Abandon
      BY <1>1, <3>3 DEF Abandon, UpdateIrq, Refreshed, timers, files, card
    <3>4. CASE Mask
      <4>1. PICK m \in {{}, {"WT"}} : WriteMaskit(m)
        BY <3>4 DEF Mask
      <4>2. UNCHANGED <<tx_due, resp_due, atr_due, files, silent, terminal>> /\ maskit' = m
            /\ wt_due' \in BOOLEAN
        BY <1>1, <3>4, <4>1 DEF Mask, WriteMaskit, card
      <4>3. it' \subseteq {"WT", "RX"} \cup it /\ irq' \in BOOLEAN
        BY <4>1 DEF WriteMaskit, UpdateIrq, Refreshed
      <4> QED BY <1>1, <4>2, <4>3 DEF files, terminal
    <3> QED BY <2>5, <3>1, <3>2, <3>3, <3>4
  <2>6. CASE StartCommand
    <3>1. sent' \in 0 .. Header + Data /\ cmd' \in Commands /\ may_send' \in BOOLEAN
      BY <2>6, SimAssumption DEF StartCommand, SimAssumption
    <3>2. UNCHANGED <<timers, files, ints, silent>>
      BY <2>6 DEF StartCommand, card
    <3> QED BY <1>1, <3>1, <3>2 DEF timers, files, ints
  <2>7. CASE SendByte
    <3>1. /\ cmd \in Commands /\ sent \in Nat /\ sent < Length(cmd)
          /\ Length(cmd) \in {Header, Header + Data} /\ Header \in Nat /\ Data \in Nat
      BY <2>7, CollectedIs, CommandFields, SimAssumption DEF SimAssumption
    <3>2. sent' \in 0 .. Header + Data /\ cmd' = cmd
      BY <2>7, <3>1 DEF SendByte
    <3>3. selected' \in Files /\ content' \in Values /\ resp' \in Files \cup {"none"}
      <4>1. CASE UNCHANGED files
        BY <1>1, <4>1 DEF files
      <4>2. ASSUME NEW c, c.kind = cmd.kind, c.arg = cmd.arg, Dispatch(c)
            PROVE  selected' \in Files /\ content' \in Values /\ resp' \in Files \cup {"none"}
        <5>1. /\ cmd.kind = "select" /\ cmd.arg # "absent" => cmd.arg \in Files
              /\ cmd.kind = "update" => cmd.arg \in Values
          BY <3>1, CommandFields DEF Args
        <5> QED BY <1>1, <4>2, <5>1 DEF Dispatch
      <4>3. UNCHANGED files \/ \E c : c.kind = cmd.kind /\ c.arg = cmd.arg /\ Dispatch(c)
        BY <2>7, SentFiles
      <4> QED BY <4>1, <4>2, <4>3
    <3>4. {tx_due', resp_due', wt_due', silent', may_send'} \subseteq BOOLEAN
      BY <1>1, <2>7 DEF SendByte, WriteDtx
    <3> QED BY <1>1, <2>7, <3>1, <3>2, <3>3, <3>4 DEF SendByte, WriteDtx, ints
  <2>8. CASE UNCHANGED vars
    BY <1>1, <2>8 DEF vars, timers, files, card, ints, terminal
  <2> QED BY <2>1, <2>2, <2>4, <2>5, <2>6, <2>7, <2>8 DEF Next, Activation, Terminal
<1>3. Control'
  <2>1. CASE Timers
    BY <1>1, <2>1, TimersFrame DEF power, terminal
  <2>2. CASE OsmocomStart \/ OsmocomReset \/ TiStop \/ TiReset
    BY <1>1, <2>2 DEF OsmocomStart, OsmocomReset, TiStop, TiReset, CmdStart, CmdStop, CardReset, Quiet,
                      InFlight, power, timers, Phases
  <2>3. CASE TiSupply \/ TiClock \/ TiRaise \/ TiWarmReset \/ TiWarmRaise
    BY <1>1, <2>3, Supplied, ClockRises, LineRises, LineFalls, LineRisesAgain
       DEF TiSupply, TiClock, TiRaise, TiWarmReset, TiWarmRaise, Quiet, Clocked, InFlight, Phases, InUse
  <2>4. CASE PowerOff
    BY <1>1, <2>4, SupplyFalls DEF PowerOff, Quiet, InFlight, Phases
  <2>5. CASE Terminal
    <3>1. UNCHANGED <<power, atr_due, cut, driver>>
      BY <2>5 DEF Terminal, SeeIt, ReadIt, TakeByte, ReadDrx, StartCommand, SendByte, WriteDtx, Abandon,
                  Mask, WriteMaskit, Quiet, timers, terminal
    <3>2. phase' \in {phase, "idle", "send", "ack", "answer"}
      BY <2>5 DEF Terminal, SeeIt, TakeByte, AfterByte, StartCommand, SendByte, Abandon, Mask, terminal
    <3> QED BY <1>1, <3>1, <3>2 DEF power, Phases
  <2>6. CASE UNCHANGED vars
    BY <1>1, <2>6 DEF vars, power, timers, terminal
  <2> QED BY <2>1, <2>2, <2>3, <2>4, <2>5, <2>6 DEF Next, Activation
<1> QED BY <1>2, <1>3, QueuesStep, CollectedStep DEF TypeOK, CollectedType

-----------------------------------------------------------------------------
(* The theorems.                                                            *)

\* After calypso_sim_new() the invariant holds.
LEMMA SimInitInv == Init => SimInv /\ NoLostInterrupt
<1> SUFFICES ASSUME Init PROVE SimInv /\ NoLostInterrupt
  OBVIOUS
<1>1. cmd \in Commands
  <2>1. cmd \in [id : {0, 1}, kind : {"other"}, arg : Args("other")]
    BY DEF Init, Args
  <2> QED BY <2>1 DEF Commands, Kinds
<1>2. TypeOK /\ apdu \in Seq(Bytes)
  <2>1. apdu \in Seq(Bytes) /\ Len(apdu) = 0 /\ rx \in Seq(Tokens) /\ pend \in Seq(Tokens)
    BY DEF Init
  <2>2. 0 < Header + Data /\ sent \in 0 .. Header + Data
    BY SimAssumption DEF SimAssumption, Init
  <2>3. {tx_due, resp_due, wt_due, atr_due, silent, may_send, cut} \subseteq BOOLEAN
    BY DEF Init
  <2> QED BY <1>1, <2>1, <2>2, <2>3 DEF Init, TypeOK, Files, Phases
<1>3. Wiring /\ Armed
  BY DEF Init, Wiring, Armed, InUse
<1>4. Collecting /\ OnTheWay
  BY DEF Init, Collecting, CommandsAligned, OnTheWay, ExactlyTheAnswer
<1>5. NoLostInterrupt
  BY DEF Init, NoLostInterrupt, Refreshed
<1> QED BY <1>2, <1>3, <1>4, <1>5 DEF SimInv

\* Every step keeps it.
LEMMA SimNextInv == SimInv /\ [Next]_vars => SimInv'
BY TypeStep, WiringStep, ArmedStep, CollectingStep, OnTheWayStep DEF SimInv

\* The registers, the FIFO, the collected bytes and the files keep their types;
\* the bytes collected never exceed a command.
THEOREM SimTypeCorrectness == Spec => []TypeOK
<1>1. SimInv => TypeOK
  BY DEF SimInv
<1> QED BY <1>1, SimInitInv, SimNextInv, PTL DEF Spec

\* No unmasked interrupt is lost, on any path through update_irq() and around
\* it, for every length of a command and every content.
THEOREM InterruptsAreKept == Spec => []NoLostInterrupt
<1>1. NoLostInterrupt /\ [Next]_vars => NoLostInterrupt'
  BY IrqStep
<1> QED BY <1>1, SimInitInv, PTL DEF Spec

\* Card and terminal agree on where a command starts, for every length of
\* header and data, whatever was abandoned, reset or switched off before.
THEOREM CardStaysAligned == Spec => []CommandsAligned
<1>1. SimInv => CommandsAligned
  BY DEF SimInv, Collecting
<1> QED BY <1>1, SimInitInv, SimNextInv, PTL DEF Spec

\* What apdu_tx_byte() and deliver_atr() have put on its way is exactly what
\* the terminal waits for, unless a reset has caught an answer in flight.
THEOREM AnswerIsTheOneAwaited == Spec => []ExactlyTheAnswer
<1>1. SimInv => ExactlyTheAnswer
  BY DEF SimInv, OnTheWay
<1> QED BY <1>1, SimInitInv, SimNextInv, PTL DEF Spec

\* fire_wt() raises WT only on a card that owes nothing.
THEOREM WaitingTimeIsTrue == Spec => WtMeansNothingOwed
<1>1. SimInv /\ [Next]_vars => [(~cut /\ "WT" \in it' \ it) => phase \notin {"ack", "answer"}]_vars
  <2> SUFFICES ASSUME SimInv, Next, ~ cut, "WT" \in it' \ it
               PROVE  phase \notin {"ack", "answer"}
    OBVIOUS
  <2>1. CASE WtFires
    <3>1. rx = <<>> /\ pend = <<>>
      BY <2>1 DEF WtFires
    <3>2. Owed = <<>>
      BY <3>1, ConcatEmptySeq DEF Owed
    <3> QED BY <3>2 DEF SimInv, OnTheWay, ExactlyTheAnswer
  <2>2. CASE Next /\ ~ WtFires
    <3>1. ASSUME NEW val, WriteConf1(val) PROVE it' = it
      BY <3>1 DEF WriteConf1, ints
    <3>2. it' \subseteq it \cup {"RX", "TX"}
      <4>1. CASE TxFires \/ RespFires \/ AtrFires \/ Silence
        BY <4>1 DEF TxFires, RespFires, AtrFires, Silence, UpdateIrq, Refreshed, ints
      <4>2. CASE Activation
        BY <3>1, <4>2
           DEF Activation, OsmocomStart, OsmocomReset, TiStop, TiReset, CmdStart, CmdStop, CardReset,
               TiSupply, TiClock, TiRaise, TiWarmReset, TiWarmRaise, PowerOff, UpdateIrq, Refreshed, ints
      <4>3. CASE Terminal
        BY <4>3 DEF Terminal, SeeIt, ReadIt, TakeByte, ReadDrx, StartCommand, SendByte, WriteDtx,
                    Abandon, Mask, WriteMaskit, UpdateIrq, Refreshed, ints
      <4> QED BY <2>2, <4>1, <4>2, <4>3 DEF Next, Timers
    <3> QED BY <3>2
  <2> QED BY <2>1, <2>2
<1> QED BY <1>1, SimInitInv, SimNextInv, PTL DEF Spec, WtMeansNothingOwed

\* The transparent file takes only the value of an update sent whole.
THEOREM FileTakesWholeUpdates == Spec => UpdatesAreGenuine
<1>1. SimInv /\ [Next]_vars => [content' # content =>
          cmd.kind = "update" /\ content' = cmd.arg /\ sent' = Length(cmd)]_vars
  <2> SUFFICES ASSUME SimInv, Next, content' # content
               PROVE  cmd.kind = "update" /\ content' = cmd.arg /\ sent' = Length(cmd)
    OBVIOUS
  <2>1. CASE SendByte
    <3>1. cmd \in Commands /\ sent \in Nat /\ Length(cmd) \in Nat
      BY <2>1, CollectedIs, CommandFields, SimAssumption DEF SimAssumption
    <3>2. sent + 1 = Length(cmd) /\ \E c : c.kind = cmd.kind /\ c.arg = cmd.arg /\ Dispatch(c)
      BY <2>1, SentFiles DEF files
    <3> QED BY <2>1, <3>2 DEF SendByte, Dispatch
  <2>2. CASE ~ SendByte
    <3>1. ASSUME NEW val, WriteConf1(val) PROVE content' = content
      BY <3>1 DEF WriteConf1, files
    <3>2. content' = content
      BY <2>2, <3>1
         DEF Next, Timers, Activation, Terminal, TxFires, RespFires, WtFires, AtrFires, Silence,
             OsmocomStart, OsmocomReset, TiStop, TiReset, CmdStart, CmdStop, CardReset, TiSupply, TiClock,
             TiRaise, TiWarmReset, TiWarmRaise, PowerOff, SeeIt, ReadIt, TakeByte, ReadDrx, StartCommand,
             Abandon, Mask, WriteMaskit, card, files
    <3> QED BY <3>2
  <2> QED BY <2>1, <2>2
<1> QED BY <1>1, SimInitInv, SimNextInv, PTL DEF Spec, UpdatesAreGenuine
=============================================================================
