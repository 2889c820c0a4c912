------------------------------- MODULE MCTpu --------------------------------
(* Scenarios for Tpu: the way a firmware tunes the TRF6151 (band, then PLL), *)
(* over the corners of the bands and of the timing.                         *)
EXTENDS Tpu

Program(ops) == [i \in 1 .. Len(ops) |-> [op |-> ops[i][1], arg |-> ops[i][2]]]

\* The band word of a channel, and the MOVEs that send a word to device dev.
Band(c) == IF Dcs(Number(c)) THEN 128 + 2 ELSE 2
Pll(c) == PllWord(Divider(c))
Send(dev, word) ==
  <<<<"tx1", word \div 256>>, <<"tx2", word % 256>>, <<"ctrl1", 32 * dev + 15>>, <<"ctrl2", 2>>>>

\* The band at t, the PLL after w more quarter bits, again at t2; then the end and
\* the words a longer scenario left behind.
Scenario(c, t, w, t2) ==
  [asked |-> c,
   prog |-> Program(<<<<"other", 0>>, <<"at", t>>>> \o Send(1, Band(c)) \o <<<<"zero", 0>>, <<"wait", w>>>>
                  \o Send(2, Pll(c)) \o <<<<"at", t2>>>> \o Send(1, Pll(c))
                  \o <<<<"zero", 0>>, <<"zero", 0>>>> \o Send(1, 9))]

Corners == {Down(n) : n \in {0, 124, 975, 1023, 512, 885}} \cup {Up(n) : n \in {1, 124, 975, 1023, 512, 885}}
CornerScenarios == {Scenario(c, 1, 1, 3) : c \in Corners}
TimedScenarios ==
  {Scenario(Down(0), t, w, t2) : t \in {0, 3}, w \in {1, 4, 9}, t2 \in {0, 3}}
\* Transfers of any length to other devices, one to the gain register and a MOVE
\* to CTRL2 that starts none, in between.
Mixed ==
  LET c == Down(600)
  IN  [asked |-> c,
       prog |-> Program(<<<<"at", 1>>>> \o Send(0, 9) \o Send(1, Pll(c)) \o Send(1, 8)
                      \o <<<<"tx3", 0>>, <<"tx4", 0>>, <<"ctrl1", 3>>, <<"ctrl2", 2>>, <<"ctrl1", 96 + 31>>, <<"ctrl2", 3>>>>
                      \o <<<<"ctrl1", 32 + 23>>, <<"ctrl2", 1>>>> \o Send(1, Band(c)) \o <<<<"zero", 0>>>>)]
\* No end in memory.
Endless == [asked |-> NoChannel, prog |-> Program(<<<<"zero", 0>>, <<"other", 0>>>>)]
AllScenarios == CornerScenarios \cup TimedScenarios \cup {Mixed, Endless}

\* The scenarios tune to their channels, as TpuProofs asks of them.
ASSUME ScenariosTune ==
  \A s \in Scenarios : s.asked = NoChannel \/ s.asked.ul = 0 \/ Tunes(s)

Spec == TpuInit /\ [][TpuNext]_tpuVars

UplinkScenarios == {Scenario(Up(n), 1, 1, 3) : n \in {0, 1, 1023}}
=============================================================================
