------------------------------ MODULE MCIntake ------------------------------
(***************************************************************************)
(* Values of the constants of Intake for TLC: a day of eight units, local  *)
(* time two of them behind UTC, and signals around both midnights.         *)
(***************************************************************************)
EXTENDS Intake

MCZone == -2
MCPairs == {"EUR/JPY"}

SignalAt(time, dir) ==
  [header |-> "allowed", lines |-> 1, pair |-> "EUR/JPY", time |-> time, dir |-> dir]
Odd(header, lines, time) == [SignalAt(time, "up") EXCEPT !.header = header, !.lines = lines]

\* Local time 6 is midnight UTC, 8 is none.
Signals == {SignalAt(0, "up"), SignalAt(5, "down"), SignalAt(6, "up"), SignalAt(6, "down")}
Oddities ==
  {Odd("blank", 0, 0), Odd("missing", 1, 6), Odd("banned", 2, 8),
   Odd("allowed", 0, 0), Odd("allowed", 2, 6), Odd("allowed", 2, 8), Odd("allowed", 1, 8)}

\* The message for time 5 had come before the restart; its window is still open.
MCEarlier == {[id |-> SignalId(SignalAt(5, "down"), 0), trigger |-> 7]}

MCPosts ==
  ({"ours", "bare"} \X Signals) \union ({"ours"} \X Oddities)
    \union ({"renamed", "elsewhere", "outgoing"} \X {SignalAt(6, "up")})
=============================================================================
