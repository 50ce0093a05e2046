-------------------------- MODULE CopierInvariant --------------------------
(***************************************************************************)
(* Why the safety properties of Copier hold: the inductive invariant.      *)
(*                                                                         *)
(* Its core is a question of ownership.  A signal that is still to be bet  *)
(* on is in exactly one place - a handler about to queue it, the queue, or *)
(* one supervisor - and while a supervisor drives it, the row in the       *)
(* database says what the supervisor's local variable says, up to the one  *)
(* write that it is about to make.  A supervisor that finds any other row  *)
(* than a pending one never drives at all.                                 *)
(*                                                                         *)
(* The later sections state, with what makes each inductive, what follows  *)
(* of the recorded rows, of the money, and of the end of a cascade.        *)
(***************************************************************************)
EXTENDS Copier

Unattended(s) == \A k \in Slots : pc[<<s, k>>] = "free"

Queued(s) == \E i \in 1..Len(queue) : queue[i] = s

\* A signal is held by at most one handler, queue entry or task, and a row
\* that recovery has still to deal with by none of them.
Exclusive ==
  /\ \A s \in Signals : inserted[s] > 0 =>
       /\ inserted[s] = 1 /\ signals[s] = "pending"
       /\ ~Queued(s) /\ Unattended(s)
  /\ \A s \in Signals : Queued(s) => signals[s] = "pending" /\ Unattended(s)
  /\ \A i, j \in 1..Len(queue) : queue[i] = queue[j] => i = j
  /\ OneSupervisor
  /\ \A t \in Task : pc[t] # "free" => signals[t[1]] # "none"
  /\ \A s \in Signals : snapshot[s] # "none" =>
       signals[s] \in PlacedStates /\ Unattended(s)

\* The statuses that can follow a result of stage g.
Successors(g) ==
  {"done_win", "error"} \union
    (IF g = "gale2" THEN {"done_loss"} ELSE {PlacedState(NextStage(g))})

\* Recovery works alone, and on the rows as it listed them.
Phases ==
  /\ proc # "recovering" =>
       timeout.at = "no" /\ \A s \in Signals : snapshot[s] = "none"
  /\ proc \in {"down", "boot"} => \A t \in Task : pc[t] = "free"
  /\ timeout.at # "no" => timeout.sig \in Signals /\ snapshot[timeout.sig] # "none"
  /\ timeout.at = "write" => timeout.status \in Successors(StageOf(snapshot[timeout.sig]))
  /\ \A s \in Signals :
       snapshot[s] # "none" /\ ~(timeout.at = "reread" /\ timeout.sig = s)
         => signals[s] = snapshot[s]

-----------------------------------------------------------------------------
(* What a driving supervisor knows of its signal's row and orders.         *)

PreviousStage(g) == IF g = "gale2" THEN "gale1" ELSE "initial"

\* The row is at stage g, which has n orders, and the stage before g has one.
AtStage(t, g, n) ==
  /\ g \in Stages
  /\ signals[t[1]] = PlacedState(g)
  /\ trades[t[1]][g] = n
  /\ g # "initial" => trades[t[1]][PreviousStage(g)] = 1

\* The local state is that of the row.
InStep(t) == st[t].stage \in Stages /\ st[t].state = PlacedState(st[t].stage)

Fresh(t) == st[t].state = "pending" /\ st[t].stage = "initial"

\* The local state has moved on from the stage of the bet.
Advanced(t) ==
  /\ bet[t].stage \in Stages /\ bet[t].result \in Results
  /\ st[t].state \in Successors(bet[t].stage)
  /\ st[t].state \in PlacedStates =>
       /\ InStep(t) /\ bet[t].stage # "gale2" /\ bet[t].result \in Losing
       /\ st[t].stage = NextStage(bet[t].stage)

TaskAgrees(t) ==
  /\ pc[t] \in {"limit", "rejectWrite", "idem"} =>
       signals[t[1]] \in {"pending"} \union PlacedStates
  /\ pc[t] = "rejectTell" => signals[t[1]] = "error"
  /\ pc[t] = "receivedTell" => signals[t[1]] = "pending" /\ Fresh(t)
  /\ pc[t] = "armed" =>
       \/ signals[t[1]] = "pending" /\ Fresh(t)
       \/ InStep(t) /\ st[t].stage # "initial" /\ AtStage(t, st[t].stage, 0)
  /\ pc[t] = "fireWrite" =>
       /\ signals[t[1]] = "pending"
       /\ \/ st[t].state = "error"
          \/ st[t].state = "placed_initial" /\ st[t].stage = "initial"
  /\ pc[t] = "expiredTell" => signals[t[1]] = st[t].state /\ st[t].state = "error"
  /\ pc[t] \in {"place", "pairTell"} =>
       InStep(t) /\ bet[t].stage = st[t].stage /\ AtStage(t, st[t].stage, 0)
  /\ pc[t] = "errorWrite" =>
       st[t].state = "error" /\ signals[t[1]] \in PlacedStates
  /\ pc[t] \in {"stageWrite", "placedTell", "waiting"} =>
       InStep(t) /\ bet[t].stage = st[t].stage /\ AtStage(t, st[t].stage, 1)
  /\ pc[t] \in {"resultWrite", "stateWrite"} =>
       Advanced(t) /\ AtStage(t, bet[t].stage, 1)
  /\ pc[t] \in {"dailyWrite", "resultTell"} =>
       /\ Advanced(t) /\ signals[t[1]] = st[t].state
       /\ st[t].state \in PlacedStates => AtStage(t, st[t].stage, 0)
  /\ pc[t] = "completeTell" =>
       signals[t[1]] = st[t].state /\ st[t].state \in FinalStates

Agreement == \A t \in Task : TaskAgrees(t)

\* Gale orders follow the order of the stage before them.
Ordered ==
  \A s \in Signals : \A g \in {"gale1", "gale2"} :
    trades[s][g] > 0 => trades[s][PreviousStage(g)] = 1

Safe == TypeOK /\ Exclusive /\ Phases /\ Agreement /\ WriteAhead
        /\ NoDuplicateTrade /\ Ordered

-----------------------------------------------------------------------------
(* The stage rows, for NoGaleWithoutLoss.                                  *)

LossOnRecord(s, g) ==
  \E row \in stages : row.sig = s /\ row.stage = g /\ row.result \in Losing

ResultOnRecord(t) ==
  \E row \in stages :
    row.sig = t[1] /\ row.stage = bet[t].stage /\ row.result = bet[t].result

\* The row of the bet exists until its result is written, and the result is on
\* record before a gale is armed.
Records(t) ==
  /\ pc[t] \in {"placedTell", "waiting", "resultWrite"} =>
       StageExists(t[1], bet[t].stage, bet[t].at)
  /\ pc[t] \in {"stateWrite", "dailyWrite", "resultTell"} => ResultOnRecord(t)
  /\ pc[t] \in {"armed", "place"} /\ st[t].stage \in {"gale1", "gale2"} =>
       LossOnRecord(t[1], PreviousStage(st[t].stage))

Recorded == \A t \in Task : Records(t)

-----------------------------------------------------------------------------
(* The stages table against the orders.                                    *)

HasRow(s, g) == \E row \in stages : row.sig = s /\ row.stage = g

\* Every stage row stands for an order that the broker executed, and a stage of
\* a signal never has two.
RowsAreOrders ==
  /\ \A row \in stages : trades[row.sig][row.stage] = 1
  /\ \A row, other \in stages :
       row.sig = other.sig /\ row.stage = other.stage => row = other

\* record_stage_placed never raises StageAlreadyExistsError: the stage whose row
\* a supervisor inserts has none, under whatever trade_id.
InsertsAreNew == \A t \in Task : pc[t] = "stageWrite" => ~HasRow(t[1], bet[t].stage)

Ledger == RowsAreOrders /\ InsertsAreNew

\* On record a signal is a martingale: every stage but its last was lost, so
\* that it has at most one win and nothing after it.
LossesBeforeLast ==
  \A row, other \in stages :
    row.sig = other.sig /\ StageOffset(row.stage) < StageOffset(other.stage)
      => row.result \in Losing

-----------------------------------------------------------------------------
(* The sums, for ToldTheTruth.                                             *)

\* The awaits of _drive_cascade, whose local state carries the running total.
DriveLabels == Labels \ {"free", "limit", "rejectWrite", "rejectTell", "idem"}

\* The running total is that of the rows, up to the one result in flight.
Tallies(t) ==
  pc[t] \in DriveLabels =>
    st[t].cum = RowsPnl(RowsOf(t[1])) + (IF pc[t] = "resultWrite" THEN BetPnl(t) ELSE 0)

\* A signal that nobody has driven has no rows, and an end that was told is final.
Tallied ==
  /\ \A t \in Task : Tallies(t)
  /\ \A s \in Signals : signals[s] \in {"none", "pending"} => RowsOf(s) = {}
  /\ \A s \in Signals : \A dm \in told[s] : dm.kind = "complete" => dm.about \in FinalStates
  /\ ToldTheTruth

\* What the stages before g, or all of them, cost when they are lost, in USD.
LostBefore(g) ==
  [initial |-> 0, gale1 |-> Amount["initial"],
   gale2   |-> Amount["initial"] + Amount["gale1"]][g]
LostAll == LostBefore("gale2") + Amount["gale2"]

\* The totals, in cents, that a cascade can have come to with a status: one win
\* after losses, the loss of every stake, or the stakes of the stages before the
\* one at which a window passed or the broker failed.
MartingaleTotal(status, cum) ==
  /\ status = "pending" => cum = 0
  /\ \A g \in Stages : status = PlacedState(g) => cum = -(100 * LostBefore(g))
  /\ status = "done_win" =>
       \E g \in Stages : cum = 92 * Amount[g] - 100 * LostBefore(g)
  /\ status = "done_loss" => cum = -(100 * LostAll)
  /\ status = "error" => \E g \in Stages : cum = -(100 * LostBefore(g))

\* The total that the user is told is that of a martingale with the configured
\* amounts: no stage is left out, counted twice or paid at another stage's rate.
TotalsAreMartingales ==
  \A s \in Signals : \A dm \in told[s] : dm.kind = "complete" =>
    MartingaleTotal(dm.about, dm.pnl)

Totals ==
  /\ \A t \in Task : pc[t] \in DriveLabels => MartingaleTotal(st[t].state, st[t].cum)
  /\ TotalsAreMartingales

\* A signal never costs more than its three stakes, by the recorded rows.
CostsAtMostItsStakes == \A s \in Signals : RowsPnl(RowsOf(s)) >= -(100 * LostAll)
-----------------------------------------------------------------------------
(* What is left of a cascade.                                              *)

\* A signal whose cascade nobody will begin or continue: it has been received,
\* and whoever still runs for it has not come past the idempotency check.
Abandoned(s) ==
  /\ signals[s] # "none" /\ inserted[s] = 0 /\ ~Queued(s)
  /\ \A k \in Slots : pc[<<s, k>>] \notin DriveLabels
  /\ signals[s] = "pending" => Unattended(s)

\* While the process is down, nothing of it is left.
NothingRuns ==
  proc = "down" =>
    /\ checked = [s \in Signals |-> 0] /\ inserted = [s \in Signals |-> 0]
    /\ queue = <<>> /\ timeout.at = "no"
    /\ \A t \in Task : pc[t] = "free"

\* What a crash interrupts, no later life of the process continues: recovery
\* adopts the signals that had bet and times them out, but bets for none.
NoBetAfterCrash ==
  \A s \in Signals :
    [](proc = "down" /\ signals[s] # "none" => [][trades'[s] = trades[s]]_vars)

\* The stages that can still be bet on from a local state, its own included.
StagesLeft(state) ==
  IF state.state \in FinalStates THEN 0 ELSE 3 - StageOffset(state.stage)

\* The most awaits that a task can still make from a label and a local state:
\* of each stage nine, from its trigger to the DM of its result.
AwaitsFrom(label, state) ==
  LET stagesLeft == 9 * StagesLeft(state) IN
    CASE label = "free" -> 0
      [] label = "limit" -> 32
      [] label = "idem" -> 31
      [] label = "receivedTell" -> 30
      [] label = "armed" -> IF state.state = "pending" THEN 29 ELSE stagesLeft + 1
      [] label = "fireWrite" -> 28
      [] label = "place" -> stagesLeft
      [] label = "stageWrite" -> stagesLeft - 1
      [] label = "placedTell" -> stagesLeft - 2
      [] label = "waiting" -> stagesLeft - 3
      [] label = "resultWrite" -> stagesLeft + 5
      [] label = "stateWrite" -> stagesLeft + 4
      [] label = "dailyWrite" -> stagesLeft + 3
      [] label = "resultTell" -> stagesLeft + 2
      [] label = "pairTell" -> 3
      [] label \in {"rejectWrite", "expiredTell", "errorWrite"} -> 2
      [] label \in {"rejectTell", "completeTell"} -> 1

AwaitsLeft(t) == AwaitsFrom(pc[t], st[t])

\* No cascade goes on for ever: a supervisor has at most 32 awaits before it,
\* each that completes is one fewer, and nothing that others do adds any.
AwaitsAreBounded == \A t \in Task :
  AwaitsLeft(t) \in 0..32 /\ (AwaitsLeft(t) = 0 <=> pc[t] = "free")
AwaitsRunOut ==
  [][ \A t \in Task : pc[t] # "free" =>
        /\ pc'[t] # pc[t] => AwaitsLeft(t)' < AwaitsLeft(t)
        /\ pc'[t] = pc[t] => AwaitsLeft(t)' = AwaitsLeft(t) ]_vars
=============================================================================
