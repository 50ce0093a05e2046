----------------------------- MODULE Supervisor -----------------------------
(***************************************************************************)
(* SignalSupervisor (scheduler/trigger.py): the asyncio task that owns one *)
(* signal's cascade.  A task runs from one await to the next without being *)
(* interrupted, so each action below is the completion of one awaited call *)
(* (a database operation, a broker call, a DM) and the code from there to  *)
(* the next await; the other tasks, the clock and a crash come in between. *)
(*                                                                         *)
(* A task is <<s, k>>: the k-th supervisor of signal s in this process.    *)
(* That there is never more than one is a theorem, not an assumption.      *)
(***************************************************************************)
EXTENDS StateStore

CONSTANTS
  Slots,          \* bound: supervisors of one signal alive at the same time
  Grace,          \* _RESULT_GRACE_SECONDS
  LossLimit,      \* daily_loss_limit in USD, 0 = disabled
  TradeLimit,     \* daily_trade_limit, 0 = disabled
  DrawdownLimit,  \* daily_drawdown_pct, compared as USD; 0 = disabled
  PlaceOutcomes,  \* what broker.place may do, see Place* below
  WaitResults,    \* what broker.wait_result may answer
  DbMayFail       \* whether a database operation of a task may raise

ASSUME SupervisorAssumption ==
  /\ Grace \in Nat
  /\ LossLimit \in Nat /\ TradeLimit \in Nat /\ DrawdownLimit \in Nat
  /\ PlaceOutcomes \subseteq {"ok", "unsupported", "raised", "raised_executed"}
  /\ WaitResults \subseteq Results
  /\ DbMayFail \in BOOLEAN

Task == Signals \X Slots

VARIABLES
  now,       \* the wall clock, which call_at and the timeouts follow
  pc,        \* pc[t]: the await that task t is at, "free" if there is no task
  st,        \* st[t]: the local variable `state` of _drive_cascade
  bet,       \* bet[t]: its locals stage, placed_at and stage_result
  deadline,  \* deadline[t]: when asyncio.wait_for gives up on the result
  trades,    \* trades[s][g]: orders that the broker executed for stage g of s
  told       \* told[s]: the DMs about s that were sent to the user

taskVars == <<pc, st, bet, deadline>>

Labels ==
  {"free", "limit", "rejectWrite", "rejectTell", "idem", "receivedTell",
   "armed", "fireWrite", "expiredTell", "place", "pairTell", "errorWrite",
   "stageWrite", "placedTell", "waiting", "resultWrite", "stateWrite",
   "dailyWrite", "resultTell", "completeTell"}

\* The awaits on the database, each of which may raise.
DbLabels ==
  {"limit", "rejectWrite", "rejectTell", "idem", "fireWrite", "errorWrite",
   "stageWrite", "resultWrite", "stateWrite", "dailyWrite"}

Bet   == [stage : Stages \union {"none"}, at : Nat, result : Results \union {"none"}]
NoBet == [stage |-> "none", at |-> 0, result |-> "none"]

DmKinds == {"received", "rejected", "expired", "pair_unavailable", "placed",
            "win", "loss", "complete"}
DmType  == [kind : DmKinds, about : Stages \union States \union {"none"}, pnl : Int]
Dm(kind, about, pnl) == [kind |-> kind, about |-> about, pnl |-> pnl]

SupervisorTypeOK ==
  /\ now \in Nat
  /\ pc \in [Task -> Labels]
  /\ st \in [Task -> SignalState]
  /\ bet \in [Task -> Bet]
  /\ deadline \in [Task -> Int]
  /\ trades \in [Signals -> [Stages -> Nat]]
  /\ told \in [Signals -> SUBSET DmType]

NoTasks ==
  /\ pc = [t \in Task |-> "free"]
  /\ st = [t \in Task |-> FromSignal(0)]
  /\ bet = [t \in Task |-> NoBet]
  /\ deadline = [t \in Task |-> 0]

SupervisorInit ==
  /\ now = 0
  /\ NoTasks
  /\ trades = [s \in Signals |-> [g \in Stages |-> 0]]
  /\ told = [s \in Signals |-> {}]

-----------------------------------------------------------------------------
(* Starting and ending a task.                                             *)

Goto(t, label) == pc' = [pc EXCEPT ![t] = label]

\* asyncio.create_task(supervisor.run()): the task begins at the limit check.
Spawn(t) ==
  /\ pc[t] = "free"
  /\ Goto(t, "limit")
  /\ UNCHANGED <<st, bet, deadline>>

\* The coroutine returns: whatever it knew is gone.
End(t) ==
  /\ Goto(t, "free")
  /\ st' = [st EXCEPT ![t] = FromSignal(0)]
  /\ bet' = [bet EXCEPT ![t] = NoBet]
  /\ deadline' = [deadline EXCEPT ![t] = 0]

\* run() catches every exception but cancellation and only logs it: a failed
\* database operation ends the task where it stands.
DbFails(t) ==
  /\ DbMayFail
  /\ pc[t] \in DbLabels
  /\ End(t)
  /\ UNCHANGED <<storeVars, now, trades, told>>

\* The broker executes the order of the current bet.
Executed(t) == trades' = [trades EXCEPT ![t[1]][bet[t].stage] = @ + 1]

\* scheduler.run cancels its supervisors when the program stops, wherever they
\* are.  A thread that is sending an order is not cancelled with its task: the
\* order may still be executed, which nothing in the program ever reads.
Cancelled(t) ==
  /\ pc[t] # "free"
  /\ End(t)
  /\ \/ UNCHANGED trades
     \/ pc[t] = "place" /\ Executed(t)
  /\ UNCHANGED <<storeVars, now, told>>

-----------------------------------------------------------------------------
(* Intake: the daily limits, then the idempotency check.                   *)

\* Mutant of LimitHit: off by one.
LimitHitLate(d) ==
  /\ HasSummary(d)
  /\ \/ LossLimit > 0 /\ daily[d].pnl < -(100 * LossLimit)
     \/ TradeLimit > 0 /\ daily[d].trades > TradeLimit
     \/ DrawdownLimit > 0 /\ daily[d].pnl < -(100 * DrawdownLimit)

\* _check_daily_limit.  No broker has the public attribute
\* start_of_day_balance, so the drawdown is always the fallback in USD.
LimitHit(d) ==
  /\ HasSummary(d)
  /\ \/ LossLimit > 0 /\ daily[d].pnl <= -(100 * LossLimit)
     \/ TradeLimit > 0 /\ daily[d].trades >= TradeLimit
     \/ DrawdownLimit > 0 /\ daily[d].pnl <= -(100 * DrawdownLimit)

CheckDailyLimit(t) ==
  /\ pc[t] = "limit"
  /\ Goto(t, IF LimitHit(DateOf[t[1]]) THEN "rejectWrite" ELSE "idem")
  /\ UNCHANGED <<storeVars, st, bet, deadline, now, trades, told>>

RejectWrite(t) ==
  /\ pc[t] = "rejectWrite"
  /\ UpdateSignalState(t[1], "error", "daily_limit_hit")
  /\ Goto(t, "rejectTell")
  /\ UNCHANGED <<st, bet, deadline, now, trades, told>>

Tell(s, dm) == told' = [told EXCEPT ![s] = @ \union {dm}]

\* The summary is read again, for figures of the DM that are not modelled, and
\* the DM is sent: two awaits, of which only the first may raise, and between
\* which nothing is decided.
RejectTell(t) ==
  /\ pc[t] = "rejectTell"
  /\ Tell(t[1], Dm("rejected", "none", 0))
  /\ End(t)
  /\ UNCHANGED <<storeVars, now, trades>>

\* Mutant of MayDrive: only a finished signal is not driven.
MayDriveActive(s) == signals[s] \notin FinalStates

\* D-11: a supervisor only drives a signal whose row is still pending.
MayDrive(s) == signals[s] \in {"none", "pending"}

DuplicateAtIntake(t) ==
  /\ pc[t] = "idem"
  /\ ~MayDrive(t[1])
  /\ End(t)
  /\ UNCHANGED <<storeVars, now, trades, told>>

StartCascade(t) ==
  /\ pc[t] = "idem"
  /\ MayDrive(t[1])
  /\ st' = [st EXCEPT ![t] = FromSignal(Trigger[t[1]])]
  /\ Goto(t, "receivedTell")
  /\ UNCHANGED <<storeVars, bet, deadline, now, trades, told>>

ReceivedTell(t) ==
  /\ pc[t] = "receivedTell"
  /\ Tell(t[1], Dm("received", "none", 0))
  /\ Goto(t, "armed")
  /\ UNCHANGED <<storeVars, st, bet, deadline, now, trades>>

-----------------------------------------------------------------------------
(* One iteration of _drive_cascade: wait for the trigger, fire, place.     *)

\* The stage triggers that the listener stored in the Signal, used by call_at.
StageTrigger(s, g) == Trigger[s] + StageOffset(g) * Expiration

\* Mutant of Due: call_at is given a time of the wrong clock.
DueAtOnce(t) == pc[t] = "armed"

\* call_at with a target in the past fires immediately (D-17).
Due(t) == pc[t] = "armed" /\ now >= StageTrigger(t[1], st[t].stage)

\* The locals that describe the bet about to be placed.
OpenBet(t) ==
  bet' = [bet EXCEPT ![t] =
            [stage |-> st[t].stage, at |-> now, result |-> "none"]]

\* Mutant of FireEvent: the order goes out before the row is updated.
FireEventUnsaved(t) ==
  /\ Due(t)
  /\ AcceptsFire(st[t])
  /\ ~WindowPassed(st[t], now)
  /\ st' = [st EXCEPT ![t] = OnFire(st[t], now)]
  /\ OpenBet(t)
  /\ Goto(t, "place")
  /\ UNCHANGED <<storeVars, deadline, now, trades, told>>

\* The FireEvent is only dispatched in the pending state.
FireEvent(t) ==
  /\ Due(t)
  /\ AcceptsFire(st[t])
  /\ st' = [st EXCEPT ![t] = OnFire(st[t], now)]
  /\ Goto(t, "fireWrite")
  /\ UNCHANGED <<storeVars, bet, deadline, now, trades, told>>

\* A gale stage is already placed_<stage>: it goes straight to the broker.
FireGale(t) ==
  /\ Due(t)
  /\ ~AcceptsFire(st[t])
  /\ OpenBet(t)
  /\ Goto(t, "place")
  /\ UNCHANGED <<storeVars, st, deadline, now, trades, told>>

\* The row says placed_initial before the order goes out.
FireWrite(t) ==
  /\ pc[t] = "fireWrite"
  /\ UpdateSignalState(t[1], st[t].state, st[t].reason)
  /\ UNCHANGED <<st, deadline, now, trades, told>>
  /\ \/ /\ st[t].state = "error"
        /\ Goto(t, "expiredTell")
        /\ UNCHANGED bet
     \/ /\ st[t].state # "error"
        /\ OpenBet(t)
        /\ Goto(t, "place")

ExpiredTell(t) ==
  /\ pc[t] = "expiredTell"
  /\ Tell(t[1], Dm("expired", "none", 0))
  /\ Goto(t, "completeTell")
  /\ UNCHANGED <<storeVars, st, bet, deadline, now, trades>>

PlaceOk(t) ==
  /\ pc[t] = "place"
  /\ "ok" \in PlaceOutcomes
  /\ Executed(t)
  /\ Goto(t, "stageWrite")
  /\ UNCHANGED <<storeVars, st, bet, deadline, now, told>>

PlaceUnsupported(t) ==
  /\ pc[t] = "place"
  /\ "unsupported" \in PlaceOutcomes
  /\ Goto(t, "pairTell")
  /\ UNCHANGED <<storeVars, st, bet, deadline, now, trades, told>>

\* BrokerAuthError or any other exception ends the task in run(); the order
\* may have reached the broker before the exception was raised.
PlaceRaises(t) ==
  /\ pc[t] = "place"
  /\ \/ "raised" \in PlaceOutcomes /\ UNCHANGED trades
     \/ "raised_executed" \in PlaceOutcomes /\ Executed(t)
  /\ End(t)
  /\ UNCHANGED <<storeVars, now, told>>

\* on_pair_unavailable, then _apply_error_transition.
PairTell(t) ==
  /\ pc[t] = "pairTell"
  /\ Tell(t[1], Dm("pair_unavailable", "none", 0))
  /\ st' = [st EXCEPT ![t] = OnResult(st[t], "error", now)]
  /\ Goto(t, "errorWrite")
  /\ UNCHANGED <<storeVars, bet, deadline, now, trades>>

ErrorWrite(t) ==
  /\ pc[t] = "errorWrite"
  /\ UpdateSignalState(t[1], st[t].state, st[t].reason)
  /\ Goto(t, "completeTell")
  /\ UNCHANGED <<st, bet, deadline, now, trades, told>>

\* A trade_id that is already taken raises StageAlreadyExistsError, and run()
\* ends the task.
StageWrite(t) ==
  /\ pc[t] = "stageWrite"
  /\ UNCHANGED <<now, trades, told>>
  /\ IF StageExists(t[1], bet[t].stage, bet[t].at)
       THEN End(t) /\ UNCHANGED storeVars
       ELSE /\ RecordStagePlaced(t[1], bet[t].stage, bet[t].at)
            /\ Goto(t, "placedTell")
            /\ UNCHANGED <<st, bet, deadline>>

\* The timeout counts from the stage's expiry, and is short when that is past.
ResultDeadline(t) ==
  IF now > st[t].expires + Grace THEN now ELSE st[t].expires + Grace

PlacedTell(t) ==
  /\ pc[t] = "placedTell"
  /\ Tell(t[1], Dm("placed", bet[t].stage, 0))
  /\ deadline' = [deadline EXCEPT ![t] = ResultDeadline(t)]
  /\ Goto(t, "waiting")
  /\ UNCHANGED <<storeVars, st, bet, now, trades>>

-----------------------------------------------------------------------------
(* The result of the stage: _wait_for_stage_result and                     *)
(* _apply_result_and_finalize.                                             *)

\* Mutant of GotResult: the result of the stage is not recorded.
GotResultUnrecorded(t, r) ==
  /\ st' = [st EXCEPT ![t] = OnResult(st[t], r, now)]
  /\ bet' = [bet EXCEPT ![t].result = r]
  /\ Goto(t, "stateWrite")
  /\ UNCHANGED <<storeVars, deadline, now, trades, told>>

\* The transition is computed when the result arrives, before it is written.
GotResult(t, r) ==
  /\ st' = [st EXCEPT ![t] = OnResult(st[t], r, now)]
  /\ bet' = [bet EXCEPT ![t].result = r]
  /\ Goto(t, "resultWrite")
  /\ UNCHANGED <<storeVars, deadline, now, trades, told>>

\* The broker answers, or raises, which counts as "error".
BrokerAnswers(t) ==
  /\ pc[t] = "waiting"
  /\ \E r \in WaitResults : GotResult(t, r)

WaitTimesOut(t) ==
  /\ pc[t] = "waiting"
  /\ now >= deadline[t]
  /\ GotResult(t, "timeout")

ResultWrite(t) ==
  /\ pc[t] = "resultWrite"
  /\ RecordStageResult(t[1], bet[t].stage, bet[t].at, bet[t].result)
  /\ Goto(t, "stateWrite")
  /\ UNCHANGED <<st, bet, deadline, now, trades, told>>

StateWrite(t) ==
  /\ pc[t] = "stateWrite"
  /\ UpdateSignalState(t[1], st[t].state, st[t].reason)
  /\ Goto(t, "dailyWrite")
  /\ UNCHANGED <<st, bet, deadline, now, trades, told>>

\* An "error" result has no DM of its own.
DailyWrite(t) ==
  /\ pc[t] = "dailyWrite"
  /\ UpdateDailySummary(DateOf[t[1]], bet[t].result,
                        StagePnl(bet[t].stage, bet[t].result))
  /\ Goto(t, IF bet[t].result = "error" THEN "completeTell" ELSE "resultTell")
  /\ UNCHANGED <<st, bet, deadline, now, trades, told>>

\* Mutant of ResultTell: the end is not told.
ResultTellSilent(t) ==
  /\ pc[t] = "resultTell"
  /\ Tell(t[1], Dm("loss", bet[t].stage, st[t].cum))
  /\ IF st[t].state \in FinalStates THEN End(t)
     ELSE Goto(t, "armed") /\ UNCHANGED <<st, bet, deadline>>
  /\ UNCHANGED <<storeVars, now, trades>>

\* on_win or on_loss; then the loop ends, or arms the next stage.
ResultTell(t) ==
  /\ pc[t] = "resultTell"
  /\ Tell(t[1], Dm(IF bet[t].result = "win" THEN "win" ELSE "loss",
                   bet[t].stage, st[t].cum))
  /\ Goto(t, IF st[t].state \in FinalStates THEN "completeTell" ELSE "armed")
  /\ UNCHANGED <<storeVars, st, bet, deadline, now, trades>>

CompleteTell(t) ==
  /\ pc[t] = "completeTell"
  /\ Tell(t[1], Dm("complete", st[t].state, st[t].cum))
  /\ End(t)
  /\ UNCHANGED <<storeVars, now, trades>>

\* What the task does of its own accord, whatever the environment answers.
Step(t) ==
  \/ CheckDailyLimit(t) \/ RejectWrite(t) \/ RejectTell(t)
  \/ DuplicateAtIntake(t) \/ StartCascade(t) \/ ReceivedTell(t)
  \/ FireEvent(t) \/ FireGale(t) \/ FireWrite(t) \/ ExpiredTell(t)
  \/ PlaceOk(t) \/ PlaceUnsupported(t) \/ PlaceRaises(t)
  \/ PairTell(t) \/ ErrorWrite(t) \/ StageWrite(t) \/ PlacedTell(t)
  \/ WaitTimesOut(t) \/ ResultWrite(t) \/ StateWrite(t) \/ DailyWrite(t)
  \/ ResultTell(t) \/ CompleteTell(t)
=============================================================================
