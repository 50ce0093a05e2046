------------------------------- MODULE Copier -------------------------------
(***************************************************************************)
(* The running program: the Telegram listener (telegram/listener.py), the  *)
(* signals queue, the scheduler (scheduler/trigger.py), boot-time recovery *)
(* (recovery.py) and the life of the process (__main__.py), around the     *)
(* supervisors of module Supervisor.                                       *)
(*                                                                         *)
(* A process boots, runs recovery, then dequeues signals until it dies;    *)
(* Telegram may deliver a message to it from the moment it has booted.     *)
(* It may stop first, which cancels supervisors one by one; when it dies   *)
(* its tasks, its queue and its handlers are gone, and the database and    *)
(* the broker remain.                                                      *)
(***************************************************************************)
EXTENDS Supervisor, Sequences, FiniteSets, Functions

CONSTANTS
  PastTolerance,    \* is_within_window: how late a message may be
  FutureTolerance,  \* is_within_window: how early
  StageWindow,      \* recovery.py's _STAGE_WINDOW_SECONDS
  QueueSize,        \* _SIGNALS_QUEUE_MAXSIZE
  MaxDeliveries,    \* bound: handler calls Telegram makes for one signal
  MaxCrashes,       \* bound: deaths of the process
  MaxNow            \* bound: the last instant of the clock

ASSUME CopierAssumption ==
  /\ PastTolerance \in Nat /\ FutureTolerance \in Nat /\ StageWindow \in Nat
  /\ QueueSize \in Nat \ {0}
  /\ MaxDeliveries \in Nat /\ MaxCrashes \in Nat /\ MaxNow \in Nat

VARIABLES
  proc,        \* "down", "boot", "recovering", "running" or "stopping"
  checked,     \* checked[s]: handlers of s awaiting upsert_signal
  inserted,    \* inserted[s]: handlers of s awaiting queue.put
  queue,       \* the signals queue
  snapshot,    \* snapshot[s]: status of s in recovery's list, "none" if not
               \* in it or already dealt with
  recNow,      \* recovery's one reading of the clock
  timeout,     \* the record_timeout call in progress
  deliveries,  \* deliveries[s]: handler calls made for s so far
  crashes      \* deaths of the process so far

listenerVars == <<checked, inserted, queue, deliveries>>
recoveryVars == <<snapshot, recNow, timeout>>
supervisorVars == <<storeVars, now, taskVars, trades, told>>
vars == <<supervisorVars, proc, listenerVars, recoveryVars, crashes>>

\* at: the await of record_timeout; sig: its signal; new: the new status.
TimeoutCall ==
  [at : {"no", "read", "write", "reread"}, sig : Signals \union {"none"},
   status : States \union {"none"}, why : Reasons]
NoTimeout == [at |-> "no", sig |-> "none", status |-> "none", why |-> "none"]

TypeOK ==
  /\ StoreTypeOK
  /\ SupervisorTypeOK
  /\ proc \in {"down", "boot", "recovering", "running", "stopping"}
  /\ checked \in [Signals -> Nat]
  /\ inserted \in [Signals -> Nat]
  /\ queue \in Seq(Signals)
  /\ snapshot \in [Signals -> PlacedStates \union {"none"}]
  /\ recNow \in Nat
  /\ timeout \in TimeoutCall
  /\ deliveries \in [Signals -> Nat]
  /\ crashes \in Nat

NoProcess ==
  /\ checked = [s \in Signals |-> 0]
  /\ inserted = [s \in Signals |-> 0]
  /\ queue = <<>>
  /\ snapshot = [s \in Signals |-> "none"]
  /\ recNow = 0
  /\ timeout = NoTimeout

Init ==
  /\ StoreInit
  /\ SupervisorInit
  /\ NoProcess
  /\ proc = "boot"
  /\ deliveries = [s \in Signals |-> 0]
  /\ crashes = 0

-----------------------------------------------------------------------------
(* The listener.                                                           *)

InWindow(s) ==
  now - PastTolerance <= Trigger[s] /\ Trigger[s] <= now + FutureTolerance

\* A handler is called for a message of s: a new message, an edit or a repost
\* (every event also reaches both handlers).  Outside the window it returns.
Deliver(s) ==
  /\ proc # "down"
  /\ deliveries[s] < MaxDeliveries
  /\ InWindow(s)
  /\ deliveries' = [deliveries EXCEPT ![s] = @ + 1]
  /\ checked' = [checked EXCEPT ![s] = @ + 1]
  /\ UNCHANGED <<supervisorVars, proc, inserted, queue, recoveryVars, crashes>>

\* upsert_signal completes; a handler that did not insert the row returns.
Upsert(s) ==
  /\ checked[s] > 0
  /\ UpsertSignal(s)
  /\ checked' = [checked EXCEPT ![s] = @ - 1]
  /\ inserted' = [inserted EXCEPT ![s] = IF InsertWins(s) THEN @ + 1 ELSE @]
  /\ UNCHANGED <<now, taskVars, trades, told, proc, queue, deliveries,
                 recoveryVars, crashes>>

\* upsert_signal raises: the handler ends, and nothing was inserted.
UpsertFails(s) ==
  /\ DbMayFail
  /\ checked[s] > 0
  /\ checked' = [checked EXCEPT ![s] = @ - 1]
  /\ UNCHANGED <<supervisorVars, proc, inserted, queue, deliveries,
                 recoveryVars, crashes>>

\* Mutant of Put: put_nowait, whose QueueFull is only logged.
PutNoWait(s) ==
  /\ inserted[s] > 0
  /\ queue' = IF Len(queue) < QueueSize THEN Append(queue, s) ELSE queue
  /\ inserted' = [inserted EXCEPT ![s] = @ - 1]
  /\ UNCHANGED <<supervisorVars, proc, checked, deliveries, recoveryVars,
                 crashes>>

\* queue.put blocks while the queue is full.
Put(s) ==
  /\ inserted[s] > 0
  /\ Len(queue) < QueueSize
  /\ queue' = Append(queue, s)
  /\ inserted' = [inserted EXCEPT ![s] = @ - 1]
  /\ UNCHANGED <<supervisorVars, proc, checked, deliveries, recoveryVars,
                 crashes>>

\* Mutant of Dequeue: also after the scheduler has been cancelled.
DequeueStopping(k) ==
  /\ proc \in {"running", "stopping"}
  /\ queue # <<>>
  /\ Spawn(<<Head(queue), k>>)
  /\ queue' = Tail(queue)
  /\ UNCHANGED <<storeVars, now, trades, told, proc, checked, inserted,
                 deliveries, recoveryVars, crashes>>

\* Scheduler.run: one supervisor per signal taken from the queue.
Dequeue(k) ==
  /\ proc = "running"
  /\ queue # <<>>
  /\ Spawn(<<Head(queue), k>>)
  /\ queue' = Tail(queue)
  /\ UNCHANGED <<storeVars, now, trades, told, proc, checked, inserted,
                 deliveries, recoveryVars, crashes>>

-----------------------------------------------------------------------------
(* Recovery, which runs to its end before the scheduler starts.            *)

\* The list of active rows, and the clock read once it has arrived.
QueryActive ==
  /\ proc = "boot"
  /\ snapshot' = [s \in Signals |->
                    IF s \in ActiveSignals THEN signals[s] ELSE "none"]
  /\ recNow' = now
  /\ proc' = "recovering"
  /\ UNCHANGED <<supervisorVars, listenerVars, timeout, crashes>>

StageOf(status) ==
  [placed_initial |-> "initial", placed_gale1 |-> "gale1",
   placed_gale2   |-> "gale2"][status]

\* The rows are taken in the order of their triggers.
NextRow(s) ==
  /\ proc = "recovering"
  /\ timeout.at = "no"
  /\ snapshot[s] # "none"
  /\ \A r \in Signals : snapshot[r] # "none" => Trigger[s] <= Trigger[r]

\* Mutant of WindowClosed: the window is measured from the expiry.
WindowClosedLate(s, n) ==
  n > StageTrigger(s, StageOf(snapshot[s])) + Expiration + StageWindow

\* The stage's window, by arithmetic on the initial trigger.
WindowClosed(s, n) == n > StageTrigger(s, StageOf(snapshot[s])) + StageWindow

\* adopt() starts a supervisor from its beginning.
AdoptRow(s, k) ==
  /\ NextRow(s)
  /\ ~WindowClosed(s, recNow)
  /\ Spawn(<<s, k>>)
  /\ snapshot' = [snapshot EXCEPT ![s] = "none"]
  /\ UNCHANGED <<storeVars, now, trades, told, proc, listenerVars, recNow,
                 timeout, crashes>>

\* record_timeout() is called, and awaits get_signal.
TimeoutRow(s) ==
  /\ NextRow(s)
  /\ WindowClosed(s, recNow)
  /\ timeout' = [NoTimeout EXCEPT !.at = "read", !.sig = s]
  /\ UNCHANGED <<supervisorVars, proc, listenerVars, snapshot, recNow, crashes>>

\* The state that record_timeout rebuilds for a stage from the row.
Rebuilt(s, g) ==
  [state |-> signals[s], stage |-> g, trigger |-> StageTrigger(s, g),
   expires |-> StageTrigger(s, g) + Expiration, cum |-> 0,
   reason |-> reason[s]]

\* The row is read and the timeout dispatched to the state machine; a row that
\* is no longer placed_* rejects it.
TimeoutRead ==
  /\ timeout.at = "read"
  /\ LET s == timeout.sig
         rebuilt == Rebuilt(s, StageOf(snapshot[s]))
         new == OnResult(rebuilt, "timeout", now)
     IN  IF AcceptsResult(rebuilt)
         THEN /\ timeout' = [timeout EXCEPT !.at = "write",
                               !.status = new.state, !.why = new.reason]
              /\ UNCHANGED snapshot
         ELSE /\ timeout' = NoTimeout
              /\ snapshot' = [snapshot EXCEPT ![s] = "none"]
  /\ UNCHANGED <<supervisorVars, proc, listenerVars, recNow, crashes>>

\* Mutant of TimeoutDone: the row is dealt with again.
TimeoutDoneAgain == timeout' = NoTimeout /\ UNCHANGED snapshot

TimeoutDone ==
  /\ timeout' = NoTimeout
  /\ snapshot' = [snapshot EXCEPT ![timeout.sig] = "none"]

\* Only the status is written: no stage row, no daily summary, no DM.
TimeoutWrite ==
  /\ timeout.at = "write"
  /\ UpdateSignalState(timeout.sig, timeout.status, timeout.why)
  /\ UNCHANGED <<now, taskVars, trades, told, proc, listenerVars, recNow,
                 crashes>>
  /\ \/ /\ timeout.status \in PlacedStates
        /\ timeout' = [timeout EXCEPT !.at = "reread"]
        /\ UNCHANGED snapshot
     \/ /\ timeout.status \notin PlacedStates
        /\ TimeoutDone

\* A timeout that advanced the cascade adopts the row it has just written (only
\* when the tolerance exceeds the slack of the window).  The row is read again
\* for that; it still says placed_*, which is all that adopt() checks, since
\* nobody else writes a row that recovery has listed (Phases of Safe).
TimeoutAdopt(k) ==
  /\ timeout.at = "reread"
  /\ Spawn(<<timeout.sig, k>>)
  /\ TimeoutDone
  /\ UNCHANGED <<storeVars, now, trades, told, proc, listenerVars, recNow,
                 crashes>>

\* Recovery returns, and scheduler.run() starts.
StartScheduler ==
  /\ proc = "recovering"
  /\ timeout.at = "no"
  /\ \A s \in Signals : snapshot[s] = "none"
  /\ proc' = "running"
  /\ UNCHANGED <<supervisorVars, listenerVars, recoveryVars, crashes>>

-----------------------------------------------------------------------------
(* The supervisors, the clock and the life of the process.                 *)

SupervisorStep(t) ==
  /\ Step(t)
  /\ UNCHANGED <<proc, listenerVars, recoveryVars, crashes>>

Answer(t) ==
  /\ BrokerAnswers(t)
  /\ UNCHANGED <<proc, listenerVars, recoveryVars, crashes>>

DatabaseError(t) ==
  /\ DbFails(t)
  /\ UNCHANGED <<proc, listenerVars, recoveryVars, crashes>>

Tick ==
  /\ now < MaxNow
  /\ now' = now + 1
  /\ UNCHANGED <<storeVars, taskVars, trades, told, proc, listenerVars,
                 recoveryVars, crashes>>

\* A fatal error or SIGINT: nothing is recovered or dequeued from here on, and
\* the clean-up begins, while handlers and supervisors are still alive.
Stop ==
  /\ proc \in {"boot", "recovering", "running"}
  /\ crashes < MaxCrashes
  /\ proc' = "stopping"
  /\ snapshot' = [s \in Signals |-> "none"]
  /\ recNow' = 0
  /\ timeout' = NoTimeout
  /\ UNCHANGED <<supervisorVars, listenerVars, crashes>>

Cancel(t) ==
  /\ proc = "stopping"
  /\ Cancelled(t)
  /\ UNCHANGED <<proc, listenerVars, recoveryVars, crashes>>

\* The process ends at any await of any of its tasks.
Crash ==
  /\ proc # "down"
  /\ crashes < MaxCrashes
  /\ crashes' = crashes + 1
  /\ proc' = "down"
  /\ checked' = [s \in Signals |-> 0]
  /\ inserted' = [s \in Signals |-> 0]
  /\ queue' = <<>>
  /\ snapshot' = [s \in Signals |-> "none"]
  /\ recNow' = 0
  /\ timeout' = NoTimeout
  /\ pc' = [t \in Task |-> "free"]
  /\ st' = [t \in Task |-> FromSignal(0)]
  /\ bet' = [t \in Task |-> NoBet]
  /\ deadline' = [t \in Task |-> 0]
  /\ UNCHANGED <<storeVars, now, trades, told, deliveries>>

\* The platform restarts the process.
Boot ==
  /\ proc = "down"
  /\ proc' = "boot"
  /\ UNCHANGED <<supervisorVars, listenerVars, recoveryVars, crashes>>

Next ==
  \/ \E s \in Signals : 
       Deliver(s) \/ Upsert(s) \/ UpsertFails(s) \/ Put(s) \/ TimeoutRow(s)
  \/ \E s \in Signals, k \in Slots : AdoptRow(s, k)
  \/ \E k \in Slots : Dequeue(k) \/ TimeoutAdopt(k)
  \/ QueryActive \/ TimeoutRead \/ TimeoutWrite \/ StartScheduler
  \/ \E t \in Task : SupervisorStep(t) \/ Answer(t) \/ DatabaseError(t) \/ Cancel(t)
  \/ Tick \/ Stop \/ Crash \/ Boot

Spec == Init /\ [][Next]_vars

-----------------------------------------------------------------------------
(* Safety: what must hold whatever crashes, repeats and fails.             *)

\* NFR-2: no stage of a signal is bet on twice, whatever messages are
\* delivered again, whichever tasks overlap, wherever the process dies.
NoDuplicateTrade ==
  \A s \in Signals, g \in Stages : trades[s][g] <= 1

\* The statuses that a cascade whose order for g may be out can have.
Reached(g) ==
  FinalStates \union {PlacedState(h) : h \in {i \in Stages : StageOffset(i) >= StageOffset(g)}}

\* An order is at the broker only if the database already says that its stage
\* was reached, so that no crash can make recovery overlook it.
WriteAhead ==
  \A s \in Signals, g \in Stages : trades[s][g] > 0 => signals[s] \in Reached(g)

\* A gale order goes out only when the losing result of the stage before it
\* is on record.
NoGaleWithoutLoss ==
  \A s \in Signals, g \in {"initial", "gale1"} : trades[s][NextStage(g)] > 0 =>
    \E row \in stages : row.sig = s /\ row.stage = g /\ row.result \in Losing

\* At most one supervisor owns a signal, and while it does no handler or queue
\* entry can bring another.
OneSupervisor ==
  \A t, u \in Task :
    pc[t] # "free" /\ pc[u] # "free" /\ t[1] = u[1] => t = u

\* No order goes out before its stage's trigger, though a result may come early
\* and recovery hands over late.
NoEarlyTrade ==
  [][ \A s \in Signals, g \in Stages :
        trades'[s][g] # trades[s][g] => now >= StageTrigger(s, g) ]_vars

\* A final status, with its reason, is never overwritten.
FinalIsFinal ==
  [][ \A s \in Signals : signals[s] \in FinalStates =>
        signals'[s] = signals[s] /\ reason'[s] = reason[s] ]_vars

\* When recovery hands over to the scheduler, no placed_* row has a stage
\* whose window had closed at boot: each of them was timed out.
ClosedStagesTimedOut ==
  [][ proc = "recovering" /\ proc' = "running" =>
        \A s \in ActiveSignals :
          recNow <= StageTrigger(s, StageOf(signals[s])) + StageWindow ]_vars

ClosedRows(d) == {row \in stages : DateOf[row.sig] = d /\ row.result # "open"}

\* With crashes and database errors the summary may miss results, but it never
\* counts one that has no closed stage row, nor one twice.
DailyNeverOver ==
  \A d \in Dates :
    /\ daily[d].trades <= Cardinality(ClosedRows(d))
    /\ daily[d].wins <= Cardinality({row \in ClosedRows(d) : row.result = "win"})
    /\ daily[d].losses <= Cardinality({row \in ClosedRows(d) : row.result \in Losing})

\* Profit and loss of a set of stage rows; an open row counts for nothing.
RowPnl(row) == StagePnl(row.stage, row.result)
RowsPnl(rows) == SumFunction([row \in rows |-> RowPnl(row)])

RowsOf(s) == {row \in stages : row.sig = s}

\* What the user is told at the end of a cascade is what the database says
\* from then on: the final status, and the sum of the recorded stage results.
ToldTheTruth ==
  \A s \in Signals : \A dm \in told[s] : dm.kind = "complete" =>
    signals[s] = dm.about /\ dm.pnl = RowsPnl(RowsOf(s))

\* Once the day's trade count has reached the limit, a signal that is only
\* then received never bets, however many cascades are still in flight.
TradeLimitHolds ==
  \A s \in Signals :
    [](signals[s] = "none" /\ daily[DateOf[s]].trades >= TradeLimit
       => [](\A g \in Stages : trades[s][g] = 0))

-----------------------------------------------------------------------------
(* Safety of a life in which nothing crashes and the database answers.     *)

\* No signal is forgotten: a row that is still pending is in the hands of a
\* handler, of the queue or of a supervisor.  Without crashes and database
\* errors; after one a pending row is never bet on, and keeps its reposts out.
PendingHeld ==
  \A s \in Signals : signals[s] = "pending" =>
    \/ inserted[s] > 0
    \/ \E i \in 1..Len(queue) : queue[i] = s
    \/ \E k \in Slots : pc[<<s, k>>] # "free"

\* No bet is forgotten: when its signal is over, its row has a result.  Without
\* crashes and database errors.
NoOpenRowAfterEnd ==
  \A s \in Signals : signals[s] \in FinalStates =>
    \A row \in stages : row.sig = s => row.result # "open"

\* The results that are on record but not in the summary yet.
Unsummarised(d) ==
  {t \in Task : DateOf[t[1]] = d /\ pc[t] \in {"stateWrite", "dailyWrite"}}

BetPnl(t) == StagePnl(bet[t].stage, bet[t].result)
UnsummarisedPnl(d) == SumFunction([t \in Unsummarised(d) |-> BetPnl(t)])

\* The daily summary is exactly the closed stage rows of the day, less those
\* whose task is between record_stage_result and update_daily_summary: no
\* interleaving of supervisors loses or repeats a result.  Without crashes and
\* database errors.
DailyExact ==
  \A d \in Dates :
    /\ daily[d].trades + Cardinality(Unsummarised(d)) = Cardinality(ClosedRows(d))
    /\ daily[d].wins + Cardinality({t \in Unsummarised(d) : bet[t].result = "win"})
         = Cardinality({row \in ClosedRows(d) : row.result = "win"})
    /\ daily[d].losses + Cardinality({t \in Unsummarised(d) : bet[t].result \in Losing})
         = Cardinality({row \in ClosedRows(d) : row.result \in Losing})
    /\ daily[d].pnl + UnsummarisedPnl(d) = RowsPnl(ClosedRows(d))

-----------------------------------------------------------------------------
(* The copier implements the martingale that was promised.                 *)

Promise == INSTANCE Martingale WITH Signal <- Signals, status <- signals,
                                    bets <- trades
Implements == Promise!MSpec

-----------------------------------------------------------------------------
(* The copier lives as module Lifecycle lets it.                           *)

Alive == {t \in Task : pc[t] # "free"}

\* Supervisors come and go, and die, only as the life cycle of __main__.py says.
Life == INSTANCE Process WITH phase <- proc, live <- Cardinality(Alive)
ImplementsLife == Life!PSpec
=============================================================================
