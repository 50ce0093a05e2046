----------------------------- MODULE StateStore -----------------------------
(***************************************************************************)
(* The PostgreSQL tables of the copier and the operations of               *)
(* infra/state_store.py on them.  Each operation is one transaction, so    *)
(* one atomic step; everything here survives a crash of the process.       *)
(***************************************************************************)
EXTENDS Cascade

CONSTANTS
  Signals,   \* the signal ids that the channel may publish
  Dates,     \* calendar days, keys of daily_summary
  Trigger,   \* Trigger[s]: unix time of the initial trigger of s
  DateOf     \* DateOf[s]: the day of s's trigger in the configured timezone

ASSUME SignalAssumption ==
  Trigger \in [Signals -> Nat] /\ DateOf \in [Signals -> Dates]

VARIABLES
  signals,  \* signals[s]: the status column of s, "none" without a row
  reason,   \* reason[s]: its error_reason column
  stages,   \* the rows of the stages table
  daily     \* daily[d]: the row of day d, all zero without a row

storeVars == <<signals, reason, stages, daily>>

Summary  == [trades : Nat, wins : Nat, losses : Nat, pnl : Int]
StageRow == [sig : Signals, stage : Stages, at : Nat,
             result : Results \union {"open"}]

EmptySummary == [trades |-> 0, wins |-> 0, losses |-> 0, pnl |-> 0]

StoreTypeOK ==
  /\ signals \in [Signals -> States \union {"none"}]
  /\ reason \in [Signals -> Reasons]
  /\ stages \subseteq StageRow
  /\ daily \in [Dates -> Summary]

StoreInit ==
  /\ signals = [s \in Signals |-> "none"]
  /\ reason = [s \in Signals |-> "none"]
  /\ stages = {}
  /\ daily = [d \in Dates |-> EmptySummary]

\* Mutants of InsertWins: ON CONFLICT DO UPDATE for rows that are over, or not
\* started, reported as an insert.
InsertWinsAfterEnd(s) == signals[s] \in {"none"} \union FinalStates
InsertWinsAgain(s) == signals[s] \in {"none", "pending"}

\* upsert_signal inserts a row unless the primary key is taken
\* (ON CONFLICT DO NOTHING); it answers whether it did.
InsertWins(s) == signals[s] = "none"

UpsertSignal(s) ==
  /\ signals' = IF InsertWins(s) THEN [signals EXCEPT ![s] = "pending"]
                                 ELSE signals
  /\ UNCHANGED <<reason, stages, daily>>

\* update_signal_state is an unconditional UPDATE of the row, if there is one.
UpdateSignalState(s, status, why) ==
  /\ signals' = [signals EXCEPT ![s] = IF @ = "none" THEN @ ELSE status]
  /\ reason' = [reason EXCEPT ![s] = IF signals[s] = "none" THEN @ ELSE why]
  /\ UNCHANGED <<stages, daily>>

\* The trade_id of a stage row is a hash of (signal, stage, placed_at): two
\* rows are the same row exactly when these agree.
SameTrade(row, s, g, at) == row.sig = s /\ row.stage = g /\ row.at = at

StageExists(s, g, at) == \E row \in stages : SameTrade(row, s, g, at)

RecordStagePlaced(s, g, at) ==
  /\ stages' = stages \union
                 {[sig |-> s, stage |-> g, at |-> at, result |-> "open"]}
  /\ UNCHANGED <<signals, reason, daily>>

\* Mutant of RecordStageResult: the UPDATE matches no row.
RecordStageResultMisses(s, g, at, r) == UNCHANGED storeVars

RecordStageResult(s, g, at, r) ==
  /\ stages' = {IF SameTrade(row, s, g, at) THEN [row EXCEPT !.result = r]
                                            ELSE row : row \in stages}
  /\ UNCHANGED <<signals, reason, daily>>

\* Mutant of UpdateDailySummary: whatever is not a win is a loss.
UpdateDailySummaryCoarse(d, r, pnl) ==
  /\ daily' = [daily EXCEPT ![d] =
       [trades |-> @.trades + 1,
        wins   |-> @.wins + (IF r = "win" THEN 1 ELSE 0),
        losses |-> @.losses + (IF r = "win" THEN 0 ELSE 1),
        pnl    |-> @.pnl + pnl]]
  /\ UNCHANGED <<signals, reason, stages>>

\* update_daily_summary adds its deltas to the row of the day, which it
\* creates when it is missing; limit_hit is never passed by any caller.
UpdateDailySummary(d, r, pnl) ==
  /\ daily' = [daily EXCEPT ![d] =
       [trades |-> @.trades + 1,
        wins   |-> @.wins + (IF r = "win" THEN 1 ELSE 0),
        losses |-> @.losses + (IF r \in Losing THEN 1 ELSE 0),
        pnl    |-> @.pnl + pnl]]
  /\ UNCHANGED <<signals, reason, stages>>

\* get_daily_summary answers None until the first update of the day.
HasSummary(d) == daily[d].trades > 0

\* Mutant of ActiveSignals: the rows that have not started are listed too.
ActiveSignalsAll == {s \in Signals : signals[s] \in PlacedStates \union {"pending"}}

\* get_active_signals: the rows that recovery looks at.
ActiveSignals == {s \in Signals : signals[s] \in PlacedStates}
=============================================================================
