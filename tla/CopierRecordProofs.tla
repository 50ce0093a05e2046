-------------------------- MODULE CopierRecordProofs --------------------------
(***************************************************************************)
(* Proofs about the stages table.  A gale order is only sent when the      *)
(* loss before it is on record: every supervisor that is past a result has *)
(* written it, and rows are only ever added or given a result.  And the    *)
(* daily summary never counts more than those rows.  The rows in turn are  *)
(* the executed orders, one for each stage, lost in all but the last.      *)
(***************************************************************************)
EXTENDS CopierProofs, FiniteSetTheorems

Evidence == Recorded /\ NoGaleWithoutLoss

-----------------------------------------------------------------------------
(* Frames: steps that leave rows, orders or tasks alone.                   *)

\* A task that the step does not touch keeps its records.
LEMMA RecordsFrame ==
  ASSUME NEW u \in Task, Records(u), stages \subseteq stages',
         pc'[u] = pc[u], st'[u] = st[u], bet'[u] = bet[u]
  PROVE  Records(u)'
BY DEF Records, StageExists, SameTrade, ResultOnRecord, LossOnRecord

\* At these awaits nothing has to be on record.
LEMMA NothingToRecord ==
  ASSUME NEW t \in Task,
         pc'[t] \notin {"placedTell", "waiting", "resultWrite", "stateWrite",
                        "dailyWrite", "resultTell", "armed", "place"}
  PROVE  Records(t)'
BY DEF Records

\* More rows and no new order.
LEMMA GalesFrame ==
  ASSUME NoGaleWithoutLoss, stages \subseteq stages', UNCHANGED trades
  PROVE  NoGaleWithoutLoss'
BY DEF NoGaleWithoutLoss

\* A step of one task that removes no row and sends no order.
LEMMA TaskEvidence ==
  ASSUME Evidence, NEW t \in Task, stages \subseteq stages', UNCHANGED trades,
         \A u \in Task : u # t => pc'[u] = pc[u] /\ st'[u] = st[u] /\ bet'[u] = bet[u],
         Records(t)'
  PROVE  Evidence'
<1>1. \A u \in Task : Records(u)'
  BY RecordsFrame DEF Evidence, Recorded
<1> QED
  BY <1>1, GalesFrame DEF Evidence, Recorded

-----------------------------------------------------------------------------
(* The steps of a supervisor.                                              *)

\* A task that ends has nothing to record.
LEMMA EndEvidence ==
  ASSUME Safe, Evidence, NEW t \in Task, End(t), UNCHANGED <<stages, trades>>
  PROVE  Evidence'
<1>1. pc'[t] = "free" /\ \A u \in Task : u # t =>
        pc'[u] = pc[u] /\ st'[u] = st[u] /\ bet'[u] = bet[u]
  BY EndFacts DEF Safe, TypeOK
<1> QED
  BY <1>1, TaskEvidence, NothingToRecord

\* A task that goes where nothing has to be on record.
LEMMA QuietEvidence ==
  ASSUME Safe, Evidence, NEW t \in Task, NEW label \in Labels, Goto(t, label),
         label \notin {"placedTell", "waiting", "resultWrite", "stateWrite",
                       "dailyWrite", "resultTell", "armed", "place"},
         \A u \in Task : u # t => st'[u] = st[u] /\ bet'[u] = bet[u],
         UNCHANGED <<stages, trades>>
  PROVE  Evidence'
<1>1. pc'[t] = label /\ \A u \in Task : u # t => pc'[u] = pc[u]
  BY GotoFacts DEF Safe, TypeOK
<1> QED
  BY <1>1, TaskEvidence, NothingToRecord

\* Intake, and the firing of the first stage.
LEMMA IntakeEvidence ==
  ASSUME Safe, Evidence, NEW t \in Task,
         \/ CheckDailyLimit(t) \/ RejectWrite(t) \/ RejectTell(t)
         \/ DuplicateAtIntake(t) \/ StartCascade(t) \/ FireEvent(t)
  PROVE  Evidence'
<1>1. SupervisorTypeOK
  BY DEF Safe, TypeOK
<1>2. CASE CheckDailyLimit(t)
  BY <1>2, QuietEvidence DEF CheckDailyLimit, storeVars, Labels
<1>3. CASE RejectWrite(t)
  BY <1>3, QuietEvidence DEF RejectWrite, UpdateSignalState, Labels
<1>4. CASE RejectTell(t) \/ DuplicateAtIntake(t)
  BY <1>4, EndEvidence DEF RejectTell, DuplicateAtIntake, storeVars
<1>5. CASE StartCascade(t) \/ FireEvent(t)
  <2>1. \A u \in Task : u # t => st'[u] = st[u] /\ bet'[u] = bet[u]
    BY <1>1, <1>5 DEF StartCascade, FireEvent, SupervisorTypeOK
  <2> QED
    BY <1>5, <2>1, QuietEvidence DEF StartCascade, FireEvent, storeVars, Labels
<1> QED
  BY <1>2, <1>3, <1>4, <1>5

\* The first stage is armed without anything on record.
LEMMA ReceivedTellEvidence ==
  ASSUME Safe, Evidence, NEW t \in Task, ReceivedTell(t) PROVE Evidence'
<1>1. /\ pc'[t] = "armed" /\ UNCHANGED <<st, bet, stages, trades>>
      /\ \A u \in Task : u # t => pc'[u] = pc[u]
  BY GotoFacts DEF ReceivedTell, Safe, TypeOK, storeVars, Labels
<1>2. st[t].stage = "initial"
  BY DEF ReceivedTell, Safe, Agreement, TaskAgrees, Fresh
<1>3. Records(t)'
  BY <1>1, <1>2 DEF Records
<1> QED
  BY <1>1, <1>3, TaskEvidence

\* A gale goes from its trigger to the broker with the same evidence.
LEMMA FireGaleEvidence ==
  ASSUME Safe, Evidence, NEW t \in Task, FireGale(t) PROVE Evidence'
<1>1. /\ pc[t] = "armed" /\ pc'[t] = "place" /\ UNCHANGED <<st, stages, trades>>
      /\ \A u \in Task : u # t => pc'[u] = pc[u] /\ bet'[u] = bet[u]
  BY GotoFacts DEF FireGale, Due, OpenBet, Safe, TypeOK, SupervisorTypeOK, storeVars, Labels
<1>2. Records(t)'
  BY <1>1 DEF Evidence, Recorded, Records, LossOnRecord
<1> QED
  BY <1>1, <1>2, TaskEvidence

\* What is fired is the initial stage, which rests on no loss.
LEMMA FireWriteEvidence ==
  ASSUME Safe, Evidence, NEW t \in Task, FireWrite(t) PROVE Evidence'
<1>1. /\ UNCHANGED <<st, stages, trades>>
      /\ \A u \in Task : u # t => pc'[u] = pc[u] /\ bet'[u] = bet[u]
      /\ pc'[t] = "expiredTell" \/ (pc'[t] = "place" /\ st[t].state # "error")
  BY GotoFacts DEF FireWrite, UpdateSignalState, OpenBet, Safe, TypeOK, SupervisorTypeOK,
     Labels
<1>2. st[t].state # "error" => st[t].stage = "initial"
  BY DEF FireWrite, Safe, Agreement, TaskAgrees
<1>3. Records(t)'
  BY <1>1, <1>2 DEF Records
<1> QED
  BY <1>1, <1>3, TaskEvidence

\* The steps that end a cascade without a result.
LEMMA FailureEvidence ==
  ASSUME Safe, Evidence, NEW t \in Task,
         \/ ExpiredTell(t) \/ PlaceUnsupported(t) \/ PairTell(t) \/ ErrorWrite(t)
         \/ CompleteTell(t) \/ DbFails(t)
  PROVE  Evidence'
<1>1. SupervisorTypeOK
  BY DEF Safe, TypeOK
<1>2. CASE ExpiredTell(t) \/ PlaceUnsupported(t)
  BY <1>2, QuietEvidence DEF ExpiredTell, PlaceUnsupported, storeVars, Labels
<1>3. CASE ErrorWrite(t)
  BY <1>3, QuietEvidence DEF ErrorWrite, UpdateSignalState, Labels
<1>4. CASE PairTell(t)
  <2>1. \A u \in Task : u # t => st'[u] = st[u]
    BY <1>1, <1>4 DEF PairTell, SupervisorTypeOK
  <2> QED
    BY <1>4, <2>1, QuietEvidence DEF PairTell, storeVars, Labels
<1>5. CASE CompleteTell(t) \/ DbFails(t)
  BY <1>5, EndEvidence DEF CompleteTell, DbFails, storeVars
<1> QED
  BY <1>2, <1>3, <1>4, <1>5

-----------------------------------------------------------------------------
(* The order, its row and its result.                                      *)

\* A gale order finds the loss before it on record.
LEMMA ExecutedEvidence ==
  ASSUME Safe, Evidence, NEW t \in Task, pc[t] = "place", Executed(t), UNCHANGED stages
  PROVE  NoGaleWithoutLoss'
<1> DEFINE x == t[1]
           h == bet[t].stage
<1>1. x \in Signals /\ h = st[t].stage /\ h \in Stages
  BY TaskSignal DEF Safe, Agreement, TaskAgrees, InStep
<1>2. h \in {"gale1", "gale2"} => LossOnRecord(x, PreviousStage(h))
  BY <1>1 DEF Evidence, Recorded, Records
<1>3. \A r \in Signals, i \in Stages : r # x \/ i # h => trades'[r][i] = trades[r][i]
  BY <1>1 DEF Executed, Safe, TypeOK, SupervisorTypeOK
<1> SUFFICES ASSUME NEW s \in Signals, NEW g \in {"initial", "gale1"},
                    trades'[s][NextStage(g)] > 0
             PROVE  LossOnRecord(s, g)
  BY DEF NoGaleWithoutLoss, LossOnRecord
<1>4. NextStage(g) \in {"gale1", "gale2"} /\ PreviousStage(NextStage(g)) = g
  BY DEF NextStage, PreviousStage
<1>5. CASE s = x /\ NextStage(g) = h
  BY <1>2, <1>4, <1>5
<1>6. CASE s # x \/ NextStage(g) # h
  <2>1. trades[s][NextStage(g)] > 0
    BY <1>3, <1>4, <1>6 DEF Stages
  <2> QED
    BY <2>1 DEF Evidence, NoGaleWithoutLoss, LossOnRecord
<1> QED
  BY <1>5, <1>6

\* Whatever broker.place does, and wherever a task is cancelled, the supervisor
\* has nothing more to show.
LEMMA PlaceEvidence ==
  ASSUME Safe, Evidence, NEW t \in Task,
         PlaceOk(t) \/ PlaceRaises(t) \/ Cancelled(t)
  PROVE  Evidence'
<1>1. UNCHANGED stages /\ (UNCHANGED trades \/ (pc[t] = "place" /\ Executed(t)))
  BY DEF PlaceOk, PlaceRaises, Cancelled, storeVars
<1>2. NoGaleWithoutLoss'
  BY <1>1, ExecutedEvidence, GalesFrame DEF Evidence
<1>3. pc'[t] \in {"stageWrite", "free"} /\ \A u \in Task : u # t =>
        pc'[u] = pc[u] /\ st'[u] = st[u] /\ bet'[u] = bet[u]
  BY GotoFacts, EndFacts DEF PlaceOk, PlaceRaises, Cancelled, Safe, TypeOK, Labels
<1>4. \A u \in Task : Records(u)'
  BY <1>1, <1>3, RecordsFrame, NothingToRecord DEF Evidence, Recorded
<1> QED
  BY <1>2, <1>4 DEF Evidence, Recorded

\* The row of the bet is inserted, or the task ends.
LEMMA StageWriteEvidence ==
  ASSUME Safe, Evidence, NEW t \in Task, StageWrite(t) PROVE Evidence'
<1>1. CASE StageExists(t[1], bet[t].stage, bet[t].at)
  BY <1>1, EndEvidence DEF StageWrite, storeVars
<1>2. CASE ~StageExists(t[1], bet[t].stage, bet[t].at)
  <2>1. /\ RecordStagePlaced(t[1], bet[t].stage, bet[t].at)
        /\ pc'[t] = "placedTell" /\ UNCHANGED <<st, bet, trades>>
        /\ \A u \in Task : u # t => pc'[u] = pc[u]
    BY <1>2, GotoFacts DEF StageWrite, Safe, TypeOK, Labels
  <2> DEFINE row == [sig |-> t[1], stage |-> bet[t].stage, at |-> bet[t].at,
                     result |-> "open"]
  <2>2. stages \subseteq stages' /\ StageExists(t[1], bet[t].stage, bet[t].at)'
    <3>1. stages' = stages \union {row} /\ bet'[t] = bet[t]
      BY <2>1 DEF RecordStagePlaced
    <3>2. row \in stages' /\ SameTrade(row, t[1], bet'[t].stage, bet'[t].at)
      BY <3>1 DEF SameTrade
    <3> QED
      BY <3>1, <3>2 DEF StageExists, SameTrade
  <2>3. Records(t)'
    BY <2>1, <2>2 DEF Records
  <2> QED
    BY <2>1, <2>2, <2>3, TaskEvidence
<1> QED
  BY <1>1, <1>2

\* The row of the bet stays while the order is announced.
LEMMA PlacedTellEvidence ==
  ASSUME Safe, Evidence, NEW t \in Task, PlacedTell(t) PROVE Evidence'
<1>1. /\ pc[t] = "placedTell" /\ pc'[t] = "waiting" /\ UNCHANGED <<st, bet, stages, trades>>
      /\ \A u \in Task : u # t => pc'[u] = pc[u]
  BY GotoFacts DEF PlacedTell, Safe, TypeOK, storeVars, Labels
<1>2. Records(t)'
  BY <1>1 DEF Evidence, Recorded, Records, StageExists
<1> QED
  BY <1>1, <1>2, TaskEvidence

\* And while its result arrives.
LEMMA GotResultEvidence ==
  ASSUME Safe, Evidence, NEW t \in Task, NEW r \in Results,
         pc[t] = "waiting", GotResult(t, r)
  PROVE  Evidence'
<1>1. /\ pc'[t] = "resultWrite" /\ UNCHANGED <<stages, trades>>
      /\ bet'[t].stage = bet[t].stage /\ bet'[t].at = bet[t].at
      /\ \A u \in Task : u # t => pc'[u] = pc[u] /\ st'[u] = st[u] /\ bet'[u] = bet[u]
  BY GotoFacts DEF GotResult, Safe, TypeOK, SupervisorTypeOK, Bet, storeVars, Labels
<1>2. Records(t)'
  BY <1>1 DEF Evidence, Recorded, Records, StageExists
<1> QED
  BY <1>1, <1>2, TaskEvidence

\* The result is written: the row of the bet has it, the rows of other signals
\* stay, and no gale order can be out yet that rests on this stage.
LEMMA ResultWriteEvidence ==
  ASSUME Safe, Evidence, NEW t \in Task, ResultWrite(t) PROVE Evidence'
<1> DEFINE x == t[1]
           h == bet[t].stage
           New(row) == IF SameTrade(row, x, h, bet[t].at)
                         THEN [row EXCEPT !.result = bet[t].result] ELSE row
<1>1. /\ pc[t] = "resultWrite" /\ pc'[t] = "stateWrite" /\ UNCHANGED <<st, bet, trades>>
      /\ \A u \in Task : u # t => pc'[u] = pc[u]
      /\ x \in Signals /\ stages \subseteq StageRow
      /\ stages' = {New(row) : row \in stages}
  BY TaskSignal, GotoFacts
     DEF ResultWrite, RecordStageResult, Safe, TypeOK, StoreTypeOK, Labels
<1>2. h \in Stages /\ signals[x] = PlacedState(h)
  BY <1>1 DEF Safe, Agreement, TaskAgrees, AtStage, Advanced
<1>3. \A row \in stages : /\ New(row) \in stages' /\ New(row).sig = row.sig
                          /\ New(row).stage = row.stage /\ New(row).at = row.at
                          /\ row.sig # x \/ row.stage # h => New(row) = row
  BY <1>1 DEF StageRow, SameTrade
<1>4. NoGaleWithoutLoss'
  <2> SUFFICES ASSUME NEW s \in Signals, NEW g \in {"initial", "gale1"},
                      trades'[s][NextStage(g)] > 0
               PROVE  LossOnRecord(s, g)'
    BY DEF NoGaleWithoutLoss, LossOnRecord
  <2>1. PICK row \in stages : row.sig = s /\ row.stage = g /\ row.result \in Losing
    BY <1>1 DEF Evidence, NoGaleWithoutLoss
  <2>2. s # x \/ g # h
    <3>1. signals[s] \in Reached(NextStage(g))
      BY <1>1 DEF Safe, WriteAhead, NextStage, Stages
    <3>2. PlacedState(g) \notin Reached(NextStage(g))
      BY DEF Reached, NextStage, PlacedState, StageOffset, Stages, FinalStates
    <3> QED
      BY <1>2, <3>1, <3>2
  <2> QED
    BY <1>3, <2>1, <2>2 DEF LossOnRecord
<1>5. Records(t)'
  <2>1. PICK row \in stages : SameTrade(row, x, h, bet[t].at)
    BY <1>1 DEF Evidence, Recorded, Records, StageExists
  <2>2. New(row).result = bet[t].result
    BY <1>1, <2>1 DEF StageRow
  <2>3. ResultOnRecord(t)'
    BY <1>1, <1>3, <2>1, <2>2 DEF ResultOnRecord, SameTrade
  <2> QED
    BY <1>1, <2>3 DEF Records
<1>6. ASSUME NEW u \in Task, u # t PROVE Records(u)'
  <2>1. CASE pc[u] = "free"
    BY <1>1, <1>6, <2>1, NothingToRecord
  <2>2. CASE pc[u] # "free"
    <3>1. u[1] # x
      BY <1>1, <1>6, <2>2, Owned DEF Safe
    <3>2. \A row \in stages : row.sig = u[1] => row \in stages'
      BY <1>3, <3>1
    <3> QED
      BY <1>1, <1>6, <3>2
         DEF Evidence, Recorded, Records, StageExists, SameTrade, ResultOnRecord,
             LossOnRecord
  <2> QED
    BY <2>1, <2>2
<1> QED
  BY <1>4, <1>5, <1>6 DEF Evidence, Recorded

\* What comes after the result keeps it on record.
LEMMA StateWriteEvidence ==
  ASSUME Safe, Evidence, NEW t \in Task, StateWrite(t) PROVE Evidence'
<1>1. /\ pc[t] = "stateWrite" /\ pc'[t] = "dailyWrite"
      /\ UNCHANGED <<st, bet, stages, trades>>
      /\ \A u \in Task : u # t => pc'[u] = pc[u]
  BY GotoFacts DEF StateWrite, UpdateSignalState, Safe, TypeOK, Labels
<1>2. Records(t)'
  BY <1>1 DEF Evidence, Recorded, Records, ResultOnRecord
<1> QED
  BY <1>1, <1>2, TaskEvidence

\* The summary is written with the result still on record.
LEMMA DailyWriteEvidence ==
  ASSUME Safe, Evidence, NEW t \in Task, DailyWrite(t) PROVE Evidence'
<1>1. /\ pc[t] = "dailyWrite" /\ pc'[t] \in {"completeTell", "resultTell"}
      /\ UNCHANGED <<st, bet, stages, trades>>
      /\ \A u \in Task : u # t => pc'[u] = pc[u]
  BY GotoFacts DEF DailyWrite, UpdateDailySummary, Safe, TypeOK, Labels
<1>2. Records(t)'
  BY <1>1 DEF Evidence, Recorded, Records, ResultOnRecord
<1> QED
  BY <1>1, <1>2, TaskEvidence

\* A gale is armed on the losing result of the stage before it.
LEMMA ResultTellEvidence ==
  ASSUME Safe, Evidence, NEW t \in Task, ResultTell(t) PROVE Evidence'
<1>1. /\ pc[t] = "resultTell" /\ pc'[t] \in {"completeTell", "armed"}
      /\ st[t].state \in FinalStates => pc'[t] = "completeTell"
      /\ UNCHANGED <<st, bet, stages, trades>>
      /\ \A u \in Task : u # t => pc'[u] = pc[u]
  BY GotoFacts DEF ResultTell, Safe, TypeOK, storeVars, Labels
<1>2. CASE st[t].state \in FinalStates
  BY <1>1, <1>2, TaskEvidence, NothingToRecord
<1>3. CASE st[t].state \notin FinalStates
  <2>1. Advanced(t) /\ ResultOnRecord(t)
    BY <1>1 DEF Safe, Agreement, TaskAgrees, Evidence, Recorded, Records
  <2>2. st[t].state \in PlacedStates
    BY <1>3, <2>1
       DEF Advanced, Successors, PlacedState, NextStage, PlacedStates, FinalStates, Stages
  <2>3. /\ st[t].stage = NextStage(bet[t].stage) /\ bet[t].result \in Losing
        /\ bet[t].stage \in {"initial", "gale1"}
    BY <2>1, <2>2 DEF Advanced, Stages
  <2>4. PreviousStage(st[t].stage) = bet[t].stage
    BY <2>3 DEF PreviousStage, NextStage
  <2>5. LossOnRecord(t[1], PreviousStage(st[t].stage))
    BY <2>1, <2>3, <2>4 DEF ResultOnRecord, LossOnRecord
  <2>6. Records(t)'
    BY <1>1, <2>5 DEF Records, LossOnRecord
  <2> QED
    BY <1>1, <2>6, TaskEvidence
<1> QED
  BY <1>2, <1>3

\* Every step of a supervisor.
LEMMA SupervisorEvidence ==
  ASSUME Safe, Evidence, NEW t \in Task,
         Step(t) \/ BrokerAnswers(t) \/ DbFails(t) \/ Cancelled(t)
  PROVE  Evidence'
<1>1. CASE WaitTimesOut(t) \/ BrokerAnswers(t)
  BY <1>1, GotResultEvidence, SupervisorAssumption DEF WaitTimesOut, BrokerAnswers, Results
<1>2. CASE Step(t) /\ ~WaitTimesOut(t)
  <2>1. CASE CheckDailyLimit(t) \/ RejectWrite(t) \/ RejectTell(t)
             \/ DuplicateAtIntake(t) \/ StartCascade(t) \/ FireEvent(t)
    BY <2>1, IntakeEvidence
  <2>2. CASE ExpiredTell(t) \/ PlaceUnsupported(t) \/ PairTell(t) \/ ErrorWrite(t)
             \/ CompleteTell(t)
    BY <2>2, FailureEvidence
  <2>3. CASE ReceivedTell(t) \/ FireGale(t) \/ FireWrite(t) \/ PlaceOk(t)
             \/ PlaceRaises(t)
    BY <2>3, ReceivedTellEvidence, FireGaleEvidence, FireWriteEvidence, PlaceEvidence
  <2>4. CASE StageWrite(t) \/ PlacedTell(t) \/ ResultWrite(t) \/ StateWrite(t)
             \/ DailyWrite(t) \/ ResultTell(t)
    BY <2>4, StageWriteEvidence, PlacedTellEvidence, ResultWriteEvidence,
       StateWriteEvidence, DailyWriteEvidence, ResultTellEvidence
  <2> QED
    BY <1>2, <2>1, <2>2, <2>3, <2>4 DEF Step
<1> QED
  BY <1>1, <1>2, FailureEvidence, PlaceEvidence

-----------------------------------------------------------------------------
(* The steps of the rest of the program.                                   *)

\* A step that leaves the tasks, their rows and their orders alone.
LEMMA ElsewhereEvidence ==
  ASSUME Evidence, UNCHANGED <<pc, st, bet, stages, trades>>
  PROVE  Evidence'
BY RecordsFrame, GalesFrame DEF Evidence, Recorded

\* A new task has nothing to record.
LEMMA SpawnEvidence ==
  ASSUME Safe, Evidence, NEW t \in Task, Spawn(t), UNCHANGED <<stages, trades>>
  PROVE  Evidence'
BY QuietEvidence DEF Spawn, Labels

\* Nor has a dead process.
LEMMA CrashEvidence ==
  ASSUME Evidence, Crash PROVE Evidence'
<1>1. \A t \in Task : pc'[t] = "free"
  BY DEF Crash
<1> QED
  BY <1>1, NothingToRecord, GalesFrame DEF Crash, storeVars, Evidence, Recorded

\* The evidence is kept by every step of the program.
LEMMA NextEvidence ==
  ASSUME Safe, Evidence, [Next]_vars PROVE Evidence'
<1>1. CASE \E t \in Task :
             SupervisorStep(t) \/ Answer(t) \/ DatabaseError(t) \/ Cancel(t)
  BY <1>1, SupervisorEvidence DEF SupervisorStep, Answer, DatabaseError, Cancel
<1>2. ASSUME NEW s \in Signals,
             Deliver(s) \/ Upsert(s) \/ UpsertFails(s) \/ Put(s) \/ TimeoutRow(s)
      PROVE  Evidence'
  BY <1>2, ElsewhereEvidence
     DEF Deliver, Upsert, UpsertSignal, UpsertFails, Put, TimeoutRow, supervisorVars,
         storeVars, taskVars
<1>3. ASSUME NEW s \in Signals, NEW k \in Slots, AdoptRow(s, k) PROVE Evidence'
  <2>1. <<s, k>> \in Task
    BY DEF Task
  <2> QED
    BY <1>3, <2>1, SpawnEvidence DEF AdoptRow, storeVars
<1>4. ASSUME NEW k \in Slots, Dequeue(k) PROVE Evidence'
  <2>1. Head(queue) \in Signals
    BY <1>4 DEF Dequeue, Safe, TypeOK
  <2>2. <<Head(queue), k>> \in Task
    BY <2>1 DEF Task
  <2> QED
    BY <1>4, <2>2, SpawnEvidence DEF Dequeue, storeVars
<1>5. ASSUME NEW k \in Slots, TimeoutAdopt(k) PROVE Evidence'
  <2>1. timeout.sig \in Signals
    BY <1>5 DEF TimeoutAdopt, Safe, Phases
  <2>2. <<timeout.sig, k>> \in Task
    BY <2>1 DEF Task
  <2> QED
    BY <1>5, <2>2, SpawnEvidence DEF TimeoutAdopt, storeVars
<1>6. CASE QueryActive \/ TimeoutRead \/ TimeoutWrite \/ StartScheduler \/ Tick \/ Stop
           \/ Boot \/ UNCHANGED vars
  BY <1>6, ElsewhereEvidence
     DEF QueryActive, TimeoutRead, TimeoutWrite, UpdateSignalState, StartScheduler, Tick,
         Stop, Boot, vars, supervisorVars, storeVars, taskVars
<1> QED
  BY <1>1, <1>2, <1>3, <1>4, <1>5, <1>6, CrashEvidence DEF Next

\* Without tasks and orders there is nothing to show.
LEMMA InitEvidence == ASSUME Init PROVE Evidence
<1>1. \A t \in Task : pc[t] = "free"
  BY DEF Init, SupervisorInit, NoTasks
<1>2. \A s \in Signals, g \in {"initial", "gale1"} : ~(trades[s][NextStage(g)] > 0)
  BY DEF Init, SupervisorInit, NextStage, Stages
<1> QED
  BY <1>1, <1>2 DEF Evidence, Recorded, Records, NoGaleWithoutLoss

\* A gale order is only sent when the losing result of the stage before it is
\* on record in the stages table.
THEOREM GalesFollowRecordedLosses == Spec => []NoGaleWithoutLoss
<1>1. Init => Evidence
  BY InitEvidence
<1>2. Safe /\ Evidence /\ [Next]_vars => Evidence'
  BY NextEvidence
<1>3. Evidence => NoGaleWithoutLoss
  BY DEF Evidence
<1> QED
  BY <1>1, <1>2, <1>3, SafeInvariant, PTL DEF Spec

-----------------------------------------------------------------------------
(* The stages table against the orders.                                    *)

\* A step that leaves the rows alone and takes no order back: who comes to
\* insert a row has just had its order executed.
LEMMA LedgerFrame ==
  ASSUME Ledger, UNCHANGED stages,
         \A row \in stages : trades[row.sig][row.stage] = 1 => trades'[row.sig][row.stage] = 1,
         \A t \in Task : pc'[t] = "stageWrite" =>
           \/ pc[t] = "stageWrite" /\ bet'[t] = bet[t]
           \/ trades[t[1]][bet'[t].stage] = 0
  PROVE  Ledger'
<1>1. RowsAreOrders'
  BY DEF Ledger, RowsAreOrders
<1>2. InsertsAreNew'
  BY DEF Ledger, RowsAreOrders, InsertsAreNew, HasRow
<1> QED
  BY <1>1, <1>2 DEF Ledger

\* An order is executed for a stage that has none yet, and therefore no row.
LEMMA ExecutedLedger ==
  ASSUME Safe, Ledger, NEW t \in Task, PlaceOk(t) \/ PlaceRaises(t) \/ Cancelled(t)
  PROVE  Ledger'
<1>1. SupervisorTypeOK /\ t[1] \in Signals /\ stages \subseteq StageRow
  BY TaskSignal DEF Safe, TypeOK, StoreTypeOK
<1>2. /\ UNCHANGED stages /\ pc'[t] \in {"stageWrite", "free"}
      /\ pc'[t] = "stageWrite" => pc[t] = "place" /\ UNCHANGED bet
      /\ \A u \in Task : u # t => pc'[u] = pc[u] /\ bet'[u] = bet[u]
      /\ UNCHANGED trades \/ (pc[t] = "place" /\ Executed(t))
  BY <1>1, GotoFacts, EndFacts DEF PlaceOk, PlaceRaises, Cancelled, storeVars, Labels
<1>3. pc[t] = "place" => bet[t].stage \in Stages /\ trades[t[1]][bet[t].stage] = 0
  BY DEF Safe, Agreement, TaskAgrees, AtStage
<1>4. ASSUME NEW row \in stages, trades[row.sig][row.stage] = 1
      PROVE  trades'[row.sig][row.stage] = 1
  <2>1. row.sig \in Signals /\ row.stage \in Stages
    BY <1>1 DEF StageRow
  <2>2. CASE pc[t] = "place" /\ Executed(t)
    <3>1. row.sig # t[1] \/ row.stage # bet[t].stage
      BY <1>3, <1>4, <2>2
    <3> QED
      BY <1>1, <1>3, <1>4, <2>1, <2>2, <3>1 DEF Executed, SupervisorTypeOK
  <2> QED
    BY <1>2, <1>4, <2>2
<1>5. ASSUME NEW u \in Task, pc'[u] = "stageWrite"
      PROVE  \/ pc[u] = "stageWrite" /\ bet'[u] = bet[u]
             \/ trades[u[1]][bet'[u].stage] = 0
  BY <1>2, <1>3, <1>5
<1> QED
  BY <1>2, <1>4, <1>5, LedgerFrame

\* The first row of a stage whose order is out.
LEMMA StageWriteLedger ==
  ASSUME Safe, Ledger, NEW t \in Task, StageWrite(t) PROVE Ledger'
<1> DEFINE new == [sig |-> t[1], stage |-> bet[t].stage, at |-> bet[t].at, result |-> "open"]
<1>1. SupervisorTypeOK /\ pc[t] = "stageWrite" /\ UNCHANGED trades
  BY DEF Safe, TypeOK, StageWrite
<1>2. trades[t[1]][bet[t].stage] = 1 /\ ~HasRow(t[1], bet[t].stage)
  BY <1>1 DEF Safe, Agreement, TaskAgrees, AtStage, Ledger, InsertsAreNew
<1>3. ~StageExists(t[1], bet[t].stage, bet[t].at)
  BY <1>2 DEF StageExists, SameTrade, HasRow
<1>4. /\ stages' = stages \union {new} /\ UNCHANGED bet /\ pc'[t] = "placedTell"
      /\ \A u \in Task : u # t => pc'[u] = pc[u]
  BY <1>1, <1>3, GotoFacts DEF StageWrite, RecordStagePlaced, Labels
<1>5. new.sig = t[1] /\ new.stage = bet[t].stage
  OBVIOUS
<1> HIDE DEF new
<1>6. RowsAreOrders'
  <2>1. \A row \in stages : row.sig # new.sig \/ row.stage # new.stage
    BY <1>2, <1>5 DEF HasRow
  <2> QED
    BY <1>1, <1>2, <1>4, <1>5, <2>1 DEF Ledger, RowsAreOrders
<1>7. InsertsAreNew'
  <2> SUFFICES ASSUME NEW u \in Task, pc'[u] = "stageWrite" PROVE ~HasRow(u[1], bet[u].stage)'
    BY DEF InsertsAreNew
  <2>1. pc[u] = "stageWrite" /\ u # t
    BY <1>4
  <2>2. u[1] # t[1]
    BY <1>1, <2>1, Owned DEF Safe
  <2> QED
    BY <1>4, <1>5, <2>1, <2>2 DEF HasRow, Ledger, InsertsAreNew
<1> QED
  BY <1>6, <1>7 DEF Ledger

\* A result changes nothing in what a row stands for.
LEMMA ResultWriteLedger ==
  ASSUME Safe, Ledger, NEW t \in Task, ResultWrite(t) PROVE Ledger'
<1> DEFINE New(row) == IF SameTrade(row, t[1], bet[t].stage, bet[t].at)
                         THEN [row EXCEPT !.result = bet[t].result] ELSE row
<1>1. /\ UNCHANGED <<bet, trades>> /\ pc'[t] = "stateWrite"
      /\ \A u \in Task : u # t => pc'[u] = pc[u]
      /\ stages \subseteq StageRow /\ stages' = {New(row) : row \in stages}
  BY GotoFacts DEF ResultWrite, RecordStageResult, Safe, TypeOK, StoreTypeOK, Labels
<1>2. \A row \in stages : New(row).sig = row.sig /\ New(row).stage = row.stage
  BY <1>1 DEF StageRow
<1> HIDE DEF New
<1>3. RowsAreOrders'
  <2>1. ASSUME NEW row \in stages' PROVE trades'[row.sig][row.stage] = 1
    BY <1>1, <1>2 DEF Ledger, RowsAreOrders
  <2>2. ASSUME NEW row \in stages', NEW other \in stages',
               row.sig = other.sig, row.stage = other.stage
        PROVE  row = other
    <3>1. PICK r \in stages : row = New(r)
      BY <1>1
    <3>2. PICK o \in stages : other = New(o)
      BY <1>1
    <3>3. r = o
      BY <1>2, <2>2, <3>1, <3>2 DEF Ledger, RowsAreOrders
    <3> QED
      BY <3>1, <3>2, <3>3
  <2> QED
    BY <2>1, <2>2 DEF RowsAreOrders
<1>4. InsertsAreNew'
  <2>1. \A s, g : HasRow(s, g)' => HasRow(s, g)
    BY <1>1, <1>2 DEF HasRow
  <2> QED
    BY <1>1, <2>1 DEF Ledger, InsertsAreNew
<1> QED
  BY <1>3, <1>4 DEF Ledger

\* Every step of a supervisor.
LEMMA SupervisorLedger ==
  ASSUME Safe, Ledger, NEW t \in Task,
         Step(t) \/ BrokerAnswers(t) \/ DbFails(t) \/ Cancelled(t)
  PROVE  Ledger'
<1>1. SupervisorTypeOK
  BY DEF Safe, TypeOK
<1>2. ASSUME UNCHANGED <<stages, trades>>, pc'[t] # "stageWrite",
             \A u \in Task : u # t => pc'[u] = pc[u] /\ bet'[u] = bet[u]
      PROVE  Ledger'
  BY <1>2, LedgerFrame
<1>3. ASSUME NEW label \in Labels \ {"stageWrite"}, Goto(t, label), UNCHANGED <<stages, trades>>,
             \A u \in Task : u # t => bet'[u] = bet[u]
      PROVE  Ledger'
  BY <1>1, <1>2, <1>3, GotoFacts
<1>4. CASE \/ CheckDailyLimit(t) \/ RejectWrite(t) \/ StartCascade(t) \/ ReceivedTell(t)
           \/ FireEvent(t) \/ ExpiredTell(t) \/ PlaceUnsupported(t) \/ PairTell(t)
           \/ ErrorWrite(t) \/ PlacedTell(t) \/ StateWrite(t) \/ DailyWrite(t)
           \/ ResultTell(t)
  BY <1>3, <1>4
     DEF CheckDailyLimit, RejectWrite, StartCascade, ReceivedTell, FireEvent, ExpiredTell,
         PlaceUnsupported, PairTell, ErrorWrite, PlacedTell, StateWrite, DailyWrite,
         ResultTell, UpdateSignalState, UpdateDailySummary, storeVars, Labels
<1>5. CASE FireGale(t) \/ FireWrite(t) \/ WaitTimesOut(t) \/ BrokerAnswers(t)
  <2>1. \A u \in Task : u # t => bet'[u] = bet[u]
    BY <1>1, <1>5
       DEF FireGale, FireWrite, WaitTimesOut, BrokerAnswers, GotResult, OpenBet,
           SupervisorTypeOK
  <2> QED
    BY <1>3, <1>5, <2>1
       DEF FireGale, FireWrite, WaitTimesOut, BrokerAnswers, GotResult, UpdateSignalState,
           storeVars, Labels
<1>6. CASE RejectTell(t) \/ DuplicateAtIntake(t) \/ CompleteTell(t) \/ DbFails(t)
  <2>1. End(t) /\ UNCHANGED <<stages, trades>>
    BY <1>6 DEF RejectTell, DuplicateAtIntake, CompleteTell, DbFails, storeVars
  <2> QED
    BY <1>1, <1>2, <2>1, EndFacts
<1> QED
  BY <1>4, <1>5, <1>6, ExecutedLedger, StageWriteLedger, ResultWriteLedger DEF Step

\* A new supervisor inserts nothing.
LEMMA SpawnLedger ==
  ASSUME Safe, Ledger, NEW t \in Task, Spawn(t), UNCHANGED <<stages, trades>> PROVE Ledger'
<1>1. pc'[t] = "limit" /\ UNCHANGED bet /\ \A u \in Task : u # t => pc'[u] = pc[u]
  BY GotoFacts DEF Spawn, Safe, TypeOK, Labels
<1> QED
  BY <1>1, LedgerFrame

\* Every step of the program.
LEMMA NextLedger ==
  ASSUME Safe, Ledger, [Next]_vars PROVE Ledger'
<1>1. CASE \E t \in Task :
             SupervisorStep(t) \/ Answer(t) \/ DatabaseError(t) \/ Cancel(t)
  BY <1>1, SupervisorLedger DEF SupervisorStep, Answer, DatabaseError, Cancel
<1>2. ASSUME UNCHANGED <<pc, bet, stages, trades>> PROVE Ledger'
  BY <1>2, LedgerFrame
<1>3. ASSUME NEW s \in Signals,
             Deliver(s) \/ Upsert(s) \/ UpsertFails(s) \/ Put(s) \/ TimeoutRow(s)
      PROVE  Ledger'
  BY <1>2, <1>3
     DEF Deliver, Upsert, UpsertSignal, UpsertFails, Put, TimeoutRow, supervisorVars,
         storeVars, taskVars
<1>4. ASSUME NEW s \in Signals, NEW k \in Slots, AdoptRow(s, k) PROVE Ledger'
  BY <1>4, SpawnLedger DEF AdoptRow, Task, storeVars
<1>5. ASSUME NEW k \in Slots, Dequeue(k) PROVE Ledger'
  <2>1. Head(queue) \in Signals
    BY <1>5 DEF Dequeue, Safe, TypeOK
  <2> QED
    BY <1>5, <2>1, SpawnLedger DEF Dequeue, Task, storeVars
<1>6. ASSUME NEW k \in Slots, TimeoutAdopt(k) PROVE Ledger'
  <2>1. timeout.sig \in Signals
    BY <1>6 DEF TimeoutAdopt, Safe, Phases
  <2> QED
    BY <1>6, <2>1, SpawnLedger DEF TimeoutAdopt, Task, storeVars
<1>7. CASE QueryActive \/ TimeoutRead \/ TimeoutWrite \/ StartScheduler \/ Tick \/ Stop
           \/ Boot \/ UNCHANGED vars
  BY <1>2, <1>7
     DEF QueryActive, TimeoutRead, TimeoutWrite, UpdateSignalState, StartScheduler, Tick,
         Stop, Boot, vars, supervisorVars, storeVars, taskVars
<1>8. CASE Crash
  BY <1>8, LedgerFrame DEF Crash, storeVars
<1> QED
  BY <1>1, <1>3, <1>4, <1>5, <1>6, <1>7, <1>8 DEF Next

LEMMA LedgerInvariant == Spec => []Ledger
<1>1. Init => Ledger
  BY DEF Init, StoreInit, SupervisorInit, NoTasks, Ledger, RowsAreOrders, InsertsAreNew
<1>2. Safe /\ Ledger /\ [Next]_vars => Ledger'
  BY NextLedger
<1> QED
  BY <1>1, <1>2, SafeInvariant, PTL DEF Spec

\* Every row of the stages table stands for exactly one executed order, whatever
\* was interrupted between the order and its row.
THEOREM RowsStandForOrders == Spec => []RowsAreOrders
<1>1. Ledger => RowsAreOrders
  BY DEF Ledger
<1> QED
  BY <1>1, LedgerInvariant, PTL

\* No supervisor ever finds the stage that it records already recorded, so that
\* StageAlreadyExistsError is never raised at trigger.py:476.
THEOREM StageRowsAreNew == Spec => []InsertsAreNew
<1>1. Ledger => InsertsAreNew
  BY DEF Ledger
<1> QED
  BY <1>1, LedgerInvariant, PTL

\* In the stages table all stages of a signal but its last are lost: it holds at
\* most one win per signal, and no bet after it.
THEOREM OnlyTheLastStageWins == Spec => []LossesBeforeLast
<1>1. Safe /\ Ledger /\ NoGaleWithoutLoss => LossesBeforeLast
  <2> SUFFICES ASSUME Safe, Ledger, NoGaleWithoutLoss, NEW row \in stages, NEW other \in stages,
                      row.sig = other.sig, StageOffset(row.stage) < StageOffset(other.stage)
               PROVE  row.result \in Losing
    BY DEF LossesBeforeLast
  <2> DEFINE s == row.sig
             g == row.stage
  <2>1. s \in Signals /\ g \in Stages /\ other.stage \in Stages /\ trades[s][other.stage] = 1
    BY DEF Safe, TypeOK, StoreTypeOK, StageRow, Ledger, RowsAreOrders
  <2>2. g \in {"initial", "gale1"} /\ trades[s][NextStage(g)] > 0
    <3>1. CASE g = "initial" /\ other.stage = "gale2"
      BY <2>1, <3>1 DEF Safe, Ordered, PreviousStage, NextStage
    <3> QED
      BY <2>1, <3>1 DEF StageOffset, NextStage, Stages
  <2>3. PICK lost \in stages : lost.sig = s /\ lost.stage = g /\ lost.result \in Losing
    BY <2>1, <2>2 DEF NoGaleWithoutLoss
  <2> QED
    BY <2>3 DEF Ledger, RowsAreOrders
<1> QED
  BY <1>1, SafeInvariant, LedgerInvariant, GalesFollowRecordedLosses, PTL

-----------------------------------------------------------------------------
(* The daily summary against the stages table.  A closed row is counted at *)
(* most once because it belongs to one supervisor, which is between its    *)
(* result and the summary until it has counted it.                         *)

\* The row of the bet of task t, once its result is r.
RowOf(t, r) == [sig |-> t[1], stage |-> bet[t].stage, at |-> bet[t].at, result |-> r]

OpenLabels   == {"placedTell", "waiting", "resultWrite"}
ClosedLabels == {"stateWrite", "dailyWrite"}

\* A supervisor's bet has its row, open or closed.
Booked(t) ==
  /\ pc[t] \in OpenLabels => RowOf(t, "open") \in stages
  /\ pc[t] \in ClosedLabels => bet[t].result \in Results /\ RowOf(t, bet[t].result) \in stages

\* A row that its supervisor has still to count.
Uncounted(row) ==
  \E t \in Task : pc[t] \in ClosedLabels /\ row = RowOf(t, bet[t].result)

CountedRows(d, R) ==
  {row \in stages : DateOf[row.sig] = d /\ row.result \in R /\ ~Uncounted(row)}

\* A trade has one row.
OneRowPerTrade ==
  \A row, other \in stages : SameTrade(row, other.sig, other.stage, other.at) => row = other

Sums ==
  \A d \in Dates :
    /\ daily[d].trades <= Cardinality(CountedRows(d, Results))
    /\ daily[d].wins <= Cardinality(CountedRows(d, {"win"}))
    /\ daily[d].losses <= Cardinality(CountedRows(d, Losing))

Books ==
  /\ IsFiniteSet(stages)
  /\ OneRowPerTrade
  /\ \A t \in Task : Booked(t)
  /\ Sums

\* The rows to count are finitely many.
LEMMA CountedFinite ==
  ASSUME IsFiniteSet(stages), NEW d, NEW R
  PROVE  /\ IsFiniteSet(CountedRows(d, R))
         /\ Cardinality(CountedRows(d, R)) \in Nat
<1>1. CountedRows(d, R) \in SUBSET stages
  BY DEF CountedRows
<1> QED
  BY <1>1, FS_Subset, FS_CardinalityType

\* No step but the summary's own changes it, and none takes a counted row away.
LEMMA SumsFrame ==
  ASSUME Safe, Sums, IsFiniteSet(stages'), UNCHANGED daily,
         \A row \in stages : row.result # "open" => row \in stages',
         \A t \in Task : pc'[t] \in ClosedLabels =>
           \/ pc[t] \in ClosedLabels /\ bet'[t] = bet[t]
           \/ RowOf(t, bet[t].result)' \notin stages
  PROVE  Sums'
<1>1. ASSUME NEW d \in Dates, NEW R, "open" \notin R
      PROVE  /\ Cardinality(CountedRows(d, R)) \in Nat
             /\ Cardinality(CountedRows(d, R)') \in Nat
             /\ Cardinality(CountedRows(d, R)) <= Cardinality(CountedRows(d, R)')
  <2>1. IsFiniteSet(CountedRows(d, R)') /\ Cardinality(CountedRows(d, R)') \in Nat
    <3>1. CountedRows(d, R)' \in SUBSET stages'
      BY DEF CountedRows
    <3> QED
      BY <3>1, FS_Subset, FS_CardinalityType
  <2>2. CountedRows(d, R) \in SUBSET (CountedRows(d, R)')
    <3> SUFFICES ASSUME NEW row \in CountedRows(d, R) PROVE row \in CountedRows(d, R)'
      OBVIOUS
    <3>1. row \in stages /\ DateOf[row.sig] = d /\ row.result \in R /\ ~Uncounted(row)
      BY DEF CountedRows
    <3>2. row \in stages'
      BY <1>1, <3>1
    <3>3. ~Uncounted(row)'
      BY <3>1 DEF Uncounted, RowOf
    <3> QED
      BY <3>1, <3>2, <3>3 DEF CountedRows
  <2> QED
    BY <2>1, <2>2, FS_Subset, FS_CardinalityType
<1>2. "open" \notin Results /\ "open" \notin {"win"} /\ "open" \notin Losing
  BY DEF Results, Losing
<1>3. \A d \in Dates : daily[d].trades \in Nat /\ daily[d].wins \in Nat /\ daily[d].losses \in Nat
  BY DEF Safe, TypeOK, StoreTypeOK, Summary
<1> SUFFICES ASSUME NEW d \in Dates
             PROVE  /\ daily[d].trades <= Cardinality(CountedRows(d, Results)')
                    /\ daily[d].wins <= Cardinality(CountedRows(d, {"win"})')
                    /\ daily[d].losses <= Cardinality(CountedRows(d, Losing)')
  BY DEF Sums
<1>4. /\ daily[d].trades <= Cardinality(CountedRows(d, Results))
      /\ daily[d].wins <= Cardinality(CountedRows(d, {"win"}))
      /\ daily[d].losses <= Cardinality(CountedRows(d, Losing))
  BY DEF Sums
<1>5. daily[d].trades <= Cardinality(CountedRows(d, Results)')
  BY <1>1, <1>2, <1>3, <1>4
<1>6. daily[d].wins <= Cardinality(CountedRows(d, {"win"})')
  BY <1>1, <1>2, <1>3, <1>4
<1>7. daily[d].losses <= Cardinality(CountedRows(d, Losing)')
  BY <1>1, <1>2, <1>3, <1>4
<1> QED
  BY <1>5, <1>6, <1>7

\* Steps that leave the tables alone, and the bets of the tasks that have one.
LEMMA QuietBooks ==
  ASSUME Safe, Books, UNCHANGED <<stages, daily>>,
         \A t \in Task :
           \/ pc'[t] \notin OpenLabels \union ClosedLabels
           \/ pc'[t] \in OpenLabels /\ pc[t] \in OpenLabels
                /\ bet'[t].stage = bet[t].stage /\ bet'[t].at = bet[t].at
           \/ pc'[t] \in ClosedLabels /\ pc[t] \in ClosedLabels /\ bet'[t] = bet[t]
  PROVE  Books'
<1>1. OpenLabels \cap ClosedLabels = {}
  BY DEF OpenLabels, ClosedLabels
<1>2. \A t \in Task : Booked(t)'
  BY <1>1 DEF Books, Booked, RowOf
<1>3. Sums'
  BY <1>1, SumsFrame DEF Books
<1> QED
  BY <1>2, <1>3 DEF Books, OneRowPerTrade, SameTrade

\* A bet gets its row, unless the trade has one.
LEMMA StageWriteBooks ==
  ASSUME Safe, Books, NEW t \in Task, StageWrite(t) PROVE Books'
<1> USE DEF OpenLabels, ClosedLabels
<1>1. SupervisorTypeOK
  BY DEF Safe, TypeOK
<1>2. CASE StageExists(t[1], bet[t].stage, bet[t].at)
  BY <1>1, <1>2, EndFacts, QuietBooks DEF StageWrite, storeVars
<1>3. CASE ~StageExists(t[1], bet[t].stage, bet[t].at)
  <2>1. /\ stages' = stages \union {RowOf(t, "open")} /\ UNCHANGED <<daily, bet>>
        /\ pc'[t] = "placedTell" /\ \A u \in Task : u # t => pc'[u] = pc[u]
    BY <1>1, <1>3, GotoFacts DEF StageWrite, RecordStagePlaced, RowOf, Labels
  <2>2. IsFiniteSet(stages')
    BY <2>1, FS_AddElement DEF Books
  <2>3. OneRowPerTrade'
    BY <1>3, <2>1 DEF Books, OneRowPerTrade, StageExists, SameTrade, RowOf
  <2>4. \A u \in Task : Booked(u)'
    <3>1. RowOf(t, "open")' = RowOf(t, "open")
      BY <2>1 DEF RowOf
    <3>2. Booked(t)'
      BY <2>1, <3>1 DEF Booked
    <3>3. ASSUME NEW u \in Task, u # t PROVE Booked(u)'
      BY <2>1, <3>3 DEF Books, Booked, RowOf
    <3> QED
      BY <3>2, <3>3
  <2>5. \A u \in Task : pc'[u] \in ClosedLabels => pc[u] \in ClosedLabels /\ bet'[u] = bet[u]
    BY <2>1
  <2>6. Sums'
    BY <2>1, <2>2, <2>5, SumsFrame DEF Books
  <2> QED
    BY <2>2, <2>3, <2>4, <2>6 DEF Books
<1> QED
  BY <1>2, <1>3

\* The open row becomes the row of the result, which was not there.
LEMMA ResultWriteRows ==
  ASSUME Safe, Books, NEW t \in Task, ResultWrite(t)
  PROVE  /\ RowOf(t, "open") \in stages /\ bet[t].result \in Results
         /\ RowOf(t, bet[t].result) \notin stages
         /\ stages' = (stages \ {RowOf(t, "open")}) \union {RowOf(t, bet[t].result)}
         /\ \A row \in stages : SameTrade(row, t[1], bet[t].stage, bet[t].at)
                                 <=> row = RowOf(t, "open")
<1> USE DEF OpenLabels, ClosedLabels
<1> DEFINE old == RowOf(t, "open")
           new == RowOf(t, bet[t].result)
<1>1. /\ pc[t] = "resultWrite" /\ pc'[t] = "stateWrite" /\ UNCHANGED <<bet, daily>>
      /\ \A u \in Task : u # t => pc'[u] = pc[u]
  BY GotoFacts DEF ResultWrite, RecordStageResult, Safe, TypeOK, Labels
<1>2. old \in stages /\ bet[t].result \in Results
  BY <1>1 DEF Books, Booked, Safe, Agreement, TaskAgrees, Advanced
<1>3. /\ old.sig = t[1] /\ old.stage = bet[t].stage /\ old.at = bet[t].at
      /\ old.result = "open" /\ new = [old EXCEPT !.result = bet[t].result]
      /\ new.sig = t[1] /\ new.stage = bet[t].stage /\ new.at = bet[t].at
      /\ new.result = bet[t].result /\ new # old /\ new' = new
  BY <1>1, <1>2 DEF RowOf, Results
<1>4. \A row \in stages : SameTrade(row, t[1], bet[t].stage, bet[t].at) <=> row = old
  BY <1>2, <1>3 DEF Books, OneRowPerTrade, SameTrade
<1>5. stages' = (stages \ {old}) \union {new}
  <2>1. stages' = {IF SameTrade(row, t[1], bet[t].stage, bet[t].at)
                     THEN [row EXCEPT !.result = bet[t].result] ELSE row : row \in stages}
    BY DEF ResultWrite, RecordStageResult
  <2>2. stages' = {IF row = old THEN new ELSE row : row \in stages}
    BY <1>3, <1>4, <2>1
  <2> HIDE DEF old, new
  <2>3. new \in stages'
    BY <1>2, <2>2
  <2>4. ASSUME NEW x \in stages' PROVE x = new \/ (x \in stages /\ x # old)
    <3>1. PICK row \in stages : x = IF row = old THEN new ELSE row
      BY <2>2
    <3> QED
      BY <3>1
  <2>5. \A x \in stages : x # old => x \in stages'
    BY <2>2
  <2>6. \A x : x \in stages' <=> x \in (stages \ {old}) \union {new}
    BY <2>3, <2>4, <2>5
  <2> QED
    BY <2>6
<1>6. new \notin stages
  BY <1>3, <1>4 DEF SameTrade
<1> QED
  BY <1>2, <1>4, <1>5, <1>6

\* Nobody has counted that row.
LEMMA ResultWriteBooks ==
  ASSUME Safe, Books, NEW t \in Task, ResultWrite(t) PROVE Books'
<1> USE DEF OpenLabels, ClosedLabels
<1> DEFINE old == RowOf(t, "open")
           new == RowOf(t, bet[t].result)
<1>1. /\ pc[t] = "resultWrite" /\ pc'[t] = "stateWrite" /\ UNCHANGED <<bet, daily>>
      /\ \A u \in Task : u # t => pc'[u] = pc[u]
  BY GotoFacts DEF ResultWrite, RecordStageResult, Safe, TypeOK, Labels
<1>2. old \in stages /\ bet[t].result \in Results
  BY ResultWriteRows
<1>3. /\ old.sig = t[1] /\ old.stage = bet[t].stage /\ old.at = bet[t].at
      /\ old.result = "open" /\ new = [old EXCEPT !.result = bet[t].result]
      /\ new.sig = t[1] /\ new.stage = bet[t].stage /\ new.at = bet[t].at
      /\ new.result = bet[t].result /\ new # old /\ new' = new
  BY <1>1, <1>2 DEF RowOf, Results
<1>4. \A row \in stages : SameTrade(row, t[1], bet[t].stage, bet[t].at) <=> row = old
  BY ResultWriteRows
<1>5. stages' = (stages \ {old}) \union {new}
  BY ResultWriteRows
<1>6. new \notin stages
  BY ResultWriteRows
<1>7. IsFiniteSet(stages')
  BY <1>5, FS_AddElement, FS_RemoveElement DEF Books
<1>8. OneRowPerTrade'
  <2> SUFFICES ASSUME NEW row \in stages', NEW other \in stages',
                      row.sig = other.sig, row.stage = other.stage, row.at = other.at
               PROVE  row = other
    BY DEF OneRowPerTrade, SameTrade
  <2> HIDE DEF old, new
  <2>1. \A x \in stages' : x = new \/ (x \in stages /\ x # old)
    BY <1>5
  <2>2. \A x \in stages : x.sig = new.sig /\ x.stage = new.stage /\ x.at = new.at => x = old
    BY <1>3, <1>4 DEF SameTrade
  <2>3. \A x, y \in stages : x.sig = y.sig /\ x.stage = y.stage /\ x.at = y.at => x = y
    BY DEF Books, OneRowPerTrade, SameTrade
  <2> QED
    BY <2>1, <2>2, <2>3
<1>9. \A u \in Task : Booked(u)'
  <2>1. Booked(t)'
    BY <1>1, <1>2, <1>3, <1>5 DEF Booked
  <2>2. ASSUME NEW u \in Task, u # t PROVE Booked(u)'
    <3>1. CASE pc[u] = "free"
      BY <1>1, <2>2, <3>1 DEF Booked
    <3>2. CASE pc[u] # "free"
      <4>1. u[1] # t[1]
        BY <1>1, <2>2, <3>2, Owned DEF Safe
      <4>2. \A r : RowOf(u, r) # old /\ RowOf(u, r)' = RowOf(u, r)
        BY <1>1, <1>3, <4>1 DEF RowOf
      <4> QED
        BY <1>1, <1>5, <2>2, <4>2 DEF Books, Booked
    <3> QED
      BY <3>1, <3>2
  <2> QED
    BY <2>1, <2>2
<1>10. Sums'
  <2>1. \A row \in stages : row.result # "open" => row \in stages'
    BY <1>3, <1>5
  <2>2. \A u \in Task : pc'[u] \in ClosedLabels =>
          \/ pc[u] \in ClosedLabels /\ bet'[u] = bet[u]
          \/ RowOf(u, bet[u].result)' \notin stages
    BY <1>1, <1>3, <1>6
  <2> QED
    BY <1>1, <1>7, <2>1, <2>2, SumsFrame DEF Books
<1> QED
  BY <1>7, <1>8, <1>9, <1>10 DEF Books

\* The summary counts the row, and the row is counted from then on.
LEMMA DailyWriteBooks ==
  ASSUME Safe, Books, NEW t \in Task, DailyWrite(t) PROVE Books'
<1> USE DEF OpenLabels, ClosedLabels
<1> DEFINE e == DateOf[t[1]]
           r == bet[t].result
           row == RowOf(t, r)
<1>1. /\ pc[t] = "dailyWrite" /\ pc'[t] \in {"completeTell", "resultTell"}
      /\ \A u \in Task : u # t => pc'[u] = pc[u]
      /\ UNCHANGED <<stages, bet>>
  BY GotoFacts DEF DailyWrite, UpdateDailySummary, Safe, TypeOK, Labels
<1>2. /\ row \in stages /\ r \in Results /\ row.result = r /\ row.sig = t[1]
      /\ \A u \in Task : RowOf(u, bet[u].result)' = RowOf(u, bet[u].result)
      /\ \A u \in Task : RowOf(u, bet[u].result).sig = u[1]
  BY <1>1 DEF Books, Booked, RowOf
<1>3. IsFiniteSet(stages') /\ OneRowPerTrade' /\ \A u \in Task : Booked(u)'
  <2>1. \A u \in Task : Booked(u)'
    BY <1>1 DEF Books, Booked, RowOf
  <2> QED
    BY <1>1, <2>1 DEF Books, OneRowPerTrade, SameTrade
<1>4. Uncounted(row) /\ ~Uncounted(row)'
  <2>1. ASSUME NEW u \in Task, pc'[u] \in ClosedLabels PROVE row # RowOf(u, bet[u].result)'
    <3>1. u # t /\ pc[u] # "free"
      BY <1>1, <2>1
    <3>2. u[1] # t[1]
      BY <1>1, <3>1, Owned DEF Safe
    <3> QED
      BY <1>2, <3>2
  <2>2. ~Uncounted(row)'
    BY <1>1, <2>1 DEF Uncounted, RowOf
  <2> QED
    BY <1>1, <2>2 DEF Uncounted
<1>5. \A other : Uncounted(other)' => Uncounted(other)
  BY <1>1, <1>2 DEF Uncounted
<1>6. ASSUME NEW d \in Dates, NEW R
      PROVE  /\ Cardinality(CountedRows(d, R)) \in Nat /\ Cardinality(CountedRows(d, R)') \in Nat
             /\ Cardinality(CountedRows(d, R))
                  + (IF d = e /\ r \in R THEN 1 ELSE 0) <= Cardinality(CountedRows(d, R)')
  <2>1. IsFiniteSet(CountedRows(d, R)) /\ Cardinality(CountedRows(d, R)) \in Nat
    BY CountedFinite DEF Books
  <2>2. IsFiniteSet(CountedRows(d, R)') /\ Cardinality(CountedRows(d, R)') \in Nat
    <3>1. CountedRows(d, R)' \in SUBSET stages'
      BY DEF CountedRows
    <3> QED
      BY <1>3, <3>1, FS_Subset, FS_CardinalityType
  <2>3. row \notin CountedRows(d, R) /\ CountedRows(d, R) \subseteq CountedRows(d, R)'
    BY <1>1, <1>4, <1>5 DEF CountedRows
  <2>4. CASE d = e /\ r \in R
    <3>1. CountedRows(d, R) \union {row} \in SUBSET (CountedRows(d, R)')
      BY <1>1, <1>2, <1>4, <2>3, <2>4 DEF CountedRows
    <3>2. Cardinality(CountedRows(d, R) \union {row}) = Cardinality(CountedRows(d, R)) + 1
      BY <2>1, <2>3, FS_AddElement
    <3>3. Cardinality(CountedRows(d, R) \union {row}) <= Cardinality(CountedRows(d, R)')
      BY <2>2, <3>1, FS_Subset
    <3> QED
      BY <2>1, <2>2, <2>4, <3>2, <3>3
  <2>5. CASE ~(d = e /\ r \in R)
    <3>1. Cardinality(CountedRows(d, R)) <= Cardinality(CountedRows(d, R)')
      BY <2>2, <2>3, FS_Subset
    <3> QED
      BY <2>1, <2>2, <2>5, <3>1
  <2> QED
    BY <2>4, <2>5
<1>7. Sums'
  <2> SUFFICES ASSUME NEW d \in Dates
               PROVE  /\ daily'[d].trades <= Cardinality(CountedRows(d, Results)')
                      /\ daily'[d].wins <= Cardinality(CountedRows(d, {"win"})')
                      /\ daily'[d].losses <= Cardinality(CountedRows(d, Losing)')
    BY DEF Sums
  <2>1. daily[d].trades \in Nat /\ daily[d].wins \in Nat /\ daily[d].losses \in Nat
    BY DEF Safe, TypeOK, StoreTypeOK, Summary
  <2>2. /\ daily[d].trades <= Cardinality(CountedRows(d, Results))
        /\ daily[d].wins <= Cardinality(CountedRows(d, {"win"}))
        /\ daily[d].losses <= Cardinality(CountedRows(d, Losing))
    BY DEF Books, Sums
  <2>3. /\ daily'[d].trades = daily[d].trades + (IF d = e THEN 1 ELSE 0)
        /\ daily'[d].wins = daily[d].wins + (IF d = e /\ r = "win" THEN 1 ELSE 0)
        /\ daily'[d].losses = daily[d].losses + (IF d = e /\ r \in Losing THEN 1 ELSE 0)
    <3>1. /\ daily' = [daily EXCEPT ![e] =
               [trades |-> @.trades + 1, wins |-> @.wins + (IF r = "win" THEN 1 ELSE 0),
                losses |-> @.losses + (IF r \in Losing THEN 1 ELSE 0),
                pnl |-> @.pnl + StagePnl(bet[t].stage, r)]]
          /\ daily \in [Dates -> Summary]
      BY DEF DailyWrite, UpdateDailySummary, Safe, TypeOK, StoreTypeOK
    <3> QED
      BY <2>1, <3>1
  <2>4. daily'[d].trades <= Cardinality(CountedRows(d, Results)')
    <3>1. Cardinality(CountedRows(d, Results)) + (IF d = e THEN 1 ELSE 0)
            <= Cardinality(CountedRows(d, Results)')
      BY <1>2, <1>6
    <3> QED
      BY <1>6, <2>1, <2>2, <2>3, <3>1
  <2>5. daily'[d].wins <= Cardinality(CountedRows(d, {"win"})')
    <3>1. Cardinality(CountedRows(d, {"win"})) + (IF d = e /\ r = "win" THEN 1 ELSE 0)
            <= Cardinality(CountedRows(d, {"win"})')
      BY <1>6
    <3> QED
      BY <1>6, <2>1, <2>2, <2>3, <3>1
  <2>6. daily'[d].losses <= Cardinality(CountedRows(d, Losing)')
    BY <1>6, <2>1, <2>2, <2>3
  <2> QED
    BY <2>4, <2>5, <2>6
<1> QED
  BY <1>3, <1>7 DEF Books

\* Every step of a supervisor.
LEMMA SupervisorBooks ==
  ASSUME Safe, Books, NEW t \in Task,
         Step(t) \/ BrokerAnswers(t) \/ DbFails(t) \/ Cancelled(t)
  PROVE  Books'
<1> USE DEF OpenLabels, ClosedLabels
<1>1. SupervisorTypeOK
  BY DEF Safe, TypeOK
<1>2. ASSUME NEW label \in Labels, Goto(t, label), UNCHANGED <<stages, daily>>,
             \A u \in Task : u # t => bet'[u] = bet[u],
             label \notin OpenLabels \union ClosedLabels
      PROVE  Books'
  BY <1>1, <1>2, GotoFacts, QuietBooks
<1>3. ASSUME End(t), UNCHANGED <<stages, daily>> PROVE Books'
  BY <1>1, <1>3, EndFacts, QuietBooks
<1>4. CASE CheckDailyLimit(t) \/ RejectWrite(t) \/ StartCascade(t) \/ ReceivedTell(t)
           \/ FireEvent(t) \/ ExpiredTell(t)
  BY <1>2, <1>4
     DEF CheckDailyLimit, RejectWrite, StartCascade, ReceivedTell, FireEvent, ExpiredTell,
         UpdateSignalState, storeVars, Labels
<1>5. CASE FireGale(t) \/ FireWrite(t)
  <2>1. \A u \in Task : u # t => bet'[u] = bet[u]
    BY <1>1, <1>5 DEF FireGale, FireWrite, OpenBet, SupervisorTypeOK
  <2> QED
    BY <1>2, <1>5, <2>1 DEF FireGale, FireWrite, UpdateSignalState, storeVars, Labels
<1>6. CASE PlaceOk(t) \/ PlaceUnsupported(t) \/ PairTell(t) \/ ErrorWrite(t)
           \/ ResultTell(t)
  BY <1>2, <1>6
     DEF PlaceOk, PlaceUnsupported, PairTell, ErrorWrite, ResultTell, UpdateSignalState,
         storeVars, Labels
<1>7. CASE \/ RejectTell(t) \/ DuplicateAtIntake(t) \/ PlaceRaises(t) \/ CompleteTell(t)
           \/ DbFails(t) \/ Cancelled(t)
  BY <1>3, <1>7
     DEF RejectTell, DuplicateAtIntake, PlaceRaises, CompleteTell, DbFails, Cancelled,
         storeVars
<1>8. CASE PlacedTell(t) \/ StateWrite(t)
  <2>1. /\ UNCHANGED <<bet, stages, daily>>
        /\ \/ pc[t] = "placedTell" /\ pc'[t] = "waiting"
           \/ pc[t] = "stateWrite" /\ pc'[t] = "dailyWrite"
        /\ \A u \in Task : u # t => pc'[u] = pc[u]
    BY <1>1, <1>8, GotoFacts DEF PlacedTell, StateWrite, UpdateSignalState, storeVars, Labels
  <2> QED
    BY <2>1, QuietBooks
<1>9. CASE WaitTimesOut(t) \/ BrokerAnswers(t)
  <2>1. /\ UNCHANGED <<stages, daily>> /\ pc[t] = "waiting" /\ pc'[t] = "resultWrite"
        /\ bet'[t].stage = bet[t].stage /\ bet'[t].at = bet[t].at
        /\ \A u \in Task : u # t => pc'[u] = pc[u] /\ bet'[u] = bet[u]
    BY <1>1, <1>9, GotoFacts
       DEF WaitTimesOut, BrokerAnswers, GotResult, SupervisorTypeOK, Bet, storeVars, Labels
  <2> QED
    BY <2>1, QuietBooks
<1> QED
  BY <1>4, <1>5, <1>6, <1>7, <1>8, <1>9, StageWriteBooks, ResultWriteBooks, DailyWriteBooks
     DEF Step

\* A new supervisor has no bet.
LEMMA SpawnBooks ==
  ASSUME Safe, Books, NEW t \in Task, Spawn(t), UNCHANGED <<stages, daily>> PROVE Books'
<1>1. pc'[t] = "limit" /\ UNCHANGED bet /\ \A u \in Task : u # t => pc'[u] = pc[u]
  BY GotoFacts DEF Spawn, Safe, TypeOK, Labels
<1> QED
  BY <1>1, QuietBooks DEF OpenLabels, ClosedLabels

\* The books are kept by every step of the program.
LEMMA NextBooks ==
  ASSUME Safe, Books, [Next]_vars PROVE Books'
<1>1. CASE \E t \in Task :
             SupervisorStep(t) \/ Answer(t) \/ DatabaseError(t) \/ Cancel(t)
  BY <1>1, SupervisorBooks DEF SupervisorStep, Answer, DatabaseError, Cancel
<1>2. ASSUME UNCHANGED <<pc, bet, stages, daily>> PROVE Books'
  BY <1>2, QuietBooks
<1>3. ASSUME NEW s \in Signals,
             Deliver(s) \/ Upsert(s) \/ UpsertFails(s) \/ Put(s) \/ TimeoutRow(s)
      PROVE  Books'
  BY <1>2, <1>3
     DEF Deliver, Upsert, UpsertSignal, UpsertFails, Put, TimeoutRow, supervisorVars,
         storeVars, taskVars
<1>4. ASSUME NEW s \in Signals, NEW k \in Slots, AdoptRow(s, k) PROVE Books'
  BY <1>4, SpawnBooks DEF AdoptRow, Task, storeVars
<1>5. ASSUME NEW k \in Slots, Dequeue(k) PROVE Books'
  <2>1. Head(queue) \in Signals
    BY <1>5 DEF Dequeue, Safe, TypeOK
  <2> QED
    BY <1>5, <2>1, SpawnBooks DEF Dequeue, Task, storeVars
<1>6. ASSUME NEW k \in Slots, TimeoutAdopt(k) PROVE Books'
  <2>1. timeout.sig \in Signals
    BY <1>6 DEF TimeoutAdopt, Safe, Phases
  <2> QED
    BY <1>6, <2>1, SpawnBooks DEF TimeoutAdopt, Task, storeVars
<1>7. CASE QueryActive \/ TimeoutRead \/ TimeoutWrite \/ StartScheduler \/ Tick \/ Stop
           \/ Boot \/ UNCHANGED vars
  BY <1>2, <1>7
     DEF QueryActive, TimeoutRead, TimeoutWrite, UpdateSignalState, StartScheduler, Tick,
         Stop, Boot, vars, supervisorVars, storeVars, taskVars
<1>8. CASE Crash
  BY <1>8, QuietBooks DEF Crash, storeVars, OpenLabels, ClosedLabels
<1> QED
  BY <1>1, <1>3, <1>4, <1>5, <1>6, <1>7, <1>8 DEF Next

\* Empty tables balance.
LEMMA InitBooks == ASSUME Init PROVE Books
<1>1. IsFiniteSet(stages) /\ OneRowPerTrade /\ \A t \in Task : Booked(t)
  BY FS_EmptySet
     DEF Init, StoreInit, SupervisorInit, NoTasks, OneRowPerTrade, Booked, OpenLabels,
         ClosedLabels
<1>2. \A d \in Dates : \A R : Cardinality(CountedRows(d, R)) \in Nat
  BY <1>1, CountedFinite
<1>3. \A d \in Dates : daily[d].trades = 0 /\ daily[d].wins = 0 /\ daily[d].losses = 0
  BY DEF Init, StoreInit, EmptySummary
<1> QED
  BY <1>1, <1>2, <1>3 DEF Books, Sums

\* The books balance in every life.
LEMMA BooksInvariant == Spec => []Books
<1>1. Init => Books
  BY InitBooks
<1>2. Safe /\ Books /\ [Next]_vars => Books'
  BY NextBooks
<1> QED
  BY <1>1, <1>2, SafeInvariant, PTL DEF Spec

\* The daily summary never counts a result that has no closed stage row, nor one
\* twice, whatever crashes and fails.
THEOREM SummaryNeverOver == Spec => []DailyNeverOver
<1>1. Safe /\ Books => DailyNeverOver
  <2> SUFFICES ASSUME Safe, Books, NEW d \in Dates
               PROVE  /\ daily[d].trades <= Cardinality(ClosedRows(d))
                      /\ daily[d].wins <= Cardinality({row \in ClosedRows(d) : row.result = "win"})
                      /\ daily[d].losses
                           <= Cardinality({row \in ClosedRows(d) : row.result \in Losing})
    BY DEF DailyNeverOver
  <2>1. ASSUME NEW R, NEW T \in SUBSET stages, CountedRows(d, R) \subseteq T,
               NEW n \in Nat, n <= Cardinality(CountedRows(d, R))
        PROVE  n <= Cardinality(T)
    <3>1. IsFiniteSet(T) /\ Cardinality(T) \in Nat
      BY FS_Subset, FS_CardinalityType DEF Books
    <3>2. Cardinality(CountedRows(d, R)) <= Cardinality(T)
      BY <2>1, <3>1, FS_Subset
    <3>3. Cardinality(CountedRows(d, R)) \in Nat
      BY CountedFinite DEF Books
    <3> QED
      BY <2>1, <3>1, <3>2, <3>3
  <2>2. daily[d].trades \in Nat /\ daily[d].wins \in Nat /\ daily[d].losses \in Nat
    BY DEF Safe, TypeOK, StoreTypeOK, Summary
  <2>3. /\ daily[d].trades <= Cardinality(CountedRows(d, Results))
        /\ daily[d].wins <= Cardinality(CountedRows(d, {"win"}))
        /\ daily[d].losses <= Cardinality(CountedRows(d, Losing))
    BY DEF Books, Sums
  <2>4. daily[d].trades <= Cardinality(ClosedRows(d))
    <3>1. CountedRows(d, Results) \subseteq ClosedRows(d) /\ ClosedRows(d) \in SUBSET stages
      BY DEF CountedRows, ClosedRows, Results
    <3> QED
      BY <2>1, <2>2, <2>3, <3>1
  <2>5. daily[d].wins <= Cardinality({row \in ClosedRows(d) : row.result = "win"})
    <3> DEFINE T == {row \in ClosedRows(d) : row.result = "win"}
    <3>1. CountedRows(d, {"win"}) \subseteq T /\ T \in SUBSET stages
      BY DEF CountedRows, ClosedRows
    <3> HIDE DEF T
    <3>2. daily[d].wins <= Cardinality(T)
      BY <2>1, <2>2, <2>3, <3>1
    <3> QED
      BY <3>2 DEF T
  <2>6. daily[d].losses <= Cardinality({row \in ClosedRows(d) : row.result \in Losing})
    <3> DEFINE T == {row \in ClosedRows(d) : row.result \in Losing}
    <3>1. CountedRows(d, Losing) \subseteq T /\ T \in SUBSET stages
      BY DEF CountedRows, ClosedRows, Losing
    <3> HIDE DEF T
    <3>2. daily[d].losses <= Cardinality(T)
      BY <2>1, <2>2, <2>3, <3>1
    <3> QED
      BY <3>2 DEF T
  <2> QED
    BY <2>4, <2>5, <2>6
<1> QED
  BY <1>1, BooksInvariant, SafeInvariant, PTL
=============================================================================
