--------------------------- MODULE CopierStepProofs ---------------------------
(***************************************************************************)
(* Proofs about the steps of Copier: what the inductive invariant implies  *)
(* of each action.  No step overwrites a final status, and none lets a     *)
(* signal bet that came after the day's trade limit was reached, or that   *)
(* had been received before a crash.  Each leaves the supervisors no more  *)
(* awaits than before.  Each is a step of Martingale on the status column  *)
(* and the executed orders, or leaves both alone; and each lets            *)
(* supervisors live only as the life of the process does.                  *)
(***************************************************************************)
EXTENDS CopierProofs, FiniteSetTheorems

\* What FinalIsFinal says of one step.
KeepsFinal ==
  \A s \in Signals : signals[s] \in FinalStates =>
    signals'[s] = signals[s] /\ reason'[s] = reason[s]

\* A step that does not touch the signals table keeps final rows.
LEMMA UnwrittenKeeps ==
  ASSUME UNCHANGED <<signals, reason>> PROVE KeepsFinal
BY DEF KeepsFinal

\* update_signal_state of a row that is not final keeps the final ones.
LEMMA UpdateKeeps ==
  ASSUME TypeOK, NEW x \in Signals, NEW status, NEW why,
         UpdateSignalState(x, status, why), signals[x] \notin FinalStates
  PROVE  KeepsFinal
BY DEF KeepsFinal, UpdateSignalState, TypeOK, StoreTypeOK

\* An insert only changes the row of a signal without one.
LEMMA UpsertKeeps ==
  ASSUME TypeOK, NEW s \in Signals, Upsert(s) PROVE KeepsFinal
BY DEF KeepsFinal, Upsert, UpsertSignal, InsertWins, FinalStates, TypeOK, StoreTypeOK

\* A supervisor writes the row of a signal that is not over.
LEMMA StepKeeps ==
  ASSUME Safe, NEW t \in Task, Step(t) PROVE KeepsFinal
<1>1. t[1] \in Signals /\ TypeOK /\ TaskAgrees(t)
  BY TaskSignal DEF Safe, Agreement
<1>2. CASE RejectWrite(t)
  BY <1>1, <1>2, UpdateKeeps DEF RejectWrite, TaskAgrees, PlacedStates, FinalStates
<1>3. CASE FireWrite(t)
  BY <1>1, <1>3, UpdateKeeps DEF FireWrite, TaskAgrees, PlacedStates, FinalStates
<1>4. CASE ErrorWrite(t)
  BY <1>1, <1>4, UpdateKeeps DEF ErrorWrite, TaskAgrees, PlacedStates, FinalStates
<1>5. CASE StateWrite(t)
  <2>1. signals[t[1]] \notin FinalStates
    BY <1>1, <1>5 DEF StateWrite, TaskAgrees, AtStage, PlacedState, Stages, FinalStates
  <2> QED
    BY <1>1, <1>5, <2>1, UpdateKeeps DEF StateWrite
<1>6. CASE StageWrite(t)
  BY <1>6, UnwrittenKeeps DEF StageWrite, RecordStagePlaced, storeVars
<1>7. CASE ResultWrite(t)
  BY <1>7, UnwrittenKeeps DEF ResultWrite, RecordStageResult
<1>8. CASE DailyWrite(t)
  BY <1>8, UnwrittenKeeps DEF DailyWrite, UpdateDailySummary
<1>9. CASE WaitTimesOut(t)
  BY <1>9, UnwrittenKeeps DEF WaitTimesOut, GotResult, storeVars
<1>10. CASE CheckDailyLimit(t) \/ RejectTell(t) \/ DuplicateAtIntake(t)
            \/ StartCascade(t) \/ ReceivedTell(t)
  BY <1>10, UnwrittenKeeps
     DEF CheckDailyLimit, RejectTell, DuplicateAtIntake, StartCascade, ReceivedTell,
         storeVars
<1>11. CASE FireEvent(t) \/ FireGale(t) \/ ExpiredTell(t) \/ PlaceOk(t)
            \/ PlaceUnsupported(t) \/ PlaceRaises(t)
  BY <1>11, UnwrittenKeeps
     DEF FireEvent, FireGale, ExpiredTell, PlaceOk, PlaceUnsupported, PlaceRaises,
         storeVars
<1>12. CASE PairTell(t) \/ PlacedTell(t) \/ ResultTell(t) \/ CompleteTell(t)
  BY <1>12, UnwrittenKeeps DEF PairTell, PlacedTell, ResultTell, CompleteTell, storeVars
<1> QED
  BY <1>2, <1>3, <1>4, <1>5, <1>6, <1>7, <1>8, <1>9, <1>10, <1>11, <1>12 DEF Step

\* record_timeout writes a row that recovery listed, which is still placed_*.
LEMMA TimeoutWriteKeeps ==
  ASSUME Safe, TimeoutWrite PROVE KeepsFinal
<1>1. PICK s \in Signals : s = timeout.sig /\ snapshot[s] # "none"
  BY DEF TimeoutWrite, Safe, Phases
<1>2. signals[s] \notin FinalStates
  BY <1>1 DEF Safe, Exclusive, PlacedStates, FinalStates
<1> QED
  BY <1>1, <1>2, UpdateKeeps DEF TimeoutWrite, Safe

\* No step overwrites a final status.
LEMMA NextKeeps ==
  ASSUME Safe, [Next]_vars PROVE KeepsFinal
<1>1. ASSUME NEW t \in Task,
             SupervisorStep(t) \/ Answer(t) \/ DatabaseError(t) \/ Cancel(t)
      PROVE  KeepsFinal
  <2>1. CASE Step(t)
    BY <2>1, StepKeeps
  <2>2. CASE BrokerAnswers(t)
    BY <2>2, UnwrittenKeeps DEF BrokerAnswers, GotResult, storeVars
  <2>3. CASE DbFails(t) \/ Cancelled(t)
    BY <2>3, UnwrittenKeeps DEF DbFails, Cancelled, storeVars
  <2> QED
    BY <1>1, <2>1, <2>2, <2>3 DEF SupervisorStep, Answer, DatabaseError, Cancel
<1>2. ASSUME NEW s \in Signals,
             Deliver(s) \/ Upsert(s) \/ UpsertFails(s) \/ Put(s) \/ TimeoutRow(s)
      PROVE  KeepsFinal
  BY <1>2, UnwrittenKeeps, UpsertKeeps
     DEF Safe, Deliver, UpsertFails, Put, TimeoutRow, supervisorVars, storeVars
<1>3. ASSUME NEW k \in Slots, NEW s \in Signals,
             AdoptRow(s, k) \/ Dequeue(k) \/ TimeoutAdopt(k)
      PROVE  KeepsFinal
  BY <1>3, UnwrittenKeeps DEF AdoptRow, Dequeue, TimeoutAdopt, storeVars
<1>4. CASE QueryActive \/ TimeoutRead \/ StartScheduler \/ Tick \/ Stop \/ Crash
           \/ Boot \/ UNCHANGED vars
  BY <1>4, UnwrittenKeeps
     DEF QueryActive, TimeoutRead, StartScheduler, Tick, Stop, Crash, Boot, vars,
         supervisorVars, storeVars
<1>5. ASSUME NEW k \in Slots, Dequeue(k) \/ TimeoutAdopt(k) PROVE KeepsFinal
  BY <1>5, UnwrittenKeeps DEF Dequeue, TimeoutAdopt, storeVars
<1> QED
  BY <1>1, <1>2, <1>3, <1>4, <1>5, TimeoutWriteKeeps DEF Next

\* A final status and its reason are never overwritten: neither by a supervisor,
\* nor by a message that comes again, nor by recovery.
THEOREM FinalStatusStays == Spec => FinalIsFinal
<1>1. Safe /\ [Next]_vars => [KeepsFinal]_vars
  BY NextKeeps
<1>2. Spec => [][KeepsFinal]_vars
  BY <1>1, SafeInvariant, PTL DEF Spec
<1> QED
  BY <1>2, PTL DEF FinalIsFinal, KeepsFinal

-----------------------------------------------------------------------------
(* The trade limit.                                                        *)

\* A signal that came too late: the day is full, it has no order, and whoever
\* owns it has not passed the limit check.
Late(s) ==
  /\ daily[DateOf[s]].trades >= TradeLimit
  /\ \A g \in Stages : trades[s][g] = 0
  /\ signals[s] \in {"none", "pending", "error"}
  /\ \A k \in Slots : pc[<<s, k>>] \in {"free", "limit", "rejectWrite", "rejectTell"}

\* A step that does not touch the signal, and takes nothing from the day's count.
LEMMA LateFrame ==
  ASSUME Safe, NEW s \in Signals, Late(s),
         daily'[DateOf[s]].trades \in Nat,
         daily'[DateOf[s]].trades >= daily[DateOf[s]].trades,
         trades'[s] = trades[s], signals'[s] = signals[s],
         \A k \in Slots : pc'[<<s, k>>] = pc[<<s, k>>]
  PROVE  Late(s)'
<1>1. daily[DateOf[s]].trades \in Nat
  BY SignalAssumption DEF Safe, TypeOK, StoreTypeOK, Summary
<1> QED
  BY <1>1, SupervisorAssumption DEF Late

\* Its own supervisor finds the limit reached, and rejects it.
LEMMA OwnStepLate ==
  ASSUME TradeLimit > 0, Safe, NEW s \in Signals, Late(s), NEW t \in Task, t[1] = s,
         Step(t) \/ BrokerAnswers(t) \/ DbFails(t) \/ Cancelled(t)
  PROVE  Late(s)'
<1>1. /\ SupervisorTypeOK /\ DateOf[s] \in Dates /\ daily[DateOf[s]].trades \in Nat
      /\ TradeLimit \in Nat /\ signals \in [Signals -> States \union {"none"}]
  BY SignalAssumption, SupervisorAssumption DEF Safe, TypeOK, StoreTypeOK, Summary
<1>2. pc[t] \in {"free", "limit", "rejectWrite", "rejectTell"}
  BY DEF Task, Late
<1>3. \/ CheckDailyLimit(t) \/ RejectWrite(t) \/ RejectTell(t)
      \/ DbFails(t) \/ Cancelled(t)
  <2>1. ~(\/ DuplicateAtIntake(t) \/ StartCascade(t) \/ ReceivedTell(t) \/ FireEvent(t)
          \/ FireGale(t) \/ FireWrite(t) \/ ExpiredTell(t) \/ PlaceOk(t)
          \/ PlaceUnsupported(t) \/ PlaceRaises(t) \/ PairTell(t) \/ ErrorWrite(t))
    BY <1>2
       DEF DuplicateAtIntake, StartCascade, ReceivedTell, FireEvent, FireGale, Due,
           FireWrite, ExpiredTell, PlaceOk, PlaceUnsupported, PlaceRaises, PairTell,
           ErrorWrite
  <2>2. ~(\/ StageWrite(t) \/ PlacedTell(t) \/ WaitTimesOut(t) \/ BrokerAnswers(t)
          \/ ResultWrite(t) \/ StateWrite(t) \/ DailyWrite(t) \/ ResultTell(t)
          \/ CompleteTell(t))
    BY <1>2
       DEF StageWrite, PlacedTell, WaitTimesOut, BrokerAnswers, ResultWrite, StateWrite,
           DailyWrite, ResultTell, CompleteTell
  <2> QED
    BY <2>1, <2>2 DEF Step
<1>4. /\ UNCHANGED <<daily, trades>>
      /\ signals'[s] \in {"none", "pending", "error"}
      /\ pc'[t] \in {"free", "rejectWrite", "rejectTell"}
      /\ \A u \in Task : u # t => pc'[u] = pc[u]
  <2>1. CASE CheckDailyLimit(t)
    <3>1. LimitHit(DateOf[s])
      BY <1>1 DEF Late, LimitHit, HasSummary
    <3> QED
      BY <1>1, <2>1, <3>1, GotoFacts DEF CheckDailyLimit, storeVars, Late, Labels
  <2>2. CASE RejectWrite(t)
    <3>1. signals'[s] \in {"none", "error"} /\ UNCHANGED <<daily, trades>>
      BY <1>1, <2>2 DEF RejectWrite, UpdateSignalState
    <3> QED
      BY <1>1, <2>2, <3>1, GotoFacts DEF RejectWrite, Labels
  <2>3. CASE RejectTell(t) \/ DbFails(t)
    BY <1>1, <2>3, EndFacts DEF RejectTell, DbFails, storeVars, Late
  <2>4. CASE Cancelled(t)
    BY <1>1, <1>2, <2>4, EndFacts DEF Cancelled, storeVars, Late
  <2> QED
    BY <1>3, <2>1, <2>2, <2>3, <2>4
<1>5. \A k \in Slots : pc'[<<s, k>>] \in {"free", "limit", "rejectWrite", "rejectTell"}
  BY <1>4 DEF Late, Task
<1> QED
  BY <1>4, <1>5 DEF Late

\* The supervisors of other signals leave a signal alone, and only add to the
\* day's count.
LEMMA OthersStep ==
  ASSUME Safe, NEW s \in Signals, NEW t \in Task, t[1] # s,
         Step(t) \/ BrokerAnswers(t) \/ DbFails(t) \/ Cancelled(t)
  PROVE  /\ \A k \in Slots : pc'[<<s, k>>] = pc[<<s, k>>]
         /\ trades'[s] = trades[s] /\ signals'[s] = signals[s]
         /\ daily'[DateOf[s]].trades \in Nat
         /\ daily'[DateOf[s]].trades >= daily[DateOf[s]].trades
<1>1. /\ SupervisorTypeOK /\ t[1] \in Signals /\ DateOf[s] \in Dates
      /\ daily \in [Dates -> Summary] /\ signals \in [Signals -> States \union {"none"}]
      /\ trades \in [Signals -> [Stages -> Nat]]
  BY TaskSignal, SignalAssumption DEF Safe, TypeOK, StoreTypeOK, SupervisorTypeOK
<1>2. daily[DateOf[s]].trades \in Nat
  BY <1>1 DEF Summary
<1>3. \A k \in Slots : <<s, k>> \in Task /\ <<s, k>> # t
  BY DEF Task
<1>4. ASSUME NEW label, Goto(t, label) PROVE \A k \in Slots : pc'[<<s, k>>] = pc[<<s, k>>]
  BY <1>1, <1>3, <1>4 DEF Goto, SupervisorTypeOK
<1>5. ASSUME End(t) PROVE \A k \in Slots : pc'[<<s, k>>] = pc[<<s, k>>]
  BY <1>4, <1>5 DEF End
<1>6. ASSUME Executed(t) PROVE trades'[s] = trades[s]
  BY <1>1, <1>6 DEF Executed
<1>7. ASSUME NEW status, NEW why, UpdateSignalState(t[1], status, why)
      PROVE  signals'[s] = signals[s] /\ UNCHANGED daily
  BY <1>1, <1>7 DEF UpdateSignalState
<1>8. ASSUME NEW d, NEW r, NEW pnl, UpdateDailySummary(d, r, pnl)
      PROVE  /\ daily'[DateOf[s]].trades \in Nat
             /\ daily'[DateOf[s]].trades >= daily[DateOf[s]].trades
             /\ UNCHANGED signals
  BY <1>1, <1>2, <1>8 DEF UpdateDailySummary
<1>9. \A k \in Slots : pc'[<<s, k>>] = pc[<<s, k>>]
  <2>1. CASE \/ CheckDailyLimit(t) \/ RejectWrite(t) \/ StartCascade(t) \/ ReceivedTell(t)
             \/ FireEvent(t) \/ FireGale(t) \/ FireWrite(t) \/ ExpiredTell(t) \/ PlaceOk(t)
             \/ PlaceUnsupported(t) \/ PairTell(t) \/ ErrorWrite(t)
    BY <1>4, <2>1
       DEF CheckDailyLimit, RejectWrite, StartCascade, ReceivedTell, FireEvent, FireGale,
           FireWrite, ExpiredTell, PlaceOk, PlaceUnsupported, PairTell, ErrorWrite
  <2>2. CASE \/ PlacedTell(t) \/ WaitTimesOut(t) \/ BrokerAnswers(t) \/ ResultWrite(t)
             \/ StateWrite(t) \/ DailyWrite(t) \/ ResultTell(t)
    BY <1>4, <2>2
       DEF PlacedTell, WaitTimesOut, BrokerAnswers, GotResult, ResultWrite, StateWrite,
           DailyWrite, ResultTell
  <2>3. CASE \/ RejectTell(t) \/ DuplicateAtIntake(t) \/ PlaceRaises(t) \/ CompleteTell(t)
             \/ DbFails(t) \/ Cancelled(t)
    BY <1>5, <2>3
       DEF RejectTell, DuplicateAtIntake, PlaceRaises, CompleteTell, DbFails, Cancelled
  <2>4. CASE StageWrite(t)
    BY <1>4, <1>5, <2>4 DEF StageWrite
  <2> QED
    BY <2>1, <2>2, <2>3, <2>4 DEF Step
<1>10. /\ trades'[s] = trades[s] /\ signals'[s] = signals[s]
       /\ daily'[DateOf[s]].trades \in Nat
       /\ daily'[DateOf[s]].trades >= daily[DateOf[s]].trades
  <2>1. CASE \/ CheckDailyLimit(t) \/ RejectTell(t) \/ DuplicateAtIntake(t)
             \/ StartCascade(t) \/ ReceivedTell(t) \/ FireEvent(t) \/ FireGale(t)
             \/ ExpiredTell(t) \/ PlaceUnsupported(t) \/ PairTell(t) \/ PlacedTell(t)
             \/ WaitTimesOut(t) \/ BrokerAnswers(t) \/ ResultTell(t) \/ CompleteTell(t)
             \/ DbFails(t)
    BY <1>2, <2>1
       DEF CheckDailyLimit, RejectTell, DuplicateAtIntake, StartCascade, ReceivedTell,
           FireEvent, FireGale, ExpiredTell, PlaceUnsupported, PairTell, PlacedTell,
           WaitTimesOut, BrokerAnswers, GotResult, ResultTell, CompleteTell, DbFails,
           storeVars
  <2>2. CASE RejectWrite(t) \/ FireWrite(t) \/ ErrorWrite(t) \/ StateWrite(t)
    BY <1>2, <1>7, <2>2 DEF RejectWrite, FireWrite, ErrorWrite, StateWrite
  <2>3. CASE PlaceOk(t) \/ PlaceRaises(t) \/ Cancelled(t)
    BY <1>2, <1>6, <2>3 DEF PlaceOk, PlaceRaises, Cancelled, storeVars
  <2>4. CASE StageWrite(t) \/ ResultWrite(t)
    BY <1>2, <2>4
       DEF StageWrite, RecordStagePlaced, ResultWrite, RecordStageResult, storeVars
  <2>5. CASE DailyWrite(t)
    BY <1>8, <2>5 DEF DailyWrite
  <2> QED
    BY <2>1, <2>2, <2>3, <2>4, <2>5 DEF Step
<1> QED
  BY <1>9, <1>10

\* A new supervisor begins before the limit check, whoever starts it.
LEMMA SpawnLate ==
  ASSUME Safe, NEW s \in Signals, Late(s), NEW t \in Task, Spawn(t),
         UNCHANGED <<signals, daily, trades>>
  PROVE  Late(s)'
<1>1. pc'[t] = "limit" /\ \A u \in Task : u # t => pc'[u] = pc[u]
  BY GotoFacts DEF Spawn, Safe, TypeOK, Labels
<1> QED
  BY <1>1 DEF Late, Task

\* What came too late stays too late.
LEMMA NextLate ==
  ASSUME TradeLimit > 0, Safe, NEW s \in Signals, Late(s), [Next]_vars PROVE Late(s)'
<1>1. daily[DateOf[s]].trades \in Nat
  BY SignalAssumption DEF Safe, TypeOK, StoreTypeOK, Summary
<1>2. CASE \E t \in Task :
             SupervisorStep(t) \/ Answer(t) \/ DatabaseError(t) \/ Cancel(t)
  BY <1>2, OwnStepLate, OthersStep, LateFrame
     DEF SupervisorStep, Answer, DatabaseError, Cancel
<1>3. ASSUME UNCHANGED <<signals, daily, trades, pc>> PROVE Late(s)'
  BY <1>1, <1>3, LateFrame
<1>4. ASSUME NEW r \in Signals,
             Deliver(r) \/ UpsertFails(r) \/ Put(r) \/ TimeoutRow(r)
      PROVE  Late(s)'
  BY <1>3, <1>4
     DEF Deliver, UpsertFails, Put, TimeoutRow, supervisorVars, storeVars, taskVars
<1>5. ASSUME NEW r \in Signals, Upsert(r) PROVE Late(s)'
  <2>1. /\ UNCHANGED <<daily, trades, pc>>
        /\ signals'[s] = signals[s] \/ signals'[s] = "pending"
    BY <1>5 DEF Upsert, UpsertSignal, taskVars, Safe, TypeOK, StoreTypeOK
  <2> QED
    BY <2>1 DEF Late
<1>6. ASSUME NEW r \in Signals, NEW k \in Slots, AdoptRow(r, k) PROVE Late(s)'
  BY <1>6, SpawnLate DEF AdoptRow, Task, storeVars
<1>7. ASSUME NEW k \in Slots, Dequeue(k) PROVE Late(s)'
  <2>1. Head(queue) \in Signals
    BY <1>7 DEF Dequeue, Safe, TypeOK
  <2> QED
    BY <1>7, <2>1, SpawnLate DEF Dequeue, Task, storeVars
<1>8. ASSUME NEW k \in Slots, TimeoutAdopt(k) PROVE Late(s)'
  <2>1. timeout.sig \in Signals
    BY <1>8 DEF TimeoutAdopt, Safe, Phases
  <2> QED
    BY <1>8, <2>1, SpawnLate DEF TimeoutAdopt, Task, storeVars
<1>9. CASE TimeoutWrite
  <2>1. timeout.sig \in Signals /\ signals[timeout.sig] \in PlacedStates
    BY <1>9 DEF TimeoutWrite, Safe, Phases, Exclusive
  <2>2. timeout.sig # s
    BY <2>1 DEF Late, PlacedStates
  <2>3. UNCHANGED <<daily, trades, pc>> /\ signals'[s] = signals[s]
    BY <1>9, <2>1, <2>2
       DEF TimeoutWrite, UpdateSignalState, taskVars, Safe, TypeOK, StoreTypeOK
  <2> QED
    BY <1>1, <2>3, LateFrame
<1>10. CASE QueryActive \/ TimeoutRead \/ StartScheduler \/ Tick \/ Stop \/ Boot
            \/ UNCHANGED vars
  BY <1>3, <1>10
     DEF QueryActive, TimeoutRead, StartScheduler, Tick, Stop, Boot, vars,
         supervisorVars, storeVars, taskVars
<1>11. CASE Crash
  <2>1. UNCHANGED <<signals, daily, trades>> /\ \A t \in Task : pc'[t] = "free"
    BY <1>11 DEF Crash, storeVars
  <2> QED
    BY <2>1 DEF Late, Task
<1> QED
  BY <1>2, <1>4, <1>5, <1>6, <1>7, <1>8, <1>9, <1>10, <1>11 DEF Next

\* A signal that is received once the day's trades have reached the limit never
\* bets, whatever restarts and whatever cascades are still in flight.
THEOREM LimitStopsLateSignals == TradeLimit > 0 => (Spec => TradeLimitHolds)
<1> SUFFICES ASSUME TradeLimit > 0 PROVE Spec => TradeLimitHolds
  OBVIOUS
<1>1. ASSUME NEW s \in Signals
      PROVE  Spec => [](signals[s] = "none" /\ daily[DateOf[s]].trades >= TradeLimit
                          => [](\A g \in Stages : trades[s][g] = 0))
  <2>1. Safe /\ signals[s] = "none" /\ daily[DateOf[s]].trades >= TradeLimit => Late(s)
    <3> SUFFICES ASSUME Safe, signals[s] = "none", daily[DateOf[s]].trades >= TradeLimit
                 PROVE  Late(s)
      OBVIOUS
    <3>1. \A g \in Stages : trades[s][g] = 0
      <4>1. \A g \in Stages : ~(trades[s][g] > 0)
        BY DEF Safe, WriteAhead, Reached, FinalStates, PlacedState, Stages
      <4> QED
        BY <4>1 DEF Safe, TypeOK, SupervisorTypeOK
    <3>2. \A k \in Slots : pc[<<s, k>>] = "free"
      BY DEF Safe, Exclusive, Task
    <3> QED
      BY <3>1, <3>2 DEF Late
  <2>2. Safe /\ Late(s) /\ [Next]_vars => Late(s)'
    BY NextLate
  <2>3. Late(s) => \A g \in Stages : trades[s][g] = 0
    BY DEF Late
  <2> QED
    BY <2>1, <2>2, <2>3, SafeInvariant, PTL DEF Spec
<1> QED
  BY <1>1 DEF TradeLimitHolds

-----------------------------------------------------------------------------
(* What a crash ends.                                                      *)

\* A supervisor that has not come past the check of an abandoned signal does
\* not: it rejects the signal or leaves it alone.
LEMMA OwnStepAbandoned ==
  ASSUME Safe, NEW s \in Signals, Abandoned(s), NEW t \in Task, t[1] = s,
         Step(t) \/ BrokerAnswers(t) \/ DbFails(t) \/ Cancelled(t)
  PROVE  /\ trades' = trades
         /\ signals'[s] \notin {"none", "pending"}
         /\ \A k \in Slots : pc'[<<s, k>>] \notin DriveLabels
<1>1. SupervisorTypeOK /\ signals \in [Signals -> States \union {"none"}]
  BY DEF Safe, TypeOK, StoreTypeOK
<1>2. pc[t] \in {"free", "limit", "rejectWrite", "rejectTell", "idem"}
  BY <1>1 DEF Task, Abandoned, DriveLabels, SupervisorTypeOK
<1>3. \/ CheckDailyLimit(t) \/ RejectWrite(t) \/ RejectTell(t) \/ DuplicateAtIntake(t)
      \/ StartCascade(t) \/ DbFails(t) \/ Cancelled(t)
  <2>1. ~(\/ ReceivedTell(t) \/ FireEvent(t) \/ FireGale(t) \/ FireWrite(t)
          \/ ExpiredTell(t) \/ PlaceOk(t) \/ PlaceUnsupported(t) \/ PlaceRaises(t)
          \/ PairTell(t) \/ ErrorWrite(t))
    BY <1>2
       DEF ReceivedTell, FireEvent, FireGale, Due, FireWrite, ExpiredTell, PlaceOk,
           PlaceUnsupported, PlaceRaises, PairTell, ErrorWrite
  <2>2. ~(\/ StageWrite(t) \/ PlacedTell(t) \/ WaitTimesOut(t) \/ BrokerAnswers(t)
          \/ ResultWrite(t) \/ StateWrite(t) \/ DailyWrite(t) \/ ResultTell(t)
          \/ CompleteTell(t))
    BY <1>2
       DEF StageWrite, PlacedTell, WaitTimesOut, BrokerAnswers, ResultWrite, StateWrite,
           DailyWrite, ResultTell, CompleteTell
  <2> QED
    BY <2>1, <2>2 DEF Step
<1>4. pc[t] # "free"
  BY <1>3
     DEF CheckDailyLimit, RejectWrite, RejectTell, DuplicateAtIntake, StartCascade, DbFails,
         DbLabels, Cancelled
<1>5. signals[s] \notin {"none", "pending"}
  BY <1>4 DEF Abandoned, Unattended, Task
<1>6. ~StartCascade(t)
  BY <1>5 DEF StartCascade, MayDrive
<1>7. /\ UNCHANGED trades
      /\ signals'[s] \notin {"none", "pending"}
      /\ pc'[t] \in {"free", "rejectWrite", "rejectTell", "idem"}
      /\ \A u \in Task : u # t => pc'[u] = pc[u]
  <2>1. CASE CheckDailyLimit(t)
    <3>1. PICK label \in {"rejectWrite", "idem"} : Goto(t, label)
      BY <2>1 DEF CheckDailyLimit
    <3> QED
      BY <1>1, <1>5, <2>1, <3>1, GotoFacts DEF CheckDailyLimit, storeVars, Labels
  <2>2. CASE RejectWrite(t)
    <3>1. signals'[s] \notin {"none", "pending"} /\ UNCHANGED trades
      BY <1>1, <1>5, <2>2 DEF RejectWrite, UpdateSignalState
    <3> QED
      BY <1>1, <2>2, <3>1, GotoFacts DEF RejectWrite, Labels
  <2>3. CASE RejectTell(t) \/ DuplicateAtIntake(t) \/ DbFails(t)
    BY <1>1, <1>5, <2>3, EndFacts DEF RejectTell, DuplicateAtIntake, DbFails, storeVars
  <2>4. CASE Cancelled(t)
    BY <1>1, <1>2, <1>5, <2>4, EndFacts DEF Cancelled, storeVars
  <2> QED
    BY <1>3, <1>6, <2>1, <2>2, <2>3, <2>4
<1>8. \A k \in Slots : pc'[<<s, k>>] \notin DriveLabels
  BY <1>7 DEF Abandoned, Task, DriveLabels
<1> QED
  BY <1>7, <1>8

\* A step that brings the signal to no handler, queue entry or driver.
LEMMA AbandonedFrame ==
  ASSUME NEW s \in Signals, Abandoned(s),
         inserted'[s] = 0, Queued(s)' => Queued(s),
         \/ /\ signals'[s] = signals[s]
            /\ \A k \in Slots : pc'[<<s, k>>] = pc[<<s, k>>]
         \/ /\ signals'[s] \notin {"none", "pending"}
            /\ \A k \in Slots : pc'[<<s, k>>] \notin DriveLabels
  PROVE  Abandoned(s)'
<1>1. CASE signals'[s] = signals[s] /\ \A k \in Slots : pc'[<<s, k>>] = pc[<<s, k>>]
  BY <1>1 DEF Abandoned, Unattended
<1>2. CASE /\ signals'[s] \notin {"none", "pending"}
           /\ \A k \in Slots : pc'[<<s, k>>] \notin DriveLabels
  BY <1>2 DEF Abandoned
<1> QED
  BY <1>1, <1>2

\* A supervisor that recovery starts for it begins before the checks.
LEMMA SpawnAbandoned ==
  ASSUME Safe, NEW s \in Signals, Abandoned(s), NEW t \in Task, Spawn(t),
         t[1] = s => signals[s] # "pending", UNCHANGED <<signals, inserted>>,
         Queued(s)' => Queued(s)
  PROVE  Abandoned(s)'
<1>1. pc'[t] = "limit" /\ \A u \in Task : u # t => pc'[u] = pc[u]
  BY GotoFacts DEF Spawn, Safe, TypeOK, Labels
<1>2. CASE t[1] = s
  <2>1. signals'[s] \notin {"none", "pending"}
    BY <1>2 DEF Abandoned
  <2>2. \A k \in Slots : pc'[<<s, k>>] \notin DriveLabels
    BY <1>1 DEF Abandoned, Task, DriveLabels
  <2> QED
    BY <2>1, <2>2, AbandonedFrame DEF Abandoned
<1>3. CASE t[1] # s
  <2>1. \A k \in Slots : pc'[<<s, k>>] = pc[<<s, k>>]
    BY <1>1, <1>3 DEF Task
  <2> QED
    BY <2>1, AbandonedFrame DEF Abandoned
<1> QED
  BY <1>2, <1>3

\* What is abandoned stays so, and no step bets for it.
LEMMA NextAbandoned ==
  ASSUME Safe, NEW s \in Signals, Abandoned(s), [Next]_vars
  PROVE  Abandoned(s)' /\ trades'[s] = trades[s]
<1>1. /\ signals \in [Signals -> States \union {"none"}] /\ inserted \in [Signals -> Nat]
      /\ queue \in Seq(Signals)
  BY DEF Safe, TypeOK, StoreTypeOK
<1>2. ASSUME UNCHANGED <<signals, pc, inserted, queue, trades>>
      PROVE  Abandoned(s)' /\ trades'[s] = trades[s]
  <2>1. Queued(s)' => Queued(s)
    BY <1>2 DEF Queued
  <2> QED
    BY <1>2, <2>1, AbandonedFrame DEF Abandoned
<1>3. CASE \E t \in Task :
             SupervisorStep(t) \/ Answer(t) \/ DatabaseError(t) \/ Cancel(t)
  <2>1. PICK t \in Task : SupervisorStep(t) \/ Answer(t) \/ DatabaseError(t) \/ Cancel(t)
    BY <1>3
  <2>2. /\ Step(t) \/ BrokerAnswers(t) \/ DbFails(t) \/ Cancelled(t)
        /\ UNCHANGED <<inserted, queue>>
    BY <2>1 DEF SupervisorStep, Answer, DatabaseError, Cancel, listenerVars
  <2>3. inserted'[s] = 0 /\ (Queued(s)' => Queued(s))
    BY <2>2 DEF Abandoned, Queued
  <2>4. CASE t[1] = s
    BY <2>2, <2>3, <2>4, OwnStepAbandoned, AbandonedFrame
  <2>5. CASE t[1] # s
    BY <2>2, <2>3, <2>5, OthersStep, AbandonedFrame
  <2> QED
    BY <2>4, <2>5
<1>4. ASSUME NEW r \in Signals, Deliver(r) \/ UpsertFails(r) \/ TimeoutRow(r)
      PROVE  Abandoned(s)' /\ trades'[s] = trades[s]
  BY <1>2, <1>4
     DEF Deliver, UpsertFails, TimeoutRow, supervisorVars, storeVars, taskVars, listenerVars
<1>5. ASSUME NEW r \in Signals, Upsert(r) PROVE Abandoned(s)' /\ trades'[s] = trades[s]
  <2>1. signals'[s] = signals[s] /\ inserted'[s] = 0 /\ UNCHANGED <<pc, queue, trades>>
    BY <1>1, <1>5 DEF Upsert, UpsertSignal, InsertWins, taskVars, Abandoned
  <2>2. Queued(s)' => Queued(s)
    BY <2>1 DEF Queued
  <2> QED
    BY <2>1, <2>2, AbandonedFrame
<1>6. ASSUME NEW r \in Signals, Put(r) PROVE Abandoned(s)' /\ trades'[s] = trades[s]
  <2>1. /\ r # s /\ queue' = Append(queue, r) /\ inserted'[s] = 0
        /\ UNCHANGED <<signals, pc, trades>>
    BY <1>1, <1>6 DEF Put, Abandoned, supervisorVars, storeVars, taskVars
  <2>2. Queued(s)' => Queued(s)
    BY <1>1, <2>1 DEF Queued
  <2> QED
    BY <2>1, <2>2, AbandonedFrame
<1>7. ASSUME NEW k \in Slots, Dequeue(k) PROVE Abandoned(s)' /\ trades'[s] = trades[s]
  <2>1. /\ queue # <<>> /\ queue' = Tail(queue) /\ Spawn(<<Head(queue), k>>)
        /\ UNCHANGED <<signals, inserted, trades>>
    BY <1>7 DEF Dequeue, storeVars
  <2>2. /\ Len(queue) \in Nat /\ Len(queue) >= 1 /\ Head(queue) = queue[1]
        /\ Head(queue) \in Signals /\ Len(queue') = Len(queue) - 1
        /\ \A i \in 1..Len(queue') : queue'[i] = queue[i + 1]
    BY <1>1, <2>1
  <2>3. Head(queue) # s
    BY <2>2 DEF Queued, Abandoned
  <2>4. Queued(s)' => Queued(s)
    <3>1. \A i \in 1..Len(queue') : i + 1 \in 1..Len(queue)
      BY <2>2
    <3> QED
      BY <2>2, <3>1 DEF Queued
  <2> QED
    BY <2>1, <2>2, <2>3, <2>4, SpawnAbandoned DEF Task
<1>8. ASSUME NEW r \in Signals, NEW k \in Slots, AdoptRow(r, k)
      PROVE  Abandoned(s)' /\ trades'[s] = trades[s]
  <2>1. signals[r] # "pending"
    BY <1>8 DEF AdoptRow, NextRow, Safe, Exclusive, PlacedStates
  <2>2. /\ Spawn(<<r, k>>) /\ UNCHANGED <<signals, inserted, trades>>
        /\ (Queued(s)' => Queued(s))
    BY <1>8 DEF AdoptRow, storeVars, listenerVars, Queued
  <2> QED
    BY <2>1, <2>2, SpawnAbandoned DEF Task
<1>9. ASSUME NEW k \in Slots, TimeoutAdopt(k) PROVE Abandoned(s)' /\ trades'[s] = trades[s]
  <2>1. timeout.sig \in Signals /\ signals[timeout.sig] # "pending"
    BY <1>9 DEF TimeoutAdopt, Safe, Phases, Exclusive, PlacedStates
  <2>2. /\ Spawn(<<timeout.sig, k>>) /\ UNCHANGED <<signals, inserted, trades>>
        /\ (Queued(s)' => Queued(s))
    BY <1>9 DEF TimeoutAdopt, storeVars, listenerVars, Queued
  <2> QED
    BY <2>1, <2>2, SpawnAbandoned DEF Task
<1>10. CASE TimeoutWrite
  <2>1. /\ UNCHANGED <<pc, trades, inserted, queue>>
        /\ \/ signals'[s] = signals[s]
           \/ timeout.sig = s /\ signals'[s] = timeout.status
    BY <1>1, <1>10 DEF TimeoutWrite, UpdateSignalState, taskVars, listenerVars
  <2>2. timeout.status \notin {"none", "pending"}
    <3>1. PICK g : timeout.status \in Successors(g)
      BY <1>10 DEF TimeoutWrite, Safe, Phases
    <3> QED
      BY <3>1 DEF Successors, PlacedState, NextStage
  <2>3. Queued(s)' => Queued(s)
    BY <2>1 DEF Queued
  <2>4. \A k \in Slots : pc'[<<s, k>>] = pc[<<s, k>>] /\ pc'[<<s, k>>] \notin DriveLabels
    BY <2>1 DEF Abandoned
  <2> QED
    BY <2>1, <2>2, <2>3, <2>4, AbandonedFrame DEF Abandoned
<1>11. CASE QueryActive \/ TimeoutRead \/ StartScheduler \/ Tick \/ Stop \/ Boot
            \/ UNCHANGED vars
  BY <1>2, <1>11
     DEF QueryActive, TimeoutRead, StartScheduler, Tick, Stop, Boot, vars,
         supervisorVars, storeVars, taskVars, listenerVars
<1>12. CASE Crash
  <2>1. /\ UNCHANGED <<signals, trades>> /\ inserted'[s] = 0 /\ ~Queued(s)'
        /\ \A t \in Task : pc'[t] = "free"
    BY <1>12 DEF Crash, storeVars, Queued
  <2> QED
    BY <2>1 DEF Abandoned, Unattended, Task, DriveLabels
<1> QED
  BY <1>3, <1>4, <1>5, <1>6, <1>7, <1>8, <1>9, <1>10, <1>11, <1>12 DEF Next

\* Nothing runs in a process that is down.
LEMMA NothingRunsStays ==
  ASSUME Safe, NothingRuns, [Next]_vars PROVE NothingRuns'
<1>1. proc = "down" =>
        /\ \A s \in Signals : ~(checked[s] > 0) /\ ~(inserted[s] > 0)
        /\ queue = <<>> /\ timeout.at = "no" /\ \A t \in Task : pc[t] = "free"
  BY DEF NothingRuns
<1>2. CASE UNCHANGED <<proc, checked, inserted, queue, timeout, pc>>
  BY <1>2 DEF NothingRuns
<1>3. CASE proc' # "down"
  BY <1>3 DEF NothingRuns
<1>4. CASE Crash
  BY <1>4 DEF Crash, NothingRuns, NoTimeout
<1>5. CASE \E s \in Signals :
             Deliver(s) \/ Upsert(s) \/ UpsertFails(s) \/ Put(s) \/ TimeoutRow(s)
  BY <1>1, <1>3, <1>5
     DEF Deliver, Upsert, UpsertFails, Put, TimeoutRow, NextRow
<1>6. CASE \/ \E s \in Signals, k \in Slots : AdoptRow(s, k)
           \/ \E k \in Slots : Dequeue(k) \/ TimeoutAdopt(k)
           \/ QueryActive \/ TimeoutRead \/ TimeoutWrite \/ StartScheduler
  BY <1>1, <1>3, <1>6
     DEF AdoptRow, NextRow, Dequeue, TimeoutAdopt, QueryActive, TimeoutRead, TimeoutWrite,
         StartScheduler
<1>7. CASE \E t \in Task :
             SupervisorStep(t) \/ Answer(t) \/ DatabaseError(t) \/ Cancel(t)
  <2>1. PICK t \in Task : SupervisorStep(t) \/ Answer(t) \/ DatabaseError(t) \/ Cancel(t)
    BY <1>7
  <2>2. UNCHANGED proc
    BY <2>1 DEF SupervisorStep, Answer, DatabaseError, Cancel
  <2>3. CASE proc = "down"
    <3>1. pc[t] = "free"
      BY <1>1, <2>3
    <3>2. /\ ~(Step(t) \/ BrokerAnswers(t) \/ DbFails(t) \/ Cancelled(t))
      BY <3>1
         DEF Step, CheckDailyLimit, RejectWrite, RejectTell, DuplicateAtIntake, StartCascade,
             ReceivedTell, FireEvent, FireGale, Due, FireWrite, ExpiredTell, PlaceOk,
             PlaceUnsupported, PlaceRaises, PairTell, ErrorWrite, StageWrite, PlacedTell,
             WaitTimesOut, BrokerAnswers, ResultWrite, StateWrite, DailyWrite, ResultTell,
             CompleteTell, DbFails, DbLabels, Cancelled
    <3> QED
      BY <2>1, <3>2 DEF SupervisorStep, Answer, DatabaseError, Cancel
  <2>4. CASE proc # "down"
    BY <1>3, <2>2, <2>4
  <2> QED
    BY <2>3, <2>4
<1>8. CASE Tick \/ Stop \/ Boot \/ UNCHANGED vars
  BY <1>2, <1>3, <1>8
     DEF Tick, Stop, Boot, vars, supervisorVars, taskVars, listenerVars, recoveryVars
<1> QED
  BY <1>4, <1>5, <1>6, <1>7, <1>8 DEF Next

\* After a crash there is no bet for any signal that had been received, not even
\* for one that recovery adopts: what is interrupted is never continued.
THEOREM CrashEndsBetting == Spec => NoBetAfterCrash
<1>1. Init => NothingRuns
  BY DEF Init, NothingRuns
<1>2. Spec => []NothingRuns
  BY <1>1, NothingRunsStays, SafeInvariant, PTL DEF Spec
<1>3. ASSUME NEW s \in Signals
      PROVE  Spec => [](proc = "down" /\ signals[s] # "none" => [][trades'[s] = trades[s]]_vars)
  <2>1. NothingRuns /\ proc = "down" /\ signals[s] # "none" => Abandoned(s)
    BY DEF NothingRuns, Abandoned, Unattended, Queued, DriveLabels, Task
  <2>2. Safe /\ Abandoned(s) /\ [Next]_vars => Abandoned(s)' /\ [trades'[s] = trades[s]]_vars
    BY NextAbandoned
  <2> QED
    BY <1>2, <2>1, <2>2, SafeInvariant, PTL DEF Spec
<1> QED
  BY <1>3 DEF NoBetAfterCrash

-----------------------------------------------------------------------------
(* The end of cascades.                                                    *)

\* AwaitsFrom, label by label.
LEMMA AwaitsAt ==
  ASSUME NEW state
  PROVE  /\ AwaitsFrom("free", state) = 0
         /\ AwaitsFrom("limit", state) = 32
         /\ AwaitsFrom("idem", state) = 31
         /\ AwaitsFrom("receivedTell", state) = 30
         /\ AwaitsFrom("armed", state) =
              IF state.state = "pending" THEN 29 ELSE 9 * StagesLeft(state) + 1
         /\ AwaitsFrom("fireWrite", state) = 28
         /\ AwaitsFrom("place", state) = 9 * StagesLeft(state)
         /\ AwaitsFrom("stageWrite", state) = 9 * StagesLeft(state) - 1
         /\ AwaitsFrom("placedTell", state) = 9 * StagesLeft(state) - 2
         /\ AwaitsFrom("waiting", state) = 9 * StagesLeft(state) - 3
         /\ AwaitsFrom("resultWrite", state) = 9 * StagesLeft(state) + 5
         /\ AwaitsFrom("stateWrite", state) = 9 * StagesLeft(state) + 4
         /\ AwaitsFrom("dailyWrite", state) = 9 * StagesLeft(state) + 3
         /\ AwaitsFrom("resultTell", state) = 9 * StagesLeft(state) + 2
         /\ AwaitsFrom("pairTell", state) = 3
         /\ AwaitsFrom("rejectWrite", state) = 2
         /\ AwaitsFrom("expiredTell", state) = 2
         /\ AwaitsFrom("errorWrite", state) = 2
         /\ AwaitsFrom("rejectTell", state) = 1
         /\ AwaitsFrom("completeTell", state) = 1
BY DEF AwaitsFrom

\* The stages left at a placed state, and after the result of a stage.
LEMMA StagesLeftPlaced ==
  ASSUME NEW state, state.stage \in Stages, state.state = PlacedState(state.stage)
  PROVE  /\ StagesLeft(state) = 3 - StageOffset(state.stage)
         /\ StagesLeft(state) \in 1..3
         /\ state.stage # "initial" => StagesLeft(state) \in 1..2
         /\ state.state # "pending"
BY DEF StagesLeft, FinalStates, PlacedState, Stages, StageOffset

LEMMA StagesLeftAfter ==
  ASSUME NEW state, NEW g \in Stages, state.state \in Successors(g),
         state.state \in PlacedStates =>
           /\ state.stage = NextStage(g) /\ state.state = PlacedState(state.stage)
           /\ g # "gale2"
  PROVE  /\ StagesLeft(state) \in 0..2
         /\ StagesLeft(state) <= 2 - StageOffset(g)
         /\ state.state \notin FinalStates =>
              state.state # "pending" /\ StagesLeft(state) \in 1..2
<1>1. CASE state.state \in FinalStates
  BY <1>1 DEF StagesLeft, Stages, StageOffset
<1>2. CASE state.state \notin FinalStates
  <2>1. state.state \in PlacedStates
    BY <1>2 DEF Successors, PlacedState, NextStage, Stages, FinalStates, PlacedStates
  <2>2. /\ g \in {"initial", "gale1"} /\ state.stage = NextStage(g)
        /\ state.stage \in Stages /\ state.state = PlacedState(state.stage)
    BY <2>1 DEF NextStage, Stages
  <2>3. StagesLeft(state) = 2 - StageOffset(g) /\ StagesLeft(state) \in 1..2
    BY <2>2, StagesLeftPlaced DEF NextStage, StageOffset
  <2> QED
    BY <1>2, <2>1, <2>3 DEF PlacedStates
<1> QED
  BY <1>1, <1>2

\* The bound, from what the inductive invariant says of the local state.
LEMMA SafeAwaits == ASSUME Safe PROVE AwaitsAreBounded
<1> SUFFICES ASSUME NEW t \in Task
             PROVE  AwaitsLeft(t) \in 0..32 /\ (AwaitsLeft(t) = 0 <=> pc[t] = "free")
  BY DEF AwaitsAreBounded
<1>1. pc[t] \in Labels /\ TaskAgrees(t)
  BY DEF Safe, TypeOK, SupervisorTypeOK, Agreement
<1>2. CASE pc[t] \in {"free", "limit", "rejectWrite", "rejectTell", "idem", "receivedTell",
                      "fireWrite", "expiredTell", "pairTell", "errorWrite", "completeTell"}
  BY <1>2, AwaitsAt DEF AwaitsLeft
<1>3. CASE pc[t] = "armed"
  <2>1. CASE Fresh(t)
    BY <1>3, <2>1, AwaitsAt DEF AwaitsLeft, Fresh
  <2>2. CASE InStep(t)
    BY <1>3, <2>2, AwaitsAt, StagesLeftPlaced DEF AwaitsLeft, InStep
  <2> QED
    BY <1>1, <1>3, <2>1, <2>2 DEF TaskAgrees
<1>4. CASE pc[t] \in {"place", "stageWrite", "placedTell", "waiting"}
  <2>1. InStep(t)
    BY <1>1, <1>4 DEF TaskAgrees
  <2> QED
    BY <1>4, <2>1, AwaitsAt, StagesLeftPlaced DEF AwaitsLeft, InStep
<1>5. CASE pc[t] \in {"resultWrite", "stateWrite", "dailyWrite", "resultTell"}
  <2>1. Advanced(t)
    BY <1>1, <1>5 DEF TaskAgrees
  <2> QED
    BY <1>5, <2>1, AwaitsAt, StagesLeftAfter DEF AwaitsLeft, Advanced, InStep
<1> QED
  BY <1>1, <1>2, <1>3, <1>4, <1>5 DEF Labels

\* What the labels of a task say of its local state.
LEMMA AwaitsInStep ==
  ASSUME Safe, NEW t \in Task,
         pc[t] \in {"place", "pairTell", "stageWrite", "placedTell", "waiting"}
  PROVE  /\ bet[t].stage \in Stages
         /\ StagesLeft(st[t]) = 3 - StageOffset(bet[t].stage)
         /\ StagesLeft(st[t]) \in 1..3
<1>1. InStep(t) /\ bet[t].stage = st[t].stage
  BY DEF Safe, Agreement, TaskAgrees
<1> QED
  BY <1>1, StagesLeftPlaced DEF InStep

LEMMA AwaitsAdvanced ==
  ASSUME Safe, NEW t \in Task,
         pc[t] \in {"resultWrite", "stateWrite", "dailyWrite", "resultTell"}
  PROVE  /\ bet[t].stage \in Stages
         /\ StagesLeft(st[t]) \in 0..2
         /\ StagesLeft(st[t]) <= 2 - StageOffset(bet[t].stage)
         /\ st[t].state \notin FinalStates =>
              st[t].state # "pending" /\ StagesLeft(st[t]) \in 1..2
<1>1. Advanced(t)
  BY DEF Safe, Agreement, TaskAgrees
<1> QED
  BY <1>1, StagesLeftAfter DEF Advanced, InStep

\* A completed await leaves a task fewer of them.
LEMMA OwnAwait ==
  ASSUME Safe, Safe', NEW t \in Task,
         Step(t) \/ BrokerAnswers(t) \/ DbFails(t) \/ Cancelled(t)
  PROVE  AwaitsLeft(t)' < AwaitsLeft(t)
<1>1. SupervisorTypeOK /\ TaskAgrees(t) /\ SupervisorTypeOK' /\ TaskAgrees(t)'
  BY DEF Safe, TypeOK, Agreement
<1>2. /\ AwaitsLeft(t) \in 0..32
      /\ AwaitsLeft(t) = 0 <=> pc[t] = "free"
  BY SafeAwaits DEF AwaitsAreBounded
<1>3. ASSUME End(t), pc[t] # "free" PROVE AwaitsLeft(t)' < AwaitsLeft(t)
  <2>1. pc'[t] = "free"
    BY <1>1, <1>3, EndFacts
  <2> QED
    BY <1>2, <1>3, <2>1, AwaitsAt DEF AwaitsLeft
<1>4. ASSUME NEW label, Goto(t, label) PROVE pc'[t] = label
  BY <1>1, <1>4 DEF Goto, SupervisorTypeOK
<1>5. CASE \/ RejectTell(t) \/ DuplicateAtIntake(t) \/ PlaceRaises(t) \/ CompleteTell(t)
           \/ DbFails(t) \/ Cancelled(t)
  BY <1>3, <1>5
     DEF RejectTell, DuplicateAtIntake, PlaceRaises, CompleteTell, DbFails, DbLabels, Cancelled
<1>6. CASE CheckDailyLimit(t) \/ RejectWrite(t) \/ StartCascade(t) \/ ReceivedTell(t)
  <2>1. \/ pc[t] = "limit" /\ pc'[t] \in {"rejectWrite", "idem"}
        \/ pc[t] = "rejectWrite" /\ pc'[t] = "rejectTell"
        \/ pc[t] = "idem" /\ pc'[t] = "receivedTell"
        \/ pc[t] = "receivedTell" /\ pc'[t] = "armed" /\ Fresh(t) /\ st'[t] = st[t]
    BY <1>1, <1>4, <1>6
       DEF CheckDailyLimit, RejectWrite, StartCascade, ReceivedTell, TaskAgrees
  <2> QED
    BY <2>1, AwaitsAt DEF AwaitsLeft, Fresh
<1>7. CASE FireEvent(t) \/ FireGale(t)
  <2>1. \/ pc[t] = "armed" /\ st[t].state = "pending" /\ pc'[t] = "fireWrite"
        \/ pc[t] = "armed" /\ st[t].state # "pending" /\ pc'[t] = "place" /\ st'[t] = st[t]
    BY <1>4, <1>7 DEF FireEvent, FireGale, Due, AcceptsFire
  <2>2. pc'[t] = "place" => StagesLeft(st[t]) \in 1..3
    BY <1>1, <2>1, StagesLeftPlaced DEF TaskAgrees, Fresh, InStep
  <2> QED
    BY <2>1, <2>2, AwaitsAt DEF AwaitsLeft
<1>8. CASE FireWrite(t) \/ ExpiredTell(t)
  <2>1. \/ pc[t] = "fireWrite" /\ pc'[t] \in {"expiredTell", "place"}
        \/ pc[t] = "expiredTell" /\ pc'[t] = "completeTell"
    BY <1>4, <1>8 DEF FireWrite, ExpiredTell
  <2>2. pc'[t] = "place" => StagesLeft(st'[t]) \in 1..3
    BY <1>1, StagesLeftPlaced DEF TaskAgrees, InStep
  <2> QED
    BY <2>1, <2>2, AwaitsAt DEF AwaitsLeft
<1>9. CASE PlaceOk(t) \/ PlaceUnsupported(t) \/ PairTell(t) \/ ErrorWrite(t)
  <2>1. \/ pc[t] = "place" /\ pc'[t] = "stageWrite" /\ st'[t] = st[t]
        \/ pc[t] = "place" /\ pc'[t] = "pairTell"
        \/ pc[t] = "pairTell" /\ pc'[t] = "errorWrite"
        \/ pc[t] = "errorWrite" /\ pc'[t] = "completeTell"
    BY <1>4, <1>9 DEF PlaceOk, PlaceUnsupported, PairTell, ErrorWrite
  <2>2. pc[t] = "place" => StagesLeft(st[t]) \in 1..3
    BY AwaitsInStep
  <2> QED
    BY <2>1, <2>2, AwaitsAt DEF AwaitsLeft
<1>10. CASE StageWrite(t)
  <2>1. CASE StageExists(t[1], bet[t].stage, bet[t].at)
    BY <1>3, <1>10, <2>1 DEF StageWrite
  <2>2. CASE ~StageExists(t[1], bet[t].stage, bet[t].at)
    <3>1. pc[t] = "stageWrite" /\ pc'[t] = "placedTell" /\ st'[t] = st[t]
      BY <1>4, <1>10, <2>2 DEF StageWrite
    <3>2. StagesLeft(st[t]) \in 1..3
      BY <3>1, AwaitsInStep
    <3> QED
      BY <3>1, <3>2, AwaitsAt DEF AwaitsLeft
  <2> QED
    BY <2>1, <2>2
<1>11. CASE PlacedTell(t)
  <2>1. pc[t] = "placedTell" /\ pc'[t] = "waiting" /\ st'[t] = st[t]
    BY <1>4, <1>11 DEF PlacedTell
  <2>2. StagesLeft(st[t]) \in 1..3
    BY <2>1, AwaitsInStep
  <2> QED
    BY <2>1, <2>2, AwaitsAt DEF AwaitsLeft
<1>12. CASE WaitTimesOut(t) \/ BrokerAnswers(t)
  <2>1. /\ pc[t] = "waiting" /\ pc'[t] = "resultWrite"
        /\ bet'[t].stage = bet[t].stage
    BY <1>1, <1>4, <1>12 DEF WaitTimesOut, BrokerAnswers, GotResult, SupervisorTypeOK, Bet
  <2>2. StagesLeft(st[t]) = 3 - StageOffset(bet[t].stage) /\ bet[t].stage \in Stages
    BY <2>1, AwaitsInStep
  <2>3. /\ st'[t].state \in Successors(bet'[t].stage)
        /\ st'[t].state \in PlacedStates =>
             /\ st'[t].state = PlacedState(st'[t].stage)
             /\ st'[t].stage = NextStage(bet'[t].stage) /\ bet'[t].stage # "gale2"
    BY <1>1, <2>1 DEF TaskAgrees, Advanced, InStep
  <2>4. StagesLeft(st'[t]) \in 0..2 /\ StagesLeft(st'[t]) <= 2 - StageOffset(bet[t].stage)
    BY <2>1, <2>2, <2>3, StagesLeftAfter
  <2>5. StageOffset(bet[t].stage) \in 0..2
    BY <2>2 DEF Stages, StageOffset
  <2>6. 9 * StagesLeft(st'[t]) + 5 < 9 * StagesLeft(st[t]) - 3
    BY <2>2, <2>4, <2>5
  <2> QED
    BY <2>1, <2>6, AwaitsAt DEF AwaitsLeft
<1>13. CASE ResultWrite(t) \/ StateWrite(t) \/ DailyWrite(t) \/ ResultTell(t)
  <2>1. /\ st'[t] = st[t]
        /\ \/ pc[t] = "resultWrite" /\ pc'[t] = "stateWrite"
           \/ pc[t] = "stateWrite" /\ pc'[t] = "dailyWrite"
           \/ pc[t] = "dailyWrite" /\ pc'[t] \in {"completeTell", "resultTell"}
           \/ pc[t] = "resultTell" /\ pc'[t] = "completeTell"
           \/ pc[t] = "resultTell" /\ pc'[t] = "armed" /\ st[t].state \notin FinalStates
    BY <1>4, <1>13 DEF ResultWrite, StateWrite, DailyWrite, ResultTell
  <2>2. /\ StagesLeft(st[t]) \in 0..2
        /\ st[t].state \notin FinalStates => st[t].state # "pending"
    BY <2>1, AwaitsAdvanced
  <2> QED
    BY <2>1, <2>2, AwaitsAt DEF AwaitsLeft
<1> QED
  BY <1>5, <1>6, <1>7, <1>8, <1>9, <1>10, <1>11, <1>12, <1>13 DEF Step

\* The step of one task leaves the others where they are.
LEMMA OthersAwait ==
  ASSUME Safe, NEW t \in Task, NEW u \in Task, u # t,
         Step(t) \/ BrokerAnswers(t) \/ DbFails(t) \/ Cancelled(t)
  PROVE  pc'[u] = pc[u] /\ st'[u] = st[u]
<1>1. SupervisorTypeOK
  BY DEF Safe, TypeOK
<1>2. ASSUME NEW label, Goto(t, label) PROVE pc'[u] = pc[u]
  BY <1>1, <1>2 DEF Goto, SupervisorTypeOK
<1>3. ASSUME NEW state, st' = [st EXCEPT ![t] = state] PROVE st'[u] = st[u]
  BY <1>1, <1>3 DEF SupervisorTypeOK
<1>4. ASSUME End(t) PROVE pc'[u] = pc[u] /\ st'[u] = st[u]
  BY <1>1, <1>4, EndFacts
<1>5. CASE \/ CheckDailyLimit(t) \/ RejectWrite(t) \/ ReceivedTell(t) \/ FireGale(t)
           \/ FireWrite(t) \/ ExpiredTell(t) \/ PlaceOk(t) \/ PlaceUnsupported(t)
           \/ ErrorWrite(t) \/ PlacedTell(t) \/ ResultWrite(t) \/ StateWrite(t)
           \/ DailyWrite(t) \/ ResultTell(t)
  BY <1>2, <1>5
     DEF CheckDailyLimit, RejectWrite, ReceivedTell, FireGale, FireWrite, ExpiredTell,
         PlaceOk, PlaceUnsupported, ErrorWrite, PlacedTell, ResultWrite, StateWrite,
         DailyWrite, ResultTell
<1>6. CASE StartCascade(t) \/ FireEvent(t) \/ PairTell(t) \/ WaitTimesOut(t) \/ BrokerAnswers(t)
  BY <1>2, <1>3, <1>6
     DEF StartCascade, FireEvent, PairTell, WaitTimesOut, BrokerAnswers, GotResult
<1>7. CASE \/ RejectTell(t) \/ DuplicateAtIntake(t) \/ PlaceRaises(t) \/ CompleteTell(t)
           \/ DbFails(t) \/ Cancelled(t)
  BY <1>4, <1>7
     DEF RejectTell, DuplicateAtIntake, PlaceRaises, CompleteTell, DbFails, Cancelled
<1>8. CASE StageWrite(t)
  BY <1>2, <1>4, <1>8 DEF StageWrite
<1> QED
  BY <1>5, <1>6, <1>7, <1>8 DEF Step

\* A task never stays at an await that has completed.
LEMMA OwnMoves ==
  ASSUME Safe, NEW t \in Task,
         Step(t) \/ BrokerAnswers(t) \/ DbFails(t) \/ Cancelled(t)
  PROVE  pc'[t] # pc[t]
<1>1. SupervisorTypeOK
  BY DEF Safe, TypeOK
<1>2. ASSUME NEW label, Goto(t, label), pc[t] # label PROVE pc'[t] # pc[t]
  BY <1>1, <1>2 DEF Goto, SupervisorTypeOK
<1>3. ASSUME End(t), pc[t] # "free" PROVE pc'[t] # pc[t]
  BY <1>1, <1>3, EndFacts
<1>4. CASE \/ CheckDailyLimit(t) \/ RejectWrite(t) \/ StartCascade(t) \/ ReceivedTell(t)
           \/ FireEvent(t) \/ FireGale(t) \/ FireWrite(t) \/ ExpiredTell(t) \/ PlaceOk(t)
           \/ PlaceUnsupported(t) \/ PairTell(t) \/ ErrorWrite(t)
  BY <1>2, <1>4
     DEF CheckDailyLimit, RejectWrite, StartCascade, ReceivedTell, FireEvent, FireGale, Due,
         FireWrite, ExpiredTell, PlaceOk, PlaceUnsupported, PairTell, ErrorWrite
<1>5. CASE \/ PlacedTell(t) \/ WaitTimesOut(t) \/ BrokerAnswers(t) \/ ResultWrite(t)
           \/ StateWrite(t) \/ DailyWrite(t) \/ ResultTell(t)
  BY <1>2, <1>5
     DEF PlacedTell, WaitTimesOut, BrokerAnswers, GotResult, ResultWrite, StateWrite,
         DailyWrite, ResultTell
<1>6. CASE \/ RejectTell(t) \/ DuplicateAtIntake(t) \/ PlaceRaises(t) \/ CompleteTell(t)
           \/ DbFails(t) \/ Cancelled(t)
  BY <1>3, <1>6
     DEF RejectTell, DuplicateAtIntake, PlaceRaises, CompleteTell, DbFails, DbLabels, Cancelled
<1>7. CASE StageWrite(t)
  BY <1>2, <1>3, <1>7 DEF StageWrite
<1> QED
  BY <1>4, <1>5, <1>6, <1>7 DEF Step

\* What AwaitsRunOut says of one step.
FewerAwaits ==
  \A t \in Task : pc[t] # "free" =>
    /\ pc'[t] # pc[t] => AwaitsLeft(t)' < AwaitsLeft(t)
    /\ pc'[t] = pc[t] => AwaitsLeft(t)' = AwaitsLeft(t)

LEMMA NextAwait == ASSUME Safe, Safe', [Next]_vars PROVE FewerAwaits
<1>1. ASSUME NEW t \in Task, pc'[t] = pc[t], st'[t] = st[t] PROVE AwaitsLeft(t)' = AwaitsLeft(t)
  BY <1>1 DEF AwaitsLeft
<1>2. CASE \E t \in Task :
             SupervisorStep(t) \/ Answer(t) \/ DatabaseError(t) \/ Cancel(t)
  <2>1. PICK t \in Task : Step(t) \/ BrokerAnswers(t) \/ DbFails(t) \/ Cancelled(t)
    BY <1>2 DEF SupervisorStep, Answer, DatabaseError, Cancel
  <2>2. AwaitsLeft(t)' < AwaitsLeft(t) /\ AwaitsLeft(t) \in 0..32
    BY <2>1, OwnAwait, SafeAwaits DEF AwaitsAreBounded
  <2>3. pc'[t] # pc[t]
    BY <2>1, OwnMoves
  <2>4. ASSUME NEW u \in Task, u # t PROVE pc'[u] = pc[u] /\ AwaitsLeft(u)' = AwaitsLeft(u)
    BY <1>1, <2>1, <2>4, OthersAwait
  <2> QED
    BY <2>2, <2>3, <2>4 DEF FewerAwaits
<1>3. ASSUME NEW t \in Task, Spawn(t) PROVE FewerAwaits
  <2>1. pc[t] = "free" /\ UNCHANGED st /\ \A u \in Task : u # t => pc'[u] = pc[u]
    BY <1>3, GotoFacts DEF Spawn, Safe, TypeOK, Labels
  <2> QED
    BY <1>1, <2>1 DEF FewerAwaits
<1>4. CASE \E s \in Signals, k \in Slots : AdoptRow(s, k)
  BY <1>3, <1>4 DEF AdoptRow, Task
<1>5. CASE \E k \in Slots : Dequeue(k)
  <2>1. PICK k \in Slots : queue # <<>> /\ Spawn(<<Head(queue), k>>)
    BY <1>5 DEF Dequeue
  <2>2. Head(queue) \in Signals
    BY <2>1 DEF Safe, TypeOK
  <2> QED
    BY <1>3, <2>1, <2>2 DEF Task
<1>6. CASE \E k \in Slots : TimeoutAdopt(k)
  <2>1. PICK k \in Slots : timeout.at = "reread" /\ Spawn(<<timeout.sig, k>>)
    BY <1>6 DEF TimeoutAdopt
  <2>2. timeout.sig \in Signals
    BY <2>1 DEF Safe, Phases
  <2> QED
    BY <1>3, <2>1, <2>2 DEF Task
<1>7. CASE Crash
  <2>1. \A t \in Task : pc'[t] = "free"
    BY <1>7 DEF Crash
  <2>2. \A t \in Task : pc[t] # "free" => AwaitsLeft(t) \in 1..32
    BY SafeAwaits DEF AwaitsAreBounded
  <2>3. \A t \in Task : AwaitsLeft(t)' = 0
    BY <2>1, AwaitsAt DEF AwaitsLeft
  <2> QED
    BY <2>1, <2>2, <2>3 DEF FewerAwaits
<1>8. ASSUME UNCHANGED <<pc, st>> PROVE FewerAwaits
  BY <1>1, <1>8 DEF FewerAwaits
<1>9. CASE \E s \in Signals :
             Deliver(s) \/ Upsert(s) \/ UpsertFails(s) \/ Put(s) \/ TimeoutRow(s)
  BY <1>8, <1>9
     DEF Deliver, Upsert, UpsertFails, Put, TimeoutRow, supervisorVars, taskVars
<1>10. CASE \/ QueryActive \/ TimeoutRead \/ TimeoutWrite \/ StartScheduler
            \/ Tick \/ Stop \/ Boot \/ UNCHANGED vars
  BY <1>8, <1>10
     DEF QueryActive, TimeoutRead, TimeoutWrite, StartScheduler, Tick, Stop, Boot, vars,
         supervisorVars, taskVars
<1> QED
  BY <1>2, <1>4, <1>5, <1>6, <1>7, <1>9, <1>10 DEF Next

\* A supervisor makes at most 32 awaits, so no cascade goes on for ever.
THEOREM CascadesRunOut == Spec => []AwaitsAreBounded /\ AwaitsRunOut
<1>1. Safe => AwaitsAreBounded
  BY SafeAwaits
<1>2. Safe /\ Safe' /\ [Next]_vars => [FewerAwaits]_vars
  BY NextAwait
<1>3. Spec => [][FewerAwaits]_vars
  BY <1>2, SafeInvariant, PTL DEF Spec
<1> QED
  BY <1>1, <1>3, SafeInvariant, PTL DEF AwaitsRunOut, FewerAwaits

-----------------------------------------------------------------------------
(* The martingale that was promised.                                       *)

\* A step of Martingale, or a stutter.
Plays == Promise!Play \/ UNCHANGED <<signals, trades>>

-----------------------------------------------------------------------------
(* The moves.                                                              *)

\* A pending signal becomes placed_initial or ends in error.
LEMMA PendingPlays ==
  ASSUME NEW x \in Signals, signals[x] = "pending",
         NEW to \in {"placed_initial", "error"},
         signals' = [signals EXCEPT ![x] = to], UNCHANGED trades
  PROVE  Plays
BY DEF Plays, Promise!Play, Promise!Commit, Promise!Finish, Promise!Move

\* A result moves a placed signal to the next stage or to an end.
LEMMA SuccessorPlays ==
  ASSUME NEW x \in Signals, NEW g \in Stages, signals[x] = PlacedState(g),
         NEW to \in Successors(g),
         signals' = [signals EXCEPT ![x] = to], UNCHANGED trades
  PROVE  Plays
<1>1. CASE to \in {"done_win", "error"}
  <2>1. g \in Promise!Stage /\ Promise!At[g] = PlacedState(g)
    BY DEF Promise!Stage, Promise!At, PlacedState, Stages
  <2>2. Promise!Move(x, Promise!At[g], to)
    BY <2>1 DEF Promise!Move
  <2> QED
    BY <1>1, <2>1, <2>2 DEF Plays, Promise!Play, Promise!Finish
<1>2. CASE g = "gale2" /\ to = "done_loss"
  BY <1>2 DEF Plays, Promise!Play, Promise!Finish, Promise!Move, PlacedState
<1>3. CASE g # "gale2" /\ to = PlacedState(NextStage(g))
  <2>1. \/ signals[x] = "placed_initial" /\ to = "placed_gale1"
        \/ signals[x] = "placed_gale1" /\ to = "placed_gale2"
    BY <1>3 DEF PlacedState, NextStage, Stages
  <2>2. Promise!Escalate(x)
    BY <2>1 DEF Promise!Escalate, Promise!Move
  <2> QED
    BY <2>2 DEF Plays, Promise!Play
<1> QED
  BY <1>1, <1>2, <1>3 DEF Successors

\* An order goes out for the stage that the status names, which has none yet.
LEMMA ExecutedPlays ==
  ASSUME TypeOK, NEW t \in Task, Executed(t), UNCHANGED signals,
         AtStage(t, bet[t].stage, 0)
  PROVE  Plays
<1> DEFINE x == t[1]
           g == bet[t].stage
<1>1. x \in Signals /\ g \in Promise!Stage /\ g \in Stages
  BY TaskSignal DEF AtStage, Promise!Stage, Stages
<1>2. signals[x] = Promise!At[g] /\ trades[x][g] = 0
  BY <1>1 DEF AtStage, Promise!At, PlacedState, Stages
<1>3. g \in DOMAIN Promise!Before => trades[x][Promise!Before[g]] = 1
  BY <1>1 DEF AtStage, Promise!Before, PreviousStage, Stages
<1>4. trades' = [trades EXCEPT ![x][g] = 1]
  BY <1>1, <1>2 DEF Executed, TypeOK, SupervisorTypeOK
<1>5. Promise!BetOn(x, g)
  BY <1>2, <1>3, <1>4 DEF Promise!BetOn
<1> QED
  BY <1>1, <1>5 DEF Plays, Promise!Play

\* update_signal_state of a row that exists is a single assignment.
LEMMA UpdateMoves ==
  ASSUME TypeOK, NEW x \in Signals, NEW status, NEW why,
         UpdateSignalState(x, status, why), signals[x] # "none"
  PROVE  signals' = [signals EXCEPT ![x] = status]
BY DEF UpdateSignalState, TypeOK, StoreTypeOK

-----------------------------------------------------------------------------
(* The actions.                                                            *)

\* upsert_signal accepts a new signal, or changes nothing.
LEMMA UpsertPlays ==
  ASSUME Safe, NEW s \in Signals, Upsert(s) PROVE Plays
BY DEF Upsert, UpsertSignal, InsertWins, Plays, Promise!Play, Promise!Accept,
   Promise!Move

\* The limit rejects a pending signal, or one that was adopted.
LEMMA RejectPlays ==
  ASSUME Safe, NEW t \in Task, RejectWrite(t) PROVE Plays
<1>1. t[1] \in Signals /\ TypeOK /\ TaskAgrees(t)
  BY TaskSignal DEF Safe, Agreement
<1>2. signals[t[1]] \in {"pending"} \union PlacedStates
  BY <1>1 DEF RejectWrite, TaskAgrees
<1>3. signals' = [signals EXCEPT ![t[1]] = "error"] /\ UNCHANGED trades
  BY <1>1, <1>2, UpdateMoves DEF RejectWrite, PlacedStates
<1>4. CASE signals[t[1]] = "pending"
  BY <1>1, <1>3, <1>4, PendingPlays
<1>5. ASSUME NEW g \in Stages, signals[t[1]] = PlacedState(g) PROVE Plays
  BY <1>1, <1>3, <1>5, SuccessorPlays DEF Successors
<1> QED
  BY <1>2, <1>4, <1>5 DEF PlacedStates, PlacedState, Stages

\* The first write of a cascade commits the signal, or finishes it.
LEMMA FireWritePlays ==
  ASSUME Safe, NEW t \in Task, FireWrite(t) PROVE Plays
<1>1. t[1] \in Signals /\ TypeOK /\ TaskAgrees(t)
  BY TaskSignal DEF Safe, Agreement
<1>2. signals[t[1]] = "pending" /\ st[t].state \in {"placed_initial", "error"}
  BY <1>1 DEF FireWrite, TaskAgrees
<1>3. signals' = [signals EXCEPT ![t[1]] = st[t].state] /\ UNCHANGED trades
  BY <1>1, <1>2, UpdateMoves DEF FireWrite
<1> QED
  BY <1>1, <1>2, <1>3, PendingPlays

\* A refused pair finishes it.
LEMMA ErrorWritePlays ==
  ASSUME Safe, NEW t \in Task, ErrorWrite(t) PROVE Plays
<1>1. t[1] \in Signals /\ TypeOK /\ TaskAgrees(t)
  BY TaskSignal DEF Safe, Agreement
<1>2. signals[t[1]] \in PlacedStates /\ st[t].state = "error"
  BY <1>1 DEF ErrorWrite, TaskAgrees
<1>3. signals' = [signals EXCEPT ![t[1]] = "error"] /\ UNCHANGED trades
  BY <1>1, <1>2, UpdateMoves DEF ErrorWrite, PlacedStates
<1>4. ASSUME NEW g \in Stages, signals[t[1]] = PlacedState(g) PROVE Plays
  BY <1>1, <1>3, <1>4, SuccessorPlays DEF Successors
<1> QED
  BY <1>2, <1>4 DEF PlacedStates, PlacedState, Stages

\* The write of a result escalates or finishes.
LEMMA StateWritePlays ==
  ASSUME Safe, NEW t \in Task, StateWrite(t) PROVE Plays
<1>1. t[1] \in Signals /\ TypeOK /\ TaskAgrees(t)
  BY TaskSignal DEF Safe, Agreement
<1>2. /\ bet[t].stage \in Stages
      /\ signals[t[1]] = PlacedState(bet[t].stage)
      /\ st[t].state \in Successors(bet[t].stage)
  BY <1>1 DEF StateWrite, TaskAgrees, Advanced, AtStage
<1>3. signals[t[1]] # "none"
  BY <1>2 DEF PlacedState, Stages
<1>4. signals' = [signals EXCEPT ![t[1]] = st[t].state] /\ UNCHANGED trades
  BY <1>1, <1>3, UpdateMoves DEF StateWrite
<1> QED
  BY <1>1, <1>2, <1>4, SuccessorPlays

\* An order goes out when broker.place returns, before it raises, or after its
\* task was cancelled.
LEMMA PlacePlays ==
  ASSUME Safe, NEW t \in Task, PlaceOk(t) \/ PlaceRaises(t) \/ Cancelled(t)
  PROVE  Plays
<1>1. TypeOK /\ TaskAgrees(t) /\ UNCHANGED signals
  BY DEF Safe, Agreement, PlaceOk, PlaceRaises, Cancelled, storeVars
<1>2. pc[t] = "place" => AtStage(t, bet[t].stage, 0)
  BY <1>1 DEF TaskAgrees
<1>3. UNCHANGED trades \/ (pc[t] = "place" /\ Executed(t))
  BY DEF PlaceOk, PlaceRaises, Cancelled
<1> QED
  BY <1>1, <1>2, <1>3, ExecutedPlays DEF Plays

\* The write of record_timeout escalates or finishes, too.
LEMMA TimeoutWritePlays ==
  ASSUME Safe, TimeoutWrite PROVE Plays
<1>1. PICK s \in Signals : s = timeout.sig /\ snapshot[s] # "none"
  BY DEF TimeoutWrite, Safe, Phases
<1>2. /\ signals[s] = snapshot[s] /\ signals[s] \in PlacedStates
      /\ timeout.status \in Successors(StageOf(signals[s]))
  BY <1>1 DEF TimeoutWrite, Safe, Exclusive, Phases
<1>3. signals' = [signals EXCEPT ![s] = timeout.status] /\ UNCHANGED trades
  BY <1>1, <1>2, UpdateMoves DEF TimeoutWrite, Safe, PlacedStates
<1>4. StageOf(signals[s]) \in Stages /\ signals[s] = PlacedState(StageOf(signals[s]))
  BY <1>2 DEF StageOf, PlacedState, PlacedStates, Stages
<1> QED
  BY <1>2, <1>3, <1>4, SuccessorPlays

\* Every action of a supervisor.
LEMMA StepPlays ==
  ASSUME Safe, NEW t \in Task, Step(t) PROVE Plays
<1>1. CASE \/ RejectWrite(t) \/ FireWrite(t) \/ ErrorWrite(t) \/ StateWrite(t)
           \/ PlaceOk(t) \/ PlaceRaises(t)
  BY <1>1, RejectPlays, FireWritePlays, ErrorWritePlays, StateWritePlays, PlacePlays
<1>2. CASE StageWrite(t)
  BY <1>2 DEF StageWrite, RecordStagePlaced, storeVars, Plays
<1>3. CASE ResultWrite(t)
  BY <1>3 DEF ResultWrite, RecordStageResult, Plays
<1>4. CASE DailyWrite(t)
  BY <1>4 DEF DailyWrite, UpdateDailySummary, Plays
<1>5. CASE WaitTimesOut(t)
  BY <1>5 DEF WaitTimesOut, GotResult, storeVars, Plays
<1>6. CASE CheckDailyLimit(t) \/ RejectTell(t) \/ DuplicateAtIntake(t)
           \/ StartCascade(t) \/ ReceivedTell(t) \/ FireEvent(t) \/ FireGale(t)
  BY <1>6 DEF CheckDailyLimit, RejectTell, DuplicateAtIntake, StartCascade,
     ReceivedTell, FireEvent, FireGale, storeVars, Plays
<1>7. CASE ExpiredTell(t) \/ PlaceUnsupported(t) \/ PairTell(t) \/ PlacedTell(t)
           \/ ResultTell(t) \/ CompleteTell(t)
  BY <1>7 DEF ExpiredTell, PlaceUnsupported, PairTell, PlacedTell, ResultTell,
     CompleteTell, storeVars, Plays
<1> QED
  BY <1>1, <1>2, <1>3, <1>4, <1>5, <1>6, <1>7 DEF Step

\* Every action of the system.
LEMMA NextPlays ==
  ASSUME Safe, [Next]_vars PROVE Plays
<1>1. ASSUME NEW t \in Task,
             SupervisorStep(t) \/ Answer(t) \/ DatabaseError(t) \/ Cancel(t)
      PROVE  Plays
  <2>1. CASE Step(t)
    BY <2>1, StepPlays
  <2>2. CASE BrokerAnswers(t) \/ DbFails(t)
    BY <2>2 DEF BrokerAnswers, GotResult, DbFails, storeVars, Plays
  <2> QED
    BY <1>1, <2>1, <2>2, PlacePlays DEF SupervisorStep, Answer, DatabaseError, Cancel
<1>2. ASSUME NEW s \in Signals,
             Deliver(s) \/ UpsertFails(s) \/ Put(s) \/ TimeoutRow(s)
      PROVE  Plays
  BY <1>2 DEF Deliver, UpsertFails, Put, TimeoutRow, supervisorVars, storeVars, Plays
<1>3. ASSUME NEW s \in Signals, NEW k \in Slots, AdoptRow(s, k) PROVE Plays
  BY <1>3 DEF AdoptRow, storeVars, Plays
<1>4. ASSUME NEW k \in Slots, Dequeue(k) \/ TimeoutAdopt(k) PROVE Plays
  BY <1>4 DEF Dequeue, TimeoutAdopt, storeVars, Plays
<1>5. CASE QueryActive \/ TimeoutRead \/ StartScheduler \/ Tick \/ Stop
           \/ Crash \/ Boot \/ UNCHANGED vars
  BY <1>5 DEF QueryActive, TimeoutRead, StartScheduler, Tick, Stop, Crash, Boot, vars,
     supervisorVars, storeVars, Plays
<1> QED
  BY <1>1, <1>2, <1>3, <1>4, <1>5, UpsertPlays, TimeoutWritePlays DEF Next

\* The copier implements the martingale: whatever crashes, repeats, overlaps and
\* fails, its statuses and orders are those of the abstract specification.
THEOREM CopierImplementsMartingale == Spec => Implements
<1>1. Init => Promise!Start
  BY DEF Init, StoreInit, SupervisorInit, Promise!Start, Promise!Stage, Stages
<1>2. Safe /\ [Next]_vars => [Promise!Play]_<<signals, trades>>
  BY NextPlays DEF Plays
<1>3. Spec => Promise!Start /\ [][Promise!Play]_<<signals, trades>>
  BY <1>1, <1>2, SafeInvariant, PTL DEF Spec
<1> QED
  BY <1>3 DEF Implements, Promise!MSpec, Promise!mvars

-----------------------------------------------------------------------------
(* The life of the process.                                                *)

\* A step of the life of the process, or a stutter.
Lives == Life!Live \/ UNCHANGED <<proc, Cardinality(Alive)>>

\* What is needed of the supervisors: that they can be counted.
Countable == IsFiniteSet(Alive)

\* A step that neither starts nor ends a supervisor.
LEMMA SameAlive ==
  ASSUME Countable, UNCHANGED proc, \A t \in Task : pc'[t] = "free" <=> pc[t] = "free"
  PROVE  Countable' /\ Lives
<1>1. Alive' = Alive
  BY DEF Alive
<1> QED
  BY <1>1 DEF Countable, Lives

\* A turn of the process, which leaves the supervisors alone.
LEMMA TurnLives ==
  ASSUME Countable, UNCHANGED pc,
         \/ proc = "boot" /\ proc' = "recovering"
         \/ proc = "recovering" /\ proc' = "running"
         \/ proc \in {"boot", "recovering", "running"} /\ proc' = "stopping"
         \/ proc = "down" /\ proc' = "boot"
  PROVE  Countable' /\ Lives
<1>1. Alive' = Alive
  BY DEF Alive
<1> QED
  BY <1>1
     DEF Countable, Lives, Life!Live, Life!Recover, Life!Serve, Life!Stop, Life!Restart,
         Life!Turn

\* A supervisor starts.
LEMMA SpawnLives ==
  ASSUME Safe, Countable, NEW t \in Task, Spawn(t), UNCHANGED proc,
         proc \in {"recovering", "running"}
  PROVE  Countable' /\ Lives
<1>1. /\ pc[t] = "free" /\ pc'[t] = "limit" /\ \A u \in Task : u # t => pc'[u] = pc[u]
  BY GotoFacts DEF Spawn, Safe, TypeOK, Labels
<1>2. Alive' = Alive \union {t} /\ t \notin Alive
  BY <1>1 DEF Alive
<1>3. IsFiniteSet(Alive') /\ Cardinality(Alive') = Cardinality(Alive) + 1
  BY <1>2, FS_AddElement DEF Countable
<1> QED
  BY <1>3 DEF Countable, Lives, Life!Live, Life!Arrive

\* A supervisor ends.
LEMMA EndLives ==
  ASSUME Safe, Countable, NEW t \in Task, End(t), pc[t] # "free", UNCHANGED proc
  PROVE  Countable' /\ Lives
<1>1. pc'[t] = "free" /\ \A u \in Task : u # t => pc'[u] = pc[u]
  BY EndFacts DEF Safe, TypeOK
<1>2. Alive' = Alive \ {t} /\ t \in Alive
  BY <1>1 DEF Alive
<1>3. IsFiniteSet(Alive') /\ Cardinality(Alive') = Cardinality(Alive) - 1
  BY <1>2, FS_RemoveElement DEF Countable
<1>4. Cardinality(Alive) \in Nat /\ Cardinality(Alive') \in Nat
  BY <1>3, FS_CardinalityType DEF Countable
<1> QED
  BY <1>3, <1>4 DEF Countable, Lives, Life!Live, Life!Leave

\* Every step of a supervisor keeps it alive or ends it.
LEMMA StepLives ==
  ASSUME Safe, Countable, NEW t \in Task, UNCHANGED proc,
         Step(t) \/ BrokerAnswers(t) \/ DbFails(t) \/ Cancelled(t)
  PROVE  Countable' /\ Lives
<1>1. ASSUME pc[t] # "free", NEW label \in Labels \ {"free"}, Goto(t, label)
      PROVE  Countable' /\ Lives
  BY <1>1, GotoFacts, SameAlive DEF Safe, TypeOK
<1>2. CASE CheckDailyLimit(t) \/ RejectWrite(t) \/ StartCascade(t) \/ ReceivedTell(t)
           \/ FireEvent(t) \/ FireGale(t) \/ FireWrite(t)
  BY <1>1, <1>2
     DEF CheckDailyLimit, RejectWrite, StartCascade, ReceivedTell, FireEvent, FireGale,
         Due, FireWrite, Labels
<1>3. CASE ExpiredTell(t) \/ PlaceOk(t) \/ PlaceUnsupported(t) \/ PairTell(t)
           \/ ErrorWrite(t) \/ PlacedTell(t)
  BY <1>1, <1>3
     DEF ExpiredTell, PlaceOk, PlaceUnsupported, PairTell, ErrorWrite, PlacedTell, Labels
<1>4. CASE WaitTimesOut(t) \/ BrokerAnswers(t) \/ ResultWrite(t) \/ StateWrite(t)
           \/ DailyWrite(t) \/ ResultTell(t)
  BY <1>1, <1>4
     DEF WaitTimesOut, BrokerAnswers, GotResult, ResultWrite, StateWrite, DailyWrite,
         ResultTell, Labels
<1>5. CASE StageWrite(t)
  BY <1>1, <1>5, EndLives DEF StageWrite, Labels
<1>6. CASE RejectTell(t) \/ DuplicateAtIntake(t) \/ PlaceRaises(t) \/ CompleteTell(t)
           \/ DbFails(t) \/ Cancelled(t)
  BY <1>6, EndLives
     DEF RejectTell, DuplicateAtIntake, PlaceRaises, CompleteTell, DbFails, DbLabels,
         Cancelled
<1> QED
  BY <1>2, <1>3, <1>4, <1>5, <1>6 DEF Step

\* Every action of the system.
LEMMA NextLives ==
  ASSUME Safe, Countable, [Next]_vars PROVE Countable' /\ Lives
<1>1. CASE \E t \in Task :
             SupervisorStep(t) \/ Answer(t) \/ DatabaseError(t) \/ Cancel(t)
  BY <1>1, StepLives DEF SupervisorStep, Answer, DatabaseError, Cancel
<1>2. CASE \/ \E s \in Signals :
                Deliver(s) \/ Upsert(s) \/ UpsertFails(s) \/ Put(s) \/ TimeoutRow(s)
           \/ TimeoutRead \/ TimeoutWrite \/ Tick \/ UNCHANGED vars
  BY <1>2, SameAlive
     DEF Deliver, Upsert, UpsertFails, Put, TimeoutRow, TimeoutRead, TimeoutWrite, Tick,
         vars, supervisorVars, taskVars
<1>3. ASSUME NEW s \in Signals, NEW k \in Slots, AdoptRow(s, k) PROVE Countable' /\ Lives
  BY <1>3, SpawnLives DEF AdoptRow, NextRow, Task
<1>4. ASSUME NEW k \in Slots, Dequeue(k) PROVE Countable' /\ Lives
  <2>1. Head(queue) \in Signals
    BY <1>4 DEF Dequeue, Safe, TypeOK
  <2> QED
    BY <1>4, <2>1, SpawnLives DEF Dequeue, Task
<1>5. ASSUME NEW k \in Slots, TimeoutAdopt(k) PROVE Countable' /\ Lives
  <2>1. timeout.sig \in Signals /\ proc = "recovering"
    BY <1>5 DEF TimeoutAdopt, Safe, Phases
  <2> QED
    BY <1>5, <2>1, SpawnLives DEF TimeoutAdopt, Task
<1>6. CASE QueryActive \/ StartScheduler \/ Stop \/ Boot
  BY <1>6, TurnLives
     DEF QueryActive, StartScheduler, Stop, Boot, supervisorVars, taskVars
<1>7. CASE Crash
  <2>1. proc # "down" /\ proc' = "down" /\ Alive' = {}
    BY <1>7 DEF Crash, Alive
  <2> QED
    BY <2>1, FS_EmptySet DEF Countable, Lives, Life!Live, Life!Die
<1> QED
  BY <1>1, <1>2, <1>3, <1>4, <1>5, <1>6, <1>7 DEF Next

\* The supervisors of the copier come only while the process recovers or runs,
\* and none outlives it: the life that Lifecycle gives them.
THEOREM CopierImplementsLife == Spec => ImplementsLife
<1>1. Init => Life!Up /\ Countable
  <2> SUFFICES ASSUME Init PROVE Life!Up /\ Countable
    OBVIOUS
  <2>1. Alive = {} /\ proc = "boot"
    BY DEF Init, SupervisorInit, NoTasks, Alive
  <2> QED
    BY <2>1, FS_EmptySet DEF Life!Up, Countable
<1>2. Safe /\ Countable /\ [Next]_vars => Countable' /\ [Life!Live]_<<proc, Cardinality(Alive)>>
  BY NextLives DEF Lives
<1>3. Spec => Life!Up /\ [][Life!Live]_<<proc, Cardinality(Alive)>>
  BY <1>1, <1>2, SafeInvariant, PTL DEF Spec
<1> QED
  BY <1>3 DEF ImplementsLife, Life!PSpec, Life!pvars
=============================================================================
