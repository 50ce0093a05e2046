--------------------------- MODULE CopierRunProofs ---------------------------
(***************************************************************************)
(* More proofs about Copier.  First, that no order is early.  Then, what a *)
(* life without crash and without database error adds to the safety of any *)
(* life: no signal and no bet is forgotten, and the daily limit rejects    *)
(* nothing that has bet.  Last, that recovery leaves no stage behind whose *)
(* window had closed.                                                      *)
(***************************************************************************)
EXTENDS CopierProofs

-----------------------------------------------------------------------------
(* Punctuality.                                                            *)

\* A supervisor past its timer is past its trigger.
PastTrigger(t) ==
  /\ pc[t] = "fireWrite" => now >= StageTrigger(t[1], "initial")
  /\ pc[t] = "place" => now >= StageTrigger(t[1], bet[t].stage)

Punctual == \A t \in Task : PastTrigger(t)

\* A step of one task, to any await but those of the fired timer.
LEMMA PunctualElsewhere ==
  ASSUME Punctual, NEW t \in Task, UNCHANGED now,
         \A u \in Task : u # t => pc'[u] = pc[u] /\ bet'[u] = bet[u],
         pc'[t] \notin {"fireWrite", "place"}
  PROVE  Punctual'
BY DEF Punctual, PastTrigger, StageTrigger

\* A timer that has fired: for the first stage, or for a gale.
LEMMA FirePunctual ==
  ASSUME Safe, Punctual, NEW t \in Task, FireEvent(t) \/ FireGale(t) \/ FireWrite(t)
  PROVE  Punctual'
<1> USE DEF Safe, TypeOK, SupervisorTypeOK
<1>1. CASE FireEvent(t)
  <2>1. st[t].stage = "initial" /\ now >= StageTrigger(t[1], "initial")
    <3>1. pc[t] = "armed" /\ st[t].state = "pending" /\ TaskAgrees(t)
      BY <1>1 DEF FireEvent, Due, AcceptsFire, Agreement
    <3>2. ~InStep(t)
      BY <3>1 DEF InStep, PlacedState, Stages
    <3>3. st[t].stage = "initial"
      BY <3>1, <3>2 DEF TaskAgrees, Fresh
    <3> QED
      BY <1>1, <3>3 DEF FireEvent, Due
  <2>2. pc'[t] = "fireWrite" /\ \A u \in Task : u # t => pc'[u] = pc[u]
    BY <1>1 DEF FireEvent, Goto
  <2>3. UNCHANGED <<bet, now>>
    BY <1>1 DEF FireEvent
  <2> QED
    BY <2>1, <2>2, <2>3 DEF Punctual, PastTrigger, StageTrigger
<1>2. CASE FireGale(t)
  <2>1. now >= StageTrigger(t[1], st[t].stage)
    BY <1>2 DEF FireGale, Due
  <2>2. /\ pc'[t] = "place" /\ bet'[t].stage = st[t].stage
        /\ \A u \in Task : u # t => pc'[u] = pc[u] /\ bet'[u] = bet[u]
    BY <1>2 DEF FireGale, Goto, OpenBet
  <2>3. UNCHANGED now
    BY <1>2 DEF FireGale
  <2> QED
    BY <2>1, <2>2, <2>3 DEF Punctual, PastTrigger, StageTrigger
<1>3. CASE FireWrite(t)
  <2>1. CASE st[t].state = "error"
    BY <1>3, <2>1, PunctualElsewhere DEF FireWrite, Goto
  <2>2. CASE st[t].state # "error"
    <3>1. st[t].stage = "initial" /\ now >= StageTrigger(t[1], "initial")
      BY <1>3, <2>2 DEF FireWrite, Agreement, TaskAgrees, Punctual, PastTrigger
    <3>2. /\ pc'[t] = "place" /\ bet'[t].stage = st[t].stage
          /\ \A u \in Task : u # t => pc'[u] = pc[u] /\ bet'[u] = bet[u]
      BY <1>3, <2>2 DEF FireWrite, Goto, OpenBet
    <3>3. UNCHANGED now
      BY <1>3 DEF FireWrite
    <3> QED
      BY <3>1, <3>2, <3>3 DEF Punctual, PastTrigger, StageTrigger
  <2> QED
    BY <2>1, <2>2
<1> QED
  BY <1>1, <1>2, <1>3

\* The other steps of a supervisor do not go to the broker.
LEMMA SupervisorPunctual ==
  ASSUME Safe, Punctual, NEW t \in Task,
         Step(t) \/ BrokerAnswers(t) \/ DbFails(t) \/ Cancelled(t)
  PROVE  Punctual'
<1> USE DEF Safe, TypeOK, SupervisorTypeOK, Goto, End
<1>1. CASE FireEvent(t) \/ FireGale(t) \/ FireWrite(t)
  BY <1>1, FirePunctual
<1>2. CASE CheckDailyLimit(t) \/ RejectWrite(t) \/ RejectTell(t) \/ DuplicateAtIntake(t)
           \/ StartCascade(t) \/ ReceivedTell(t) \/ ExpiredTell(t)
  BY <1>2, PunctualElsewhere
     DEF CheckDailyLimit, RejectWrite, RejectTell, DuplicateAtIntake, StartCascade,
         ReceivedTell, ExpiredTell
<1>3. CASE PlaceOk(t) \/ PlaceUnsupported(t) \/ PlaceRaises(t) \/ PairTell(t)
           \/ ErrorWrite(t) \/ PlacedTell(t)
  BY <1>3, PunctualElsewhere
     DEF PlaceOk, PlaceUnsupported, PlaceRaises, PairTell, ErrorWrite, PlacedTell
<1>4. CASE StageWrite(t)
  BY <1>4, PunctualElsewhere DEF StageWrite
<1>5. CASE WaitTimesOut(t) \/ BrokerAnswers(t)
  BY <1>5, PunctualElsewhere DEF WaitTimesOut, BrokerAnswers, GotResult
<1>6. CASE ResultWrite(t) \/ StateWrite(t) \/ DailyWrite(t) \/ ResultTell(t)
           \/ CompleteTell(t)
  BY <1>6, PunctualElsewhere DEF ResultWrite, StateWrite, DailyWrite, ResultTell, CompleteTell
<1>7. CASE DbFails(t) \/ Cancelled(t)
  BY <1>7, PunctualElsewhere DEF DbFails, Cancelled
<1> QED
  BY <1>1, <1>2, <1>3, <1>4, <1>5, <1>6, <1>7 DEF Step

\* A new supervisor has no timer yet.
LEMMA SpawnPunctual ==
  ASSUME Safe, Punctual, NEW t \in Task, Spawn(t), UNCHANGED now PROVE Punctual'
BY PunctualElsewhere DEF Spawn, Goto, Safe, TypeOK, SupervisorTypeOK

\* Steps that leave the tasks alone; time does not run backwards.
LEMMA NextPunctual ==
  ASSUME Safe, Punctual, [Next]_vars PROVE Punctual'
<1>1. CASE \E t \in Task :
             SupervisorStep(t) \/ Answer(t) \/ DatabaseError(t) \/ Cancel(t)
  BY <1>1, SupervisorPunctual DEF SupervisorStep, Answer, DatabaseError, Cancel
<1>2. ASSUME UNCHANGED <<pc, bet>>, now' \in Nat, now' >= now PROVE Punctual'
  <2>1. \A s \in Signals, g \in Stages : StageTrigger(s, g) \in Nat
    <3> SUFFICES ASSUME NEW s \in Signals, NEW g \in Stages PROVE StageTrigger(s, g) \in Nat
      OBVIOUS
    <3>1. StageOffset(g) \in {0, 1, 2}
      BY DEF StageOffset, Stages
    <3>2. StageOffset(g) * Expiration \in Nat
      BY <3>1, TimeAssumption
    <3>3. Trigger[s] \in Nat
      BY SignalAssumption
    <3> QED
      BY <3>2, <3>3 DEF StageTrigger
  <2> SUFFICES ASSUME NEW t \in Task PROVE PastTrigger(t)'
    BY DEF Punctual
  <2>2. now \in Nat /\ t[1] \in Signals /\ PastTrigger(t)
    BY TaskSignal DEF Safe, TypeOK, SupervisorTypeOK, Punctual
  <2>3. StageTrigger(t[1], "initial") \in Nat
    BY <2>1, <2>2 DEF Stages
  <2>4. pc[t] = "place" => StageTrigger(t[1], bet[t].stage) \in Nat
    BY <2>1, <2>2 DEF Safe, Agreement, TaskAgrees, InStep
  <2> QED
    BY <1>2, <2>2, <2>3, <2>4 DEF PastTrigger
<1>3. now \in Nat
  BY DEF Safe, TypeOK, SupervisorTypeOK
<1>4. ASSUME NEW s \in Signals,
             Deliver(s) \/ Upsert(s) \/ UpsertFails(s) \/ Put(s) \/ TimeoutRow(s)
      PROVE  Punctual'
  BY <1>2, <1>3, <1>4
     DEF Deliver, Upsert, UpsertFails, Put, TimeoutRow, supervisorVars, taskVars
<1>5. ASSUME NEW s \in Signals, NEW k \in Slots, AdoptRow(s, k) PROVE Punctual'
  BY <1>5, SpawnPunctual DEF AdoptRow, Task
<1>6. ASSUME NEW k \in Slots, Dequeue(k) PROVE Punctual'
  <2>1. Head(queue) \in Signals
    BY <1>6 DEF Dequeue, Safe, TypeOK
  <2> QED
    BY <1>6, <2>1, SpawnPunctual DEF Dequeue, Task
<1>7. ASSUME NEW k \in Slots, TimeoutAdopt(k) PROVE Punctual'
  <2>1. timeout.sig \in Signals
    BY <1>7 DEF TimeoutAdopt, Safe, Phases
  <2> QED
    BY <1>7, <2>1, SpawnPunctual DEF TimeoutAdopt, Task
<1>8. CASE QueryActive \/ TimeoutRead \/ TimeoutWrite \/ StartScheduler \/ Stop \/ Boot
           \/ UNCHANGED vars
  BY <1>2, <1>3, <1>8
     DEF QueryActive, TimeoutRead, TimeoutWrite, StartScheduler, Stop, Boot, vars,
         supervisorVars, taskVars
<1>9. CASE Tick
  BY <1>2, <1>3, <1>9 DEF Tick, taskVars
<1>10. CASE Crash
  BY <1>10 DEF Crash, Punctual, PastTrigger
<1> QED
  BY <1>1, <1>4, <1>5, <1>6, <1>7, <1>8, <1>9, <1>10 DEF Next

\* What NoEarlyTrade says of one step.
OrdersDue ==
  \A s \in Signals, g \in Stages :
    trades'[s][g] # trades[s][g] => now >= StageTrigger(s, g)

\* Only place sends orders.
LEMMA NextOrdersDue ==
  ASSUME Safe, Punctual, [Next]_vars PROVE OrdersDue
<1>1. ASSUME NEW t \in Task, pc[t] = "place", Executed(t) PROVE OrdersDue
  <2>1. /\ trades' = [trades EXCEPT ![t[1]][bet[t].stage] = @ + 1]
        /\ now >= StageTrigger(t[1], bet[t].stage)
        /\ t[1] \in Signals /\ trades \in [Signals -> [Stages -> Nat]]
    BY <1>1, TaskSignal
       DEF Executed, Punctual, PastTrigger, Safe, TypeOK, SupervisorTypeOK
  <2> QED
    BY <2>1 DEF OrdersDue
<1>2. ASSUME UNCHANGED trades PROVE OrdersDue
  BY <1>2 DEF OrdersDue
<1>3. ASSUME NEW t \in Task, Step(t) PROVE OrdersDue
  <2>1. CASE PlaceOk(t) \/ PlaceRaises(t)
    BY <1>1, <1>2, <2>1 DEF PlaceOk, PlaceRaises
  <2>2. CASE ~(PlaceOk(t) \/ PlaceRaises(t))
    BY <1>2, <1>3, <2>2
       DEF Step, CheckDailyLimit, RejectWrite, RejectTell, DuplicateAtIntake, StartCascade,
           ReceivedTell, FireEvent, FireGale, FireWrite, ExpiredTell, PlaceUnsupported,
           PairTell, ErrorWrite, StageWrite, PlacedTell, WaitTimesOut, GotResult,
           ResultWrite, StateWrite, DailyWrite, ResultTell, CompleteTell
  <2> QED
    BY <2>1, <2>2
<1>4. ASSUME NEW t \in Task, BrokerAnswers(t) \/ DbFails(t) \/ Cancelled(t) PROVE OrdersDue
  BY <1>1, <1>2, <1>4 DEF BrokerAnswers, GotResult, DbFails, Cancelled
<1>5. CASE \E t \in Task :
             SupervisorStep(t) \/ Answer(t) \/ DatabaseError(t) \/ Cancel(t)
  BY <1>3, <1>4, <1>5 DEF SupervisorStep, Answer, DatabaseError, Cancel
<1>6. CASE \/ \E s \in Signals :
                Deliver(s) \/ Upsert(s) \/ UpsertFails(s) \/ Put(s) \/ TimeoutRow(s)
           \/ \E s \in Signals, k \in Slots : AdoptRow(s, k)
           \/ \E k \in Slots : Dequeue(k) \/ TimeoutAdopt(k)
  BY <1>2, <1>6
     DEF Deliver, Upsert, UpsertFails, Put, TimeoutRow, AdoptRow, Dequeue, TimeoutAdopt,
         supervisorVars
<1>7. CASE QueryActive \/ TimeoutRead \/ TimeoutWrite \/ StartScheduler \/ Tick \/ Stop
           \/ Crash \/ Boot \/ UNCHANGED vars
  BY <1>2, <1>7
     DEF QueryActive, TimeoutRead, TimeoutWrite, StartScheduler, Tick, Stop, Crash, Boot,
         vars, supervisorVars
<1> QED
  BY <1>5, <1>6, <1>7 DEF Next

\* call_at: no order goes out before the trigger of its stage, whatever the
\* broker, recovery and the clock do.
THEOREM NoOrderIsEarly == Spec => NoEarlyTrade
<1>1. Init => Punctual
  BY DEF Init, SupervisorInit, NoTasks, Punctual, PastTrigger
<1>2. Safe /\ Punctual /\ [Next]_vars => Punctual'
  BY NextPunctual
<1>3. Safe /\ Punctual /\ [Next]_vars => [OrdersDue]_vars
  BY NextOrdersDue
<1>4. Spec => [][OrdersDue]_vars
  BY <1>1, <1>2, <1>3, SafeInvariant, PTL DEF Spec
<1> QED
  BY <1>4, PTL DEF NoEarlyTrade, OrdersDue

-----------------------------------------------------------------------------
(* A life without crash and database error.                                *)

Undisturbed == MaxCrashes = 0 /\ ~DbMayFail

\* Recovery finds nothing to do, and the process does not stop.
CalmProcess ==
  /\ proc \in {"boot", "recovering", "running"}
  /\ timeout.at = "no" /\ \A s \in Signals : snapshot[s] = "none"
  /\ proc # "running" =>
       /\ \A t \in Task : pc[t] = "free"
       /\ \A s \in Signals : signals[s] \in {"none", "pending"}

\* No supervisor is started for a signal that has begun.
CalmTasks ==
  \A t \in Task :
    pc[t] \in {"limit", "rejectWrite", "idem"} => signals[t[1]] = "pending"

\* The awaits between the row of a bet and its result.
BetLabels == {"placedTell", "waiting", "resultWrite"}

OpenRowsHeld ==
  \A row \in stages : row.result = "open" =>
    \E t \in Task : /\ t[1] = row.sig /\ pc[t] \in BetLabels
                    /\ bet[t].stage = row.stage /\ bet[t].at = row.at

Calm == CalmProcess /\ CalmTasks /\ PendingHeld /\ OpenRowsHeld

-----------------------------------------------------------------------------
(* Frames.                                                                 *)

\* A step of one task.
Alone(t) ==
  /\ pc[t] # "free"
  /\ \A u \in Task : u # t => pc'[u] = pc[u] /\ st'[u] = st[u] /\ bet'[u] = bet[u]
  /\ \A s \in Signals : s # t[1] => signals'[s] = signals[s]
  /\ UNCHANGED <<proc, inserted, queue, snapshot, timeout>>

LEMMA CalmStep ==
  ASSUME Safe, Calm, NEW t \in Task, Alone(t),
         pc'[t] \in {"limit", "rejectWrite", "idem"} => signals'[t[1]] = "pending",
         signals'[t[1]] = "pending" => pc'[t] # "free",
         OpenRowsHeld'
  PROVE  Calm'
<1>1. t[1] \in Signals /\ t[2] \in Slots /\ t = <<t[1], t[2]>>
  BY DEF Task
<1>2. proc = "running"
  BY DEF Alone, Calm, CalmProcess
<1>3. CalmProcess'
  BY <1>2 DEF Alone, Calm, CalmProcess
<1>4. CalmTasks'
  <2> SUFFICES ASSUME NEW u \in Task
               PROVE  pc'[u] \in {"limit", "rejectWrite", "idem"} =>
                        signals'[u[1]] = "pending"
    BY DEF CalmTasks
  <2>1. CASE u = t
    BY <2>1
  <2>2. CASE u # t
    <3>1. pc[u] # "free" => u[1] # t[1]
      BY <2>2 DEF Alone, Safe, Exclusive, OneSupervisor
    <3>2. u[1] \in Signals
      BY TaskSignal
    <3> QED
      BY <2>2, <3>1, <3>2 DEF Alone, Calm, CalmTasks
  <2> QED
    BY <2>1, <2>2
<1>5. PendingHeld'
  <2> SUFFICES ASSUME NEW s \in Signals, signals'[s] = "pending"
               PROVE  \/ inserted'[s] > 0
                      \/ \E i \in 1..Len(queue') : queue'[i] = s
                      \/ \E k \in Slots : pc'[<<s, k>>] # "free"
    BY DEF PendingHeld
  <2>1. CASE s = t[1]
    BY <1>1, <2>1
  <2>2. CASE s # t[1]
    <3>1. \A k \in Slots : <<s, k>> \in Task /\ <<s, k>> # t
      BY <1>1, <2>2 DEF Task
    <3> QED
      BY <2>2, <3>1 DEF Alone, Calm, PendingHeld
  <2> QED
    BY <2>1, <2>2
<1> QED
  BY <1>3, <1>4, <1>5 DEF Calm

\* A task that leaves the stage rows alone keeps the row that it holds.
LEMMA OpenStep ==
  ASSUME OpenRowsHeld, NEW t \in Task, Alone(t), UNCHANGED stages,
         pc[t] \in BetLabels =>
           /\ pc'[t] \in BetLabels
           /\ bet'[t].stage = bet[t].stage /\ bet'[t].at = bet[t].at
  PROVE  OpenRowsHeld'
<1> SUFFICES ASSUME NEW row \in stages, row.result = "open"
             PROVE  \E u \in Task : /\ u[1] = row.sig /\ pc'[u] \in BetLabels
                                    /\ bet'[u].stage = row.stage /\ bet'[u].at = row.at
  BY DEF OpenRowsHeld
<1>1. PICK u \in Task : /\ u[1] = row.sig /\ pc[u] \in BetLabels
                        /\ bet[u].stage = row.stage /\ bet[u].at = row.at
  BY DEF OpenRowsHeld
<1>2. CASE u = t
  BY <1>1, <1>2
<1>3. CASE u # t
  BY <1>1, <1>3 DEF Alone
<1> QED
  BY <1>2, <1>3

\* A move that writes nothing.
LEMMA CalmMove ==
  ASSUME Safe, Calm, NEW t \in Task, Alone(t),
         UNCHANGED <<signals, stages>>,
         pc'[t] # "free",
         pc'[t] \in {"limit", "rejectWrite", "idem"} => pc[t] \in {"limit", "rejectWrite", "idem"},
         pc[t] \in BetLabels =>
           /\ pc'[t] \in BetLabels
           /\ bet'[t].stage = bet[t].stage /\ bet'[t].at = bet[t].at
  PROVE  Calm'
<1>1. t[1] \in Signals
  BY TaskSignal
<1>2. OpenRowsHeld'
  BY OpenStep DEF Calm
<1> QED
  BY <1>1, <1>2, CalmStep DEF Calm, CalmTasks

\* The end of a task whose signal has begun, and which holds no open row.
LEMMA CalmEnd ==
  ASSUME Safe, Calm, NEW t \in Task, Alone(t), End(t),
         UNCHANGED <<signals, stages>>,
         signals[t[1]] # "pending", pc[t] \notin BetLabels
  PROVE  Calm'
<1>1. t[1] \in Signals
  BY TaskSignal
<1>2. pc'[t] = "free"
  BY DEF End, Goto, Safe, TypeOK, SupervisorTypeOK
<1>3. OpenRowsHeld'
  BY OpenStep DEF Calm
<1> QED
  BY <1>1, <1>2, <1>3, CalmStep

\* update_signal_state, past the intake.
LEMMA CalmWrite ==
  ASSUME Safe, Calm, NEW t \in Task, Alone(t), pc[t] \notin BetLabels,
         NEW status \in States \ {"pending"}, NEW why,
         UpdateSignalState(t[1], status, why),
         pc'[t] \notin {"limit", "rejectWrite", "idem"}
  PROVE  Calm'
<1>1. t[1] \in Signals /\ signals[t[1]] # "none"
  BY TaskSignal DEF Alone, Safe, Exclusive
<1>2. signals'[t[1]] = status /\ UNCHANGED stages
  BY <1>1 DEF UpdateSignalState, Safe, TypeOK, StoreTypeOK
<1>3. OpenRowsHeld'
  BY <1>2, OpenStep DEF Calm
<1> QED
  BY <1>2, <1>3, CalmStep

-----------------------------------------------------------------------------
(* The supervisors' steps.                                                 *)

\* Moves that change nothing but the label, or the bet about to be placed.
LEMMA QuietCalm ==
  ASSUME Safe, Calm, NEW t \in Task, UNCHANGED Outside,
         \/ CheckDailyLimit(t) \/ ReceivedTell(t) \/ FireGale(t) \/ ExpiredTell(t)
         \/ PlaceUnsupported(t) \/ PlacedTell(t) \/ ResultTell(t)
  PROVE  Calm'
<1> USE DEF Safe, TypeOK, SupervisorTypeOK, Goto
<1>1. UNCHANGED <<proc, inserted, queue, snapshot, timeout>>
  BY DEF Outside, listenerVars, recoveryVars
<1>3. CASE CheckDailyLimit(t)
  BY <1>1, <1>3, CalmMove DEF CheckDailyLimit, Alone, BetLabels, storeVars
<1>4. CASE ReceivedTell(t) \/ ExpiredTell(t)
  BY <1>1, <1>4, CalmMove DEF ReceivedTell, ExpiredTell, Alone, BetLabels, storeVars
<1>5. CASE FireGale(t)
  BY <1>1, <1>5, CalmMove DEF FireGale, Due, OpenBet, Alone, BetLabels, storeVars
<1>6. CASE PlaceUnsupported(t) \/ PlacedTell(t)
  BY <1>1, <1>6, CalmMove DEF PlaceUnsupported, PlacedTell, Alone, BetLabels, storeVars
<1>7. CASE ResultTell(t)
  BY <1>1, <1>7, CalmMove DEF ResultTell, Alone, BetLabels, storeVars
<1> QED
  BY <1>3, <1>4, <1>5, <1>6, <1>7

\* Moves of the local state machine.
LEMMA MachineCalm ==
  ASSUME Safe, Calm, NEW t \in Task, UNCHANGED Outside,
         \/ StartCascade(t) \/ FireEvent(t) \/ PairTell(t)
         \/ WaitTimesOut(t) \/ BrokerAnswers(t)
  PROVE  Calm'
<1> USE DEF Safe, TypeOK, SupervisorTypeOK, Goto
<1>1. UNCHANGED <<proc, inserted, queue, snapshot, timeout>>
  BY DEF Outside, listenerVars, recoveryVars
<1>3. CASE StartCascade(t)
  BY <1>1, <1>3, CalmMove DEF StartCascade, Alone, BetLabels, storeVars
<1>4. CASE FireEvent(t)
  BY <1>1, <1>4, CalmMove DEF FireEvent, Due, Alone, BetLabels, storeVars
<1>5. CASE PairTell(t)
  BY <1>1, <1>5, CalmMove DEF PairTell, Alone, BetLabels, storeVars
<1>6. ASSUME NEW r \in Results, pc[t] = "waiting", GotResult(t, r) PROVE Calm'
  <2>1. bet'[t].stage = bet[t].stage /\ bet'[t].at = bet[t].at
    BY <1>6 DEF GotResult, Bet
  <2> QED
    BY <1>1, <1>6, <2>1, CalmMove DEF GotResult, Alone, BetLabels, storeVars
<1>7. CASE WaitTimesOut(t) \/ BrokerAnswers(t)
  BY <1>6, <1>7, SupervisorAssumption DEF WaitTimesOut, BrokerAnswers, Results
<1> QED
  BY <1>3, <1>4, <1>5, <1>7

\* The ends of a task.
LEMMA EndCalm ==
  ASSUME Safe, Calm, NEW t \in Task, UNCHANGED Outside,
         RejectTell(t) \/ DuplicateAtIntake(t) \/ PlaceRaises(t) \/ CompleteTell(t)
  PROVE  Calm'
<1>1. UNCHANGED <<proc, inserted, queue, snapshot, timeout>>
  BY DEF Outside, listenerVars, recoveryVars
<1>2. End(t) /\ UNCHANGED <<signals, stages>> /\ pc[t] # "free" /\ pc[t] \notin BetLabels
  BY DEF RejectTell, DuplicateAtIntake, PlaceRaises, CompleteTell, storeVars, BetLabels
<1>3. \A u \in Task : u # t => pc'[u] = pc[u] /\ st'[u] = st[u] /\ bet'[u] = bet[u]
  BY <1>2, EndFacts DEF Safe, TypeOK
<1>4. signals[t[1]] # "pending"
  <2>1. TaskAgrees(t)
    BY DEF Safe, Agreement
  <2>2. CASE PlaceRaises(t)
    <3>1. bet[t].stage \in Stages /\ signals[t[1]] = PlacedState(bet[t].stage)
      BY <2>1, <2>2 DEF PlaceRaises, TaskAgrees, InStep, AtStage
    <3> QED
      BY <2>2, <3>1 DEF PlacedState, Stages
  <2>3. CASE RejectTell(t) \/ DuplicateAtIntake(t) \/ CompleteTell(t)
    BY <2>1, <2>3
       DEF RejectTell, DuplicateAtIntake, CompleteTell, MayDrive, TaskAgrees, FinalStates
  <2> QED
    BY <2>2, <2>3
<1>5. Alone(t)
  BY <1>1, <1>2, <1>3 DEF Alone
<1> QED
  BY <1>2, <1>4, <1>5, CalmEnd

\* The writes of a status.
LEMMA WriteCalm ==
  ASSUME Safe, Calm, NEW t \in Task, UNCHANGED Outside,
         RejectWrite(t) \/ FireWrite(t) \/ ErrorWrite(t) \/ StateWrite(t)
  PROVE  Calm'
<1> USE DEF Safe, TypeOK, SupervisorTypeOK, Goto
<1>1. UNCHANGED <<proc, inserted, queue, snapshot, timeout>>
  BY DEF Outside, listenerVars, recoveryVars
<1>2. st[t] \in SignalState /\ t[1] \in Signals /\ TaskAgrees(t)
  BY TaskSignal DEF Agreement
<1>3. ASSUME NEW status, NEW why, UpdateSignalState(t[1], status, why)
      PROVE  \A s \in Signals : s # t[1] => signals'[s] = signals[s]
  BY <1>3 DEF UpdateSignalState, StoreTypeOK
<1>4. CASE RejectWrite(t)
  <2>1. "error" \in States \ {"pending"}
    BY DEF States, FinalStates
  <2>2. Alone(t)
    BY <1>1, <1>3, <1>4 DEF RejectWrite, Alone
  <2> QED
    BY <1>2, <1>4, <2>1, <2>2, CalmWrite DEF RejectWrite, BetLabels
<1>5. CASE FireWrite(t)
  <2>1. st[t].state \in States \ {"pending"}
    BY <1>2, <1>5 DEF FireWrite, TaskAgrees, States, FinalStates, PlacedStates
  <2>2. Alone(t) /\ pc'[t] \in {"expiredTell", "place"} /\ pc[t] = "fireWrite"
    BY <1>1, <1>3, <1>5 DEF FireWrite, OpenBet, Alone
  <2> QED
    BY <1>2, <1>5, <2>1, <2>2, CalmWrite DEF FireWrite, BetLabels
<1>6. CASE ErrorWrite(t) \/ StateWrite(t)
  <2>1. pc[t] \in {"errorWrite", "stateWrite"} /\ pc'[t] \in {"completeTell", "dailyWrite"}
    BY <1>6 DEF ErrorWrite, StateWrite
  <2>2. st[t].state \in States \ {"pending"}
    <3>1. CASE pc[t] = "errorWrite"
      BY <1>2, <3>1 DEF TaskAgrees, States, FinalStates
    <3>2. CASE pc[t] = "stateWrite"
      <4>1. st[t].state \in Successors(bet[t].stage) /\ bet[t].stage \in Stages
        BY <1>2, <3>2 DEF TaskAgrees, Advanced
      <4>2. st[t].state # "pending"
        BY <4>1 DEF Successors, PlacedState, NextStage, Stages
      <4> QED
        BY <1>2, <4>2 DEF SignalState
    <3> QED
      BY <2>1, <3>1, <3>2
  <2>3. /\ UpdateSignalState(t[1], st[t].state, st[t].reason)
        /\ UNCHANGED <<st, bet>>
    BY <1>6 DEF ErrorWrite, StateWrite
  <2>4. Alone(t)
    BY <1>1, <1>3, <1>6, <2>1, <2>3 DEF ErrorWrite, StateWrite, Alone
  <2> QED
    BY <1>2, <2>1, <2>2, <2>3, <2>4, CalmWrite DEF BetLabels
<1> QED
  BY <1>4, <1>5, <1>6

\* The order goes out, the result is added to the day: the tables of the
\* signals and of the stages stay as they are.
LEMMA PlaceCalm ==
  ASSUME Safe, Calm, NEW t \in Task, UNCHANGED Outside, PlaceOk(t) \/ DailyWrite(t)
  PROVE  Calm'
<1> USE DEF Safe, TypeOK, SupervisorTypeOK, Goto
<1>1. UNCHANGED <<proc, inserted, queue, snapshot, timeout>>
  BY DEF Outside, listenerVars, recoveryVars
<1>2. UNCHANGED <<signals, stages, st, bet>>
  BY DEF PlaceOk, DailyWrite, UpdateDailySummary, storeVars
<1>3. /\ pc[t] \in {"place", "dailyWrite"}
      /\ pc'[t] \in {"stageWrite", "completeTell", "resultTell"}
      /\ \A u \in Task : u # t => pc'[u] = pc[u]
  BY DEF PlaceOk, DailyWrite
<1>4. Alone(t)
  BY <1>1, <1>2, <1>3 DEF Alone
<1> QED
  BY <1>2, <1>3, <1>4, CalmMove DEF BetLabels

\* The row of a bet is opened: its task holds it.
LEMMA StageWriteCalm ==
  ASSUME Safe, Calm, NEW t \in Task, UNCHANGED Outside, StageWrite(t)
  PROVE  Calm'
<1> USE DEF Safe, TypeOK, SupervisorTypeOK, Goto
<1>1. UNCHANGED <<proc, inserted, queue, snapshot, timeout>>
  BY DEF Outside, listenerVars, recoveryVars
<1>2. t[1] \in Signals /\ TaskAgrees(t) /\ pc[t] = "stageWrite"
  BY TaskSignal DEF Agreement, StageWrite
<1>3. signals[t[1]] # "pending"
  BY <1>2 DEF TaskAgrees, AtStage, PlacedState, Stages
<1>4. CASE StageExists(t[1], bet[t].stage, bet[t].at)
  <2>1. End(t) /\ UNCHANGED <<signals, stages>>
    BY <1>4 DEF StageWrite, storeVars
  <2>2. Alone(t)
    BY <1>1, <1>2, <2>1, EndFacts DEF Alone
  <2> QED
    BY <1>2, <1>3, <2>1, <2>2, CalmEnd DEF BetLabels
<1>5. CASE ~StageExists(t[1], bet[t].stage, bet[t].at)
  <2>1. /\ RecordStagePlaced(t[1], bet[t].stage, bet[t].at)
        /\ pc'[t] = "placedTell" /\ \A u \in Task : u # t => pc'[u] = pc[u]
        /\ UNCHANGED <<signals, st, bet>>
    BY <1>5 DEF StageWrite, RecordStagePlaced
  <2>2. Alone(t)
    BY <1>1, <1>2, <2>1 DEF Alone
  <2>3. OpenRowsHeld'
    <3> SUFFICES ASSUME NEW row \in stages', row.result = "open"
                 PROVE  \E u \in Task : /\ u[1] = row.sig /\ pc'[u] \in BetLabels
                                        /\ bet'[u].stage = row.stage /\ bet'[u].at = row.at
      BY DEF OpenRowsHeld
    <3>1. CASE row \in stages
      <4>1. PICK u \in Task : /\ u[1] = row.sig /\ pc[u] \in BetLabels
                              /\ bet[u].stage = row.stage /\ bet[u].at = row.at
        BY <3>1 DEF Calm, OpenRowsHeld
      <4>2. u # t
        BY <1>2, <4>1 DEF BetLabels
      <4> QED
        BY <2>1, <4>1, <4>2
    <3>2. CASE row \notin stages
      <4>1. row = [sig |-> t[1], stage |-> bet[t].stage, at |-> bet[t].at, result |-> "open"]
        BY <2>1, <3>2 DEF RecordStagePlaced
      <4> QED
        BY <2>1, <4>1 DEF BetLabels
    <3> QED
      BY <3>1, <3>2
  <2> QED
    BY <1>2, <1>3, <2>1, <2>2, <2>3, CalmStep
<1> QED
  BY <1>4, <1>5

\* The row of a bet is closed: no other task holds it.
LEMMA ResultWriteCalm ==
  ASSUME Safe, Calm, NEW t \in Task, UNCHANGED Outside, ResultWrite(t)
  PROVE  Calm'
<1> USE DEF Safe, TypeOK, SupervisorTypeOK, Goto
<1>1. UNCHANGED <<proc, inserted, queue, snapshot, timeout>>
  BY DEF Outside, listenerVars, recoveryVars
<1>2. /\ t[1] \in Signals /\ TaskAgrees(t)
      /\ pc[t] = "resultWrite" /\ pc'[t] = "stateWrite"
      /\ UNCHANGED <<signals, st, bet>>
  BY TaskSignal DEF Agreement, ResultWrite, RecordStageResult
<1>3. signals[t[1]] # "pending" /\ bet[t].result \in Results
  BY <1>2 DEF TaskAgrees, Advanced, AtStage, PlacedState, Stages
<1>4. Alone(t)
  BY <1>1, <1>2 DEF ResultWrite, Alone
<1>5. OpenRowsHeld'
  <2> SUFFICES ASSUME NEW row \in stages', row.result = "open"
               PROVE  \E u \in Task : /\ u[1] = row.sig /\ pc'[u] \in BetLabels
                                      /\ bet'[u].stage = row.stage /\ bet'[u].at = row.at
    BY DEF OpenRowsHeld
  <2>1. PICK old \in stages :
          row = IF SameTrade(old, t[1], bet[t].stage, bet[t].at)
                THEN [old EXCEPT !.result = bet[t].result] ELSE old
    BY DEF ResultWrite, RecordStageResult
  <2>2. ~SameTrade(old, t[1], bet[t].stage, bet[t].at) /\ row = old
    <3>1. old \in StageRow
      BY DEF StoreTypeOK
    <3>2. [old EXCEPT !.result = bet[t].result].result # "open"
      BY <1>3, <3>1 DEF StageRow, Results
    <3> QED
      BY <2>1, <3>2
  <2>3. PICK u \in Task : /\ u[1] = row.sig /\ pc[u] \in BetLabels
                          /\ bet[u].stage = row.stage /\ bet[u].at = row.at
    BY <2>2 DEF Calm, OpenRowsHeld
  <2>4. u # t
    BY <2>2, <2>3 DEF SameTrade
  <2> QED
    BY <1>4, <2>3, <2>4 DEF Alone
<1> QED
  BY <1>2, <1>3, <1>4, <1>5, CalmStep

\* All steps of a supervisor and of the broker.
LEMMA SupervisorCalm ==
  ASSUME Safe, Calm, NEW t \in Task, UNCHANGED Outside, Step(t) \/ BrokerAnswers(t)
  PROVE  Calm'
BY QuietCalm, MachineCalm, EndCalm, WriteCalm, PlaceCalm, StageWriteCalm, ResultWriteCalm
   DEF Step

-----------------------------------------------------------------------------
(* The listener, the queue and the boot.                                   *)

\* Steps that touch neither the tasks nor the rows nor the queue.
LEMMA IdleCalm ==
  ASSUME Calm, UNCHANGED <<signals, stages, pc, st, bet, proc, inserted, queue, snapshot,
                           timeout>>
  PROVE  Calm'
<1>1. CalmProcess'
  BY DEF Calm, CalmProcess
<1>2. CalmTasks' /\ OpenRowsHeld'
  BY DEF Calm, CalmTasks, OpenRowsHeld
<1>3. PendingHeld'
  BY DEF Calm, PendingHeld
<1> QED
  BY <1>1, <1>2, <1>3 DEF Calm

\* The row is inserted, and held by its handler.
LEMMA UpsertCalm ==
  ASSUME Safe, Calm, NEW s \in Signals, Upsert(s) PROVE Calm'
<1>1. UNCHANGED <<stages, pc, st, bet, proc, queue, snapshot, timeout>>
  BY DEF Upsert, UpsertSignal, taskVars, recoveryVars
<1>2. \A r \in Signals :
        \/ signals'[r] = signals[r] /\ inserted'[r] >= inserted[r]
        \/ signals[r] = "none" /\ signals'[r] = "pending" /\ inserted'[r] > 0
  BY DEF Upsert, UpsertSignal, InsertWins, Safe, TypeOK, StoreTypeOK
<1>3. \A r \in Signals : inserted[r] \in Nat /\ inserted'[r] \in Nat
  BY DEF Upsert, Safe, TypeOK
<1>4. CalmProcess'
  BY <1>1, <1>2 DEF Calm, CalmProcess
<1>5. CalmTasks' /\ OpenRowsHeld'
  BY <1>1, <1>2, TaskSignal DEF Calm, CalmTasks, OpenRowsHeld
<1>6. PendingHeld'
  BY <1>1, <1>2, <1>3 DEF Calm, PendingHeld
<1> QED
  BY <1>4, <1>5, <1>6 DEF Calm

\* The handler puts it into the queue.
LEMMA PutCalm ==
  ASSUME Safe, Calm, NEW s \in Signals, Put(s) PROVE Calm'
<1>1. /\ UNCHANGED <<signals, stages, pc, st, bet, proc, snapshot, timeout>>
      /\ queue' = Append(queue, s) /\ queue \in Seq(Signals)
      /\ inserted' = [inserted EXCEPT ![s] = @ - 1] /\ inserted \in [Signals -> Nat]
  BY DEF Put, supervisorVars, storeVars, taskVars, recoveryVars, Safe, TypeOK
<1>2. /\ Len(queue') = Len(queue) + 1 /\ queue'[Len(queue) + 1] = s /\ Len(queue) \in Nat
      /\ \A i \in 1..Len(queue) : queue'[i] = queue[i]
  BY <1>1
<1>3. CalmProcess' /\ CalmTasks' /\ OpenRowsHeld'
  BY <1>1 DEF Calm, CalmProcess, CalmTasks, OpenRowsHeld
<1>4. PendingHeld'
  <2> SUFFICES ASSUME NEW r \in Signals, signals'[r] = "pending"
               PROVE  \/ inserted'[r] > 0
                      \/ \E i \in 1..Len(queue') : queue'[i] = r
                      \/ \E k \in Slots : pc'[<<r, k>>] # "free"
    BY DEF PendingHeld
  <2>1. CASE r = s
    BY <1>2, <2>1
  <2>2. CASE r # s
    <3>1. inserted'[r] = inserted[r]
      BY <1>1, <2>2
    <3>2. 1..Len(queue) \subseteq 1..Len(queue')
      BY <1>2
    <3> QED
      BY <1>1, <1>2, <3>1, <3>2 DEF Calm, PendingHeld
  <2> QED
    BY <2>1, <2>2
<1> QED
  BY <1>3, <1>4 DEF Calm

\* A supervisor takes the signal over from the queue.
LEMMA DequeueCalm ==
  ASSUME Safe, Calm, NEW k \in Slots, Dequeue(k) PROVE Calm'
<1>1. /\ proc = "running" /\ queue # <<>> /\ queue' = Tail(queue) /\ queue \in Seq(Signals)
      /\ UNCHANGED <<signals, stages, st, bet, proc, inserted, snapshot, timeout>>
  BY DEF Dequeue, Spawn, storeVars, recoveryVars, Safe, TypeOK
<1>2. PICK s \in Signals : s = Head(queue)
  BY <1>1
<1> DEFINE t == <<s, k>>
<1>3. /\ t \in Task /\ t[1] = s /\ pc[t] = "free" /\ pc'[t] = "limit"
      /\ \A u \in Task : u # t => pc'[u] = pc[u]
  BY <1>2 DEF Dequeue, Spawn, Goto, Task, Safe, TypeOK, SupervisorTypeOK
<1>4. /\ Len(queue) \in Nat /\ 1 \in 1..Len(queue) /\ queue[1] = s
      /\ Len(queue') = Len(queue) - 1
      /\ \A i \in 1..Len(queue) : i # 1 =>
           i - 1 \in 1..Len(queue') /\ queue'[i - 1] = queue[i]
  BY <1>1, <1>2
<1>5. signals[s] = "pending"
  BY <1>2, <1>4 DEF Safe, Exclusive, Queued
<1>6. CalmProcess'
  BY <1>1 DEF Calm, CalmProcess
<1>7. CalmTasks'
  BY <1>1, <1>3, <1>5 DEF Calm, CalmTasks
<1>8. PendingHeld'
  <2> SUFFICES ASSUME NEW r \in Signals, signals'[r] = "pending"
               PROVE  \/ inserted'[r] > 0
                      \/ \E i \in 1..Len(queue') : queue'[i] = r
                      \/ \E j \in Slots : pc'[<<r, j>>] # "free"
    BY DEF PendingHeld
  <2>1. CASE r = s
    BY <1>3, <2>1
  <2>2. CASE r # s
    <3>1. CASE inserted[r] > 0
      BY <1>1, <3>1
    <3>2. ASSUME NEW i \in 1..Len(queue), queue[i] = r
          PROVE  \E j \in 1..Len(queue') : queue'[j] = r
      BY <1>4, <2>2, <3>2
    <3>3. ASSUME NEW j \in Slots, pc[<<r, j>>] # "free" PROVE pc'[<<r, j>>] # "free"
      <4>1. <<r, j>> \in Task /\ <<r, j>> # t
        BY <2>2 DEF Task
      <4> QED
        BY <1>3, <3>3, <4>1
    <3> QED
      BY <1>1, <3>1, <3>2, <3>3 DEF Calm, PendingHeld
  <2> QED
    BY <2>1, <2>2
<1>9. OpenRowsHeld'
  <2> SUFFICES ASSUME NEW row \in stages, row.result = "open"
               PROVE  \E u \in Task : /\ u[1] = row.sig /\ pc'[u] \in BetLabels
                                      /\ bet[u].stage = row.stage /\ bet[u].at = row.at
    BY <1>1 DEF OpenRowsHeld
  <2>1. PICK u \in Task : /\ u[1] = row.sig /\ pc[u] \in BetLabels
                          /\ bet[u].stage = row.stage /\ bet[u].at = row.at
    BY DEF Calm, OpenRowsHeld
  <2>2. u # t
    BY <1>3, <2>1 DEF BetLabels
  <2> QED
    BY <1>3, <2>1, <2>2
<1> QED
  BY <1>6, <1>7, <1>8, <1>9 DEF Calm

\* Recovery finds no row to deal with, and hands over.
LEMMA BootCalm ==
  ASSUME Safe, Calm, QueryActive \/ StartScheduler PROVE Calm'
<1>1. UNCHANGED <<signals, stages, pc, st, bet, inserted, queue, timeout>>
  BY DEF QueryActive, StartScheduler, supervisorVars, storeVars, taskVars, listenerVars,
         recoveryVars
<1>2. CalmTasks' /\ OpenRowsHeld' /\ PendingHeld'
  BY <1>1 DEF Calm, CalmTasks, OpenRowsHeld, PendingHeld
<1>3. CalmProcess'
  <2>1. CASE QueryActive
    <3>1. \A s \in Signals : s \notin ActiveSignals
      BY <2>1 DEF QueryActive, Calm, CalmProcess, ActiveSignals, PlacedStates
    <3> QED
      BY <1>1, <2>1, <3>1 DEF QueryActive, Calm, CalmProcess
  <2>2. CASE StartScheduler
    BY <1>1, <2>2 DEF StartScheduler, recoveryVars, Calm, CalmProcess
  <2> QED
    BY <2>1, <2>2
<1> QED
  BY <1>2, <1>3 DEF Calm

-----------------------------------------------------------------------------
\* Every step of an undisturbed life.
LEMMA NextCalm ==
  ASSUME Undisturbed, Safe, Calm, [Next]_vars PROVE Calm'
<1>1. CASE \E t \in Task : SupervisorStep(t) \/ Answer(t)
  BY <1>1, SupervisorCalm DEF SupervisorStep, Answer, Outside
<1>2. CASE \E t \in Task : DatabaseError(t) \/ Cancel(t)
  BY <1>2 DEF DatabaseError, DbFails, Cancel, Undisturbed, Calm, CalmProcess
<1>3. ASSUME NEW s \in Signals,
             Deliver(s) \/ Upsert(s) \/ UpsertFails(s) \/ Put(s) \/ TimeoutRow(s)
      PROVE  Calm'
  <2>1. CASE Deliver(s)
    BY <2>1, IdleCalm DEF Deliver, supervisorVars, storeVars, taskVars, recoveryVars
  <2>2. CASE UpsertFails(s) \/ TimeoutRow(s)
    BY <2>2 DEF UpsertFails, TimeoutRow, NextRow, Undisturbed, Calm, CalmProcess
  <2> QED
    BY <1>3, <2>1, <2>2, UpsertCalm, PutCalm
<1>4. CASE \E s \in Signals, k \in Slots : AdoptRow(s, k)
  BY <1>4 DEF AdoptRow, NextRow, Calm, CalmProcess
<1>5. CASE \E k \in Slots : Dequeue(k) \/ TimeoutAdopt(k)
  BY <1>5, DequeueCalm DEF TimeoutAdopt, Calm, CalmProcess
<1>6. CASE QueryActive \/ TimeoutRead \/ TimeoutWrite \/ StartScheduler
  BY <1>6, BootCalm DEF TimeoutRead, TimeoutWrite, Calm, CalmProcess
<1>7. CASE Tick \/ UNCHANGED vars
  BY <1>7, IdleCalm
     DEF Tick, vars, supervisorVars, storeVars, taskVars, listenerVars, recoveryVars
<1>8. CASE Stop \/ Crash \/ Boot
  BY <1>8 DEF Stop, Crash, Boot, Undisturbed, Calm, CalmProcess, Safe, TypeOK
<1> QED
  BY <1>1, <1>2, <1>3, <1>4, <1>5, <1>6, <1>7, <1>8 DEF Next

LEMMA CalmInvariant == Undisturbed => (Spec => []Calm)
<1> SUFFICES ASSUME Undisturbed PROVE Spec => []Calm
  OBVIOUS
<1>1. Init => Calm
  <2> SUFFICES ASSUME Init PROVE Calm
    OBVIOUS
  <2>1. CalmProcess
    BY DEF Init, StoreInit, SupervisorInit, NoTasks, NoProcess, NoTimeout, CalmProcess
  <2>2. CalmTasks
    BY DEF Init, SupervisorInit, NoTasks, CalmTasks
  <2>3. PendingHeld /\ OpenRowsHeld
    BY DEF Init, StoreInit, PendingHeld, OpenRowsHeld
  <2> QED
    BY <2>1, <2>2, <2>3 DEF Calm
<1>2. Safe /\ Calm /\ [Next]_vars => Calm'
  BY NextCalm
<1> QED
  BY <1>1, <1>2, SafeInvariant, PTL DEF Spec

\* No signal is forgotten: its row is pending only while a handler, the queue
\* or a supervisor has it.
THEOREM NoSignalForgotten == Undisturbed => (Spec => []PendingHeld)
<1>1. Calm => PendingHeld
  BY DEF Calm
<1> QED
  BY <1>1, CalmInvariant, PTL

\* No bet is left open: whoever holds the open row of a bet has not come to the
\* end of its cascade.
THEOREM NoBetForgotten == Undisturbed => (Spec => []NoOpenRowAfterEnd)
<1>1. Safe /\ Calm => NoOpenRowAfterEnd
  <2> SUFFICES ASSUME Safe, Calm, NEW row \in stages, row.result = "open"
               PROVE  signals[row.sig] \notin FinalStates
    BY DEF NoOpenRowAfterEnd
  <2>1. PICK t \in Task : t[1] = row.sig /\ pc[t] \in BetLabels
    BY DEF Calm, OpenRowsHeld
  <2>2. \E g \in Stages : signals[t[1]] = PlacedState(g)
    BY <2>1 DEF BetLabels, Safe, Agreement, TaskAgrees, InStep, Advanced, AtStage
  <2> QED
    BY <2>1, <2>2 DEF FinalStates, PlacedState, Stages
<1> QED
  BY <1>1, SafeInvariant, CalmInvariant, PTL

-----------------------------------------------------------------------------
(* Recovery.                                                               *)

\* The windows of two stages are at least as far apart as a timeout that
\* recovery records may reach.
Slack == GaleStep + Tolerance <= Expiration + StageWindow

\* The window of stage g was open when recovery read the clock.
InTime(s, g) == recNow <= StageTrigger(s, g) + StageWindow

\* What recovery has adopted does nothing but look at its row and leave it, or
\* reject it.
JudgedTasks ==
  \A t \in Task :
    /\ pc[t] \in {"free", "limit", "rejectWrite", "rejectTell", "idem"}
    /\ pc[t] \in {"limit", "rejectWrite", "idem"} => signals[t[1]] \in PlacedStates

JudgedRows ==
  \A s \in Signals :
    signals[s] \in PlacedStates /\ snapshot[s] = "none" => InTime(s, StageOf(signals[s]))

JudgedTimeout ==
  /\ timeout.at = "write" /\ timeout.status \in PlacedStates =>
       InTime(timeout.sig, StageOf(timeout.status))
  /\ timeout.at = "reread" => InTime(timeout.sig, StageOf(signals[timeout.sig]))

Judged ==
  proc = "recovering" => recNow <= now /\ JudgedTasks /\ JudgedRows /\ JudgedTimeout

\* What an adopted supervisor does while recovery is at work.
LEMMA SupervisorJudged ==
  ASSUME Safe, Judged, NEW t \in Task, UNCHANGED Outside,
         Step(t) \/ BrokerAnswers(t) \/ DbFails(t)
  PROVE  Judged'
<1> SUFFICES ASSUME proc = "recovering"
             PROVE  recNow' <= now' /\ JudgedTasks' /\ JudgedRows' /\ JudgedTimeout'
  BY DEF Judged, Outside
<1>1. /\ UNCHANGED <<recNow, snapshot, timeout>>
      /\ pc[t] \in {"free", "limit", "rejectWrite", "rejectTell", "idem"}
      /\ pc[t] \in {"limit", "rejectWrite", "idem"} => signals[t[1]] \in PlacedStates
      /\ recNow <= now /\ JudgedTasks /\ JudgedRows /\ JudgedTimeout
      /\ t[1] \in Signals /\ SupervisorTypeOK
  BY TaskSignal DEF Judged, JudgedTasks, Outside, recoveryVars, Safe, TypeOK
<1>2. \/ CheckDailyLimit(t) \/ RejectWrite(t) \/ RejectTell(t) \/ DuplicateAtIntake(t)
      \/ DbFails(t)
  <2>1. ~StartCascade(t)
    BY <1>1 DEF StartCascade, MayDrive, PlacedStates
  <2>2. ~(\/ ReceivedTell(t) \/ FireEvent(t) \/ FireGale(t) \/ FireWrite(t) \/ ExpiredTell(t)
          \/ PlaceOk(t) \/ PlaceUnsupported(t) \/ PlaceRaises(t) \/ PairTell(t)
          \/ ErrorWrite(t) \/ StageWrite(t) \/ PlacedTell(t))
    BY <1>1
       DEF ReceivedTell, FireEvent, FireGale, Due, FireWrite, ExpiredTell, PlaceOk,
           PlaceUnsupported, PlaceRaises, PairTell, ErrorWrite, StageWrite, PlacedTell
  <2>3. ~(\/ WaitTimesOut(t) \/ BrokerAnswers(t) \/ ResultWrite(t) \/ StateWrite(t)
          \/ DailyWrite(t) \/ ResultTell(t) \/ CompleteTell(t))
    BY <1>1
       DEF WaitTimesOut, BrokerAnswers, ResultWrite, StateWrite, DailyWrite, ResultTell,
           CompleteTell
  <2> QED
    BY <2>1, <2>2, <2>3 DEF Step
<1>3. CASE ~RejectWrite(t)
  <2>1. /\ UNCHANGED <<signals, now>>
        /\ pc'[t] \in {"free", "rejectWrite", "idem"}
        /\ pc'[t] # "free" => pc[t] = "limit"
        /\ \A u \in Task : u # t => pc'[u] = pc[u]
    <3>1. CASE CheckDailyLimit(t)
      BY <1>1, <3>1, GotoFacts DEF CheckDailyLimit, storeVars, Labels
    <3>2. CASE RejectTell(t) \/ DuplicateAtIntake(t) \/ DbFails(t)
      BY <1>1, <3>2, EndFacts DEF RejectTell, DuplicateAtIntake, DbFails, storeVars
    <3> QED
      BY <1>2, <1>3, <3>1, <3>2
  <2>2. JudgedTasks'
    BY <1>1, <2>1 DEF JudgedTasks
  <2> QED
    BY <1>1, <2>1, <2>2 DEF JudgedRows, JudgedTimeout, InTime
<1>4. CASE RejectWrite(t)
  <2>1. /\ pc[t] = "rejectWrite" /\ pc'[t] = "rejectTell" /\ UNCHANGED now
        /\ \A u \in Task : u # t => pc'[u] = pc[u]
        /\ signals'[t[1]] = "error" /\ \A r \in Signals : r # t[1] => signals'[r] = signals[r]
    <3>1. pc[t] = "rejectWrite" /\ Goto(t, "rejectTell") /\ UNCHANGED now
          /\ UpdateSignalState(t[1], "error", "daily_limit_hit")
      BY <1>4 DEF RejectWrite
    <3>2. signals[t[1]] # "none" /\ signals \in [Signals -> States \union {"none"}]
      BY <1>1, <3>1 DEF PlacedStates, Safe, TypeOK, StoreTypeOK
    <3>3. pc'[t] = "rejectTell" /\ \A u \in Task : u # t => pc'[u] = pc[u]
      BY <1>1, <3>1, GotoFacts DEF Labels
    <3> QED
      BY <1>1, <3>1, <3>2, <3>3 DEF UpdateSignalState
  <2>2. snapshot[t[1]] = "none" /\ \A u \in Task : u # t /\ u[1] = t[1] => pc[u] = "free"
    BY <2>1, Owned DEF Safe
  <2>3. JudgedTasks'
    <3> SUFFICES ASSUME NEW u \in Task, u # t
                 PROVE  /\ pc'[u] \in {"free", "limit", "rejectWrite", "rejectTell", "idem"}
                        /\ pc'[u] \in {"limit", "rejectWrite", "idem"} =>
                             signals'[u[1]] \in PlacedStates
      BY <2>1 DEF JudgedTasks
    <3>1. u[1] \in Signals
      BY TaskSignal
    <3> QED
      BY <1>1, <2>1, <2>2, <3>1 DEF JudgedTasks
  <2>4. JudgedRows'
    BY <1>1, <2>1 DEF JudgedRows, InTime, PlacedStates
  <2>5. JudgedTimeout'
    <3>1. timeout.at # "no" => timeout.sig \in Signals /\ timeout.sig # t[1]
      BY <2>2 DEF Safe, Phases
    <3> QED
      BY <1>1, <2>1, <3>1 DEF JudgedTimeout, InTime
  <2> QED
    BY <1>1, <2>1, <2>3, <2>4, <2>5
<1> QED
  BY <1>3, <1>4

\* Steps of the listener, which adds pending rows, and of the clock.
LEMMA ListenerJudged ==
  ASSUME Safe, Judged, UNCHANGED <<proc, pc, recoveryVars>>, now' \in Nat, now' >= now,
         \A s \in Signals : signals'[s] = signals[s] \/ (signals[s] = "none" /\ signals'[s] = "pending")
  PROVE  Judged'
<1> SUFFICES ASSUME proc = "recovering"
             PROVE  recNow' <= now' /\ JudgedTasks' /\ JudgedRows' /\ JudgedTimeout'
  BY DEF Judged
<1>1. /\ UNCHANGED <<recNow, snapshot, timeout>>
      /\ recNow <= now /\ JudgedTasks /\ JudgedRows /\ JudgedTimeout
  BY DEF Judged, recoveryVars
<1>2. recNow' <= now'
  BY <1>1 DEF Safe, TypeOK, SupervisorTypeOK
<1>3. JudgedTasks' /\ JudgedRows'
  BY <1>1, TaskSignal DEF JudgedTasks, JudgedRows, InTime, PlacedStates
<1>4. timeout.at # "no" => timeout.sig \in Signals /\ signals[timeout.sig] # "none"
  BY DEF Safe, Phases, Exclusive, PlacedStates
<1>5. JudgedTimeout'
  BY <1>1, <1>4 DEF JudgedTimeout, InTime
<1> QED
  BY <1>2, <1>3, <1>5

\* Recovery's list: every placed row is still to be dealt with.
LEMMA QueryActiveJudged ==
  ASSUME Safe, QueryActive PROVE Judged'
<1>1. /\ proc = "boot" /\ recNow' = now /\ UNCHANGED <<signals, pc, now, timeout>>
      /\ \A s \in Signals : signals[s] \in PlacedStates => snapshot'[s] # "none"
  BY DEF QueryActive, supervisorVars, storeVars, taskVars, ActiveSignals, PlacedStates
<1>2. timeout.at = "no" /\ \A t \in Task : pc[t] = "free"
  BY <1>1 DEF Safe, Phases
<1>3. recNow' <= now'
  BY <1>1 DEF Safe, TypeOK, SupervisorTypeOK
<1> QED
  BY <1>1, <1>2, <1>3 DEF Judged, JudgedTasks, JudgedRows, JudgedTimeout

\* A row that is handed to a supervisor was in time.
LEMMA HandOverJudged ==
  ASSUME Safe, Judged, proc = "recovering", NEW s \in Signals, NEW k \in Slots,
         Spawn(<<s, k>>), snapshot' = [snapshot EXCEPT ![s] = "none"],
         snapshot[s] # "none", timeout'.at = "no", InTime(s, StageOf(signals[s])),
         UNCHANGED <<proc, signals, now, recNow>>
  PROVE  Judged'
<1>1. <<s, k>> \in Task /\ SupervisorTypeOK
  BY DEF Task, Safe, TypeOK
<1>2. pc'[<<s, k>>] = "limit" /\ \A u \in Task : u # <<s, k>> => pc'[u] = pc[u]
  BY <1>1, GotoFacts DEF Spawn, Labels
<1>3. signals[s] \in PlacedStates
  BY DEF Safe, Exclusive
<1>4. \A r \in Signals : r # s => snapshot'[r] = snapshot[r]
  BY DEF Safe, TypeOK
<1>5. recNow <= now /\ JudgedTasks /\ JudgedRows
  BY DEF Judged
<1>6. JudgedTasks'
  BY <1>2, <1>3, <1>5 DEF JudgedTasks
<1>7. JudgedRows'
  BY <1>4, <1>5 DEF JudgedRows, InTime
<1> QED
  BY <1>5, <1>6, <1>7 DEF Judged, JudgedTimeout

\* The times of a stage are numbers, and the next stage is one expiration later.
LEMMA StageTimes ==
  ASSUME NEW s \in Signals, NEW g \in Stages
  PROVE  /\ StageTrigger(s, g) \in Nat
         /\ g # "gale2" => StageTrigger(s, NextStage(g)) = StageTrigger(s, g) + Expiration
<1>1. Trigger[s] \in Nat /\ Expiration \in Nat
  BY SignalAssumption, TimeAssumption
<1>2. CASE g = "initial"
  BY <1>1, <1>2 DEF StageTrigger, StageOffset, NextStage
<1>3. CASE g = "gale1"
  BY <1>1, <1>3 DEF StageTrigger, StageOffset, NextStage
<1>4. CASE g = "gale2"
  BY <1>1, <1>4 DEF StageTrigger, StageOffset
<1> QED
  BY <1>2, <1>3, <1>4 DEF Stages

\* A timeout moves a row to the next stage only within the tolerance, so in time.
LEMMA TimeoutReadJudged ==
  ASSUME Slack, Safe, Judged, TimeoutRead PROVE Judged'
<1> DEFINE s == timeout.sig
           g == StageOf(snapshot[s])
           old == Rebuilt(s, g)
           new == OnResult(old, "timeout", now)
<1>1. /\ s \in Signals /\ snapshot[s] # "none" /\ signals[s] = snapshot[s]
      /\ signals[s] \in PlacedStates /\ proc = "recovering" /\ now \in Nat /\ recNow \in Nat
  BY DEF TimeoutRead, Safe, Phases, Exclusive, TypeOK, SupervisorTypeOK
<1>2. /\ recNow <= now /\ JudgedTasks /\ JudgedRows
      /\ UNCHANGED <<proc, signals, pc, now, recNow>>
  BY <1>1 DEF Judged, TimeoutRead, supervisorVars, storeVars, taskVars
<1>3. g \in Stages /\ signals[s] = PlacedState(g)
  BY <1>1, StageOfPlaced
<1>4. StageTrigger(s, g) \in Nat
  BY <1>1, <1>3, StageTimes
<1>5. /\ old \in SignalState /\ old.stage = g /\ old.state = signals[s]
      /\ old.trigger = StageTrigger(s, g)
  BY <1>1, <1>3, <1>4, TimeAssumption
     DEF Rebuilt, SignalState, States, Safe, TypeOK, StoreTypeOK
<1>6. /\ UNCHANGED snapshot
      /\ timeout' = [timeout EXCEPT !.at = "write", !.status = new.state, !.why = new.reason]
  BY <1>1, <1>5 DEF TimeoutRead, AcceptsResult
<1>7. new.state \in PlacedStates => InTime(s, StageOf(new.state))
  <2> SUFFICES ASSUME new.state \in PlacedStates PROVE InTime(s, StageOf(new.state))
    OBVIOUS
  <2>1. "timeout" \in Results /\ now \in Int
    BY <1>1 DEF Results
  <2>2. g # "gale2" /\ new.state = PlacedState(NextStage(g))
    <3>1. /\ new.state = PlacedState(new.stage) /\ new.stage = NextStage(g) /\ g # "gale2"
      BY <1>3, <1>5, <2>1, OnResultType
    <3> QED
      BY <3>1
  <2>3. ~(now > NextTrigger(old) + Tolerance)
    <3> SUFFICES ASSUME now > NextTrigger(old) + Tolerance PROVE FALSE
      OBVIOUS
    <3> DEFINE cumulative == old.cum + StagePnl(old.stage, "timeout")
    <3>1. new = ToError(old, "signal_expired", cumulative)
      BY <1>5, <2>2 DEF OnResult, AdvanceAfterResult, Losing
    <3>2. new.state = "error"
      BY <1>5, <3>1 DEF ToError, SignalState
    <3> QED
      BY <3>2 DEF PlacedStates
  <2>4. NextTrigger(old) = StageTrigger(s, g) + GaleStep
    BY <1>3, <1>5, <2>2 DEF NextTrigger, Stages
  <2>5. now <= StageTrigger(s, g) + GaleStep + Tolerance
    BY <1>1, <1>4, <2>3, <2>4, TimeAssumption
  <2>6. StageTrigger(s, NextStage(g)) = StageTrigger(s, g) + Expiration
    BY <1>1, <1>3, <2>2, StageTimes
  <2>7. StageOf(new.state) = NextStage(g)
    BY <2>2 DEF StageOf, PlacedState, NextStage
  <2>8. recNow <= StageTrigger(s, NextStage(g)) + StageWindow
    BY <1>1, <1>2, <1>4, <2>5, <2>6, TimeAssumption, CopierAssumption DEF Slack
  <2> QED
    BY <2>7, <2>8 DEF InTime
<1> HIDE DEF new
<1>8. timeout'.at = "write" /\ timeout'.sig = s /\ timeout'.status = new.state
  BY <1>6 DEF Safe, TypeOK, TimeoutCall
<1>9. JudgedTimeout'
  BY <1>2, <1>7, <1>8 DEF JudgedTimeout, InTime, StageTrigger
<1>10. JudgedTasks' /\ JudgedRows'
  BY <1>2, <1>6 DEF JudgedTasks, JudgedRows, InTime
<1> QED
  BY <1>2, <1>9, <1>10 DEF Judged

\* Written, the status is final, or that of a stage in time.
LEMMA TimeoutWriteJudged ==
  ASSUME Safe, Judged, TimeoutWrite PROVE Judged'
<1> DEFINE s == timeout.sig
<1>1. /\ s \in Signals /\ snapshot[s] # "none" /\ signals[s] \in PlacedStates
      /\ proc = "recovering" /\ timeout.at = "write"
  BY DEF TimeoutWrite, Safe, Phases, Exclusive
<1>2. /\ recNow <= now /\ JudgedTasks /\ JudgedRows /\ JudgedTimeout
      /\ UNCHANGED <<proc, pc, now, recNow>>
  BY <1>1 DEF Judged, TimeoutWrite, taskVars
<1>3. signals'[s] = timeout.status /\ \A r \in Signals : r # s => signals'[r] = signals[r]
  BY <1>1 DEF TimeoutWrite, UpdateSignalState, Safe, TypeOK, StoreTypeOK, PlacedStates
<1>4. \A u \in Task : pc[u] # "free" => u[1] # s
  BY <1>1, Owned DEF Safe
<1>5. JudgedTasks'
  BY <1>2, <1>3, <1>4, TaskSignal DEF JudgedTasks
<1>6. CASE timeout.status \in PlacedStates
  <2>1. timeout' = [timeout EXCEPT !.at = "reread"] /\ UNCHANGED snapshot
    BY <1>6 DEF TimeoutWrite
  <2>2. timeout'.at = "reread" /\ timeout'.sig = s
    BY <2>1 DEF Safe, TypeOK, TimeoutCall
  <2>3. InTime(s, StageOf(signals'[s]))
    BY <1>1, <1>2, <1>3, <1>6 DEF JudgedTimeout
  <2>4. JudgedTimeout'
    BY <1>2, <2>2, <2>3 DEF JudgedTimeout, InTime
  <2>5. JudgedRows'
    BY <1>1, <1>2, <1>3, <2>1 DEF JudgedRows, InTime
  <2> QED
    BY <1>2, <1>5, <2>4, <2>5 DEF Judged
<1>7. CASE timeout.status \notin PlacedStates
  <2>1. timeout' = NoTimeout /\ snapshot' = [snapshot EXCEPT ![s] = "none"]
    BY <1>7 DEF TimeoutWrite, TimeoutDone
  <2>2. \A r \in Signals : r # s => snapshot'[r] = snapshot[r]
    BY <2>1 DEF Safe, TypeOK
  <2>3. JudgedRows'
    BY <1>2, <1>3, <1>7, <2>2 DEF JudgedRows, InTime
  <2>4. JudgedTimeout'
    BY <2>1 DEF JudgedTimeout, NoTimeout
  <2> QED
    BY <1>2, <1>5, <2>3, <2>4 DEF Judged
<1> QED
  BY <1>6, <1>7

\* Every step of the program.
LEMMA NextJudged ==
  ASSUME Slack, Safe, Judged, [Next]_vars PROVE Judged'
<1>1. CASE \E t \in Task : SupervisorStep(t) \/ Answer(t) \/ DatabaseError(t)
  BY <1>1, SupervisorJudged DEF SupervisorStep, Answer, DatabaseError, Outside
<1>2. CASE \/ \E t \in Task : Cancel(t)
           \/ \E k \in Slots : Dequeue(k)
           \/ Stop \/ Crash \/ Boot \/ StartScheduler
  BY <1>2 DEF Cancel, Dequeue, Stop, Crash, Boot, StartScheduler, Judged
<1>3. now \in Nat
  BY DEF Safe, TypeOK, SupervisorTypeOK
<1>4. ASSUME NEW s \in Signals, Deliver(s) \/ UpsertFails(s) \/ Put(s) PROVE Judged'
  BY <1>3, <1>4, ListenerJudged
     DEF Deliver, UpsertFails, Put, supervisorVars, storeVars, taskVars
<1>5. ASSUME NEW s \in Signals, Upsert(s) PROVE Judged'
  <2>1. \A r \in Signals :
          signals'[r] = signals[r] \/ (signals[r] = "none" /\ signals'[r] = "pending")
    BY <1>5 DEF Upsert, UpsertSignal, InsertWins, Safe, TypeOK, StoreTypeOK
  <2> QED
    BY <1>3, <1>5, <2>1, ListenerJudged DEF Upsert, taskVars
<1>6. CASE Tick \/ UNCHANGED vars
  BY <1>3, <1>6, ListenerJudged DEF Tick, vars, supervisorVars, storeVars, taskVars
<1>7. ASSUME NEW s \in Signals, NEW k \in Slots, AdoptRow(s, k) PROVE Judged'
  <2>1. /\ proc = "recovering" /\ timeout.at = "no" /\ snapshot[s] # "none"
        /\ ~WindowClosed(s, recNow)
    BY <1>7 DEF AdoptRow, NextRow
  <2>2. signals[s] = snapshot[s] /\ signals[s] \in PlacedStates
    BY <2>1 DEF Safe, Phases, Exclusive
  <2>3. StageTrigger(s, StageOf(signals[s])) \in Nat /\ recNow \in Nat
    BY <2>2, StageTimes, StageOfPlaced DEF Safe, TypeOK
  <2>4. InTime(s, StageOf(signals[s]))
    BY <2>1, <2>2, <2>3, CopierAssumption DEF WindowClosed, InTime
  <2> QED
    BY <1>7, <2>1, <2>4, HandOverJudged DEF AdoptRow, storeVars
<1>8. ASSUME NEW s \in Signals, TimeoutRow(s) PROVE Judged'
  <2>1. timeout'.at = "read" /\ UNCHANGED <<proc, signals, pc, now, recNow, snapshot>>
    BY <1>8 DEF TimeoutRow, NoTimeout, supervisorVars, storeVars, taskVars
  <2> QED
    BY <2>1 DEF Judged, JudgedTasks, JudgedRows, JudgedTimeout, InTime
<1>9. ASSUME NEW k \in Slots, TimeoutAdopt(k) PROVE Judged'
  <2>1. /\ proc = "recovering" /\ timeout.sig \in Signals /\ snapshot[timeout.sig] # "none"
        /\ timeout.at = "reread"
    BY <1>9 DEF TimeoutAdopt, Safe, Phases
  <2>2. InTime(timeout.sig, StageOf(signals[timeout.sig]))
    BY <2>1 DEF Judged, JudgedTimeout
  <2> QED
    BY <1>9, <2>1, <2>2, HandOverJudged DEF TimeoutAdopt, TimeoutDone, NoTimeout, storeVars
<1> QED
  BY <1>1, <1>2, <1>4, <1>5, <1>6, <1>7, <1>8, <1>9, QueryActiveJudged, TimeoutReadJudged,
     TimeoutWriteJudged DEF Next

\* What ClosedStagesTimedOut says of one step.
HandsOverInTime ==
  proc = "recovering" /\ proc' = "running" =>
    \A s \in ActiveSignals :
      recNow <= StageTrigger(s, StageOf(signals[s])) + StageWindow

\* Only StartScheduler ends recovery, when its list is empty.
LEMMA NextHandsOver ==
  ASSUME Safe, Judged, [Next]_vars PROVE HandsOverInTime
<1> SUFFICES ASSUME proc = "recovering", proc' = "running" PROVE HandsOverInTime
  BY DEF HandsOverInTime
<1>1. \A s \in Signals : snapshot[s] = "none"
  <2>1. proc' # proc
    OBVIOUS
  <2>2. StartScheduler
    BY <2>1
       DEF Next, Deliver, Upsert, UpsertFails, Put, TimeoutRow, AdoptRow, Dequeue,
           TimeoutAdopt, QueryActive, TimeoutRead, TimeoutWrite, SupervisorStep, Answer,
           DatabaseError, Cancel, Tick, Stop, Crash, Boot, vars
  <2> QED
    BY <2>2 DEF StartScheduler
<1> QED
  BY <1>1 DEF Judged, JudgedRows, InTime, ActiveSignals, HandsOverInTime

\* When recovery hands over to the scheduler, no row is left at a stage whose
\* window had closed when recovery read the clock.  The code's GaleStep is its
\* expiration, so this asks that the tolerance is no larger than the window.
THEOREM RecoveryLeavesNoClosedStage == Slack => (Spec => ClosedStagesTimedOut)
<1> SUFFICES ASSUME Slack PROVE Spec => ClosedStagesTimedOut
  OBVIOUS
<1>1. Init => Judged
  BY DEF Init, Judged
<1>2. Safe /\ Judged /\ [Next]_vars => Judged'
  BY NextJudged
<1>3. Safe /\ Judged /\ [Next]_vars => [HandsOverInTime]_vars
  BY NextHandsOver
<1>4. Spec => [][HandsOverInTime]_vars
  BY <1>1, <1>2, <1>3, SafeInvariant, PTL DEF Spec
<1> QED
  BY <1>4, PTL DEF ClosedStagesTimedOut, HandsOverInTime
=============================================================================
