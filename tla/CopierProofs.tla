---------------------------- MODULE CopierProofs ----------------------------
(***************************************************************************)
(* Proofs, for every value of the constants, of the safety properties of   *)
(* module Copier.                                                          *)
(***************************************************************************)
EXTENDS CopierInvariant, TLAPS

-----------------------------------------------------------------------------
(* The state machine.                                                      *)

\* The state of a new cascade is well typed.
LEMMA FromSignalType ==
  ASSUME NEW n \in Int PROVE FromSignal(n) \in SignalState
BY TimeAssumption DEF FromSignal, SignalState, States, Stages, Reasons

\* The profit of a stage is a number of cents.
LEMMA StagePnlType ==
  ASSUME NEW g \in Stages, NEW r \in Results PROVE StagePnl(g, r) \in Int
BY AmountAssumption DEF StagePnl, AmountForStage

\* Firing a pending state gives placed_initial or error.
LEMMA OnFireType ==
  ASSUME NEW s \in SignalState, NEW n \in Int,
         s.stage = "initial"
  PROVE  /\ OnFire(s, n) \in SignalState
         /\ \/ OnFire(s, n).state = "error"
            \/ OnFire(s, n).state = "placed_initial" /\ OnFire(s, n).stage = "initial"
BY DEF OnFire, ToError, SignalState, States, PlacedStates, FinalStates, Stages, Reasons

\* A result of stage g leads to a successor of g, and to the next stage only
\* when the result lost.
LEMMA OnResultType ==
  ASSUME NEW s \in SignalState, s.stage \in Stages,
         NEW r \in Results, NEW n \in Int
  PROVE  /\ OnResult(s, r, n) \in SignalState
         /\ OnResult(s, r, n).state \in Successors(s.stage)
         /\ OnResult(s, r, n).state \in PlacedStates =>
              /\ OnResult(s, r, n).stage \in Stages
              /\ OnResult(s, r, n).state = PlacedState(OnResult(s, r, n).stage)
              /\ OnResult(s, r, n).stage = NextStage(s.stage)
              /\ s.stage # "gale2" /\ r \in Losing
         /\ r = "error" => OnResult(s, r, n).state = "error"
<1> DEFINE cumulative == s.cum + StagePnl(s.stage, r)
<1>1. cumulative \in Int
  BY AmountAssumption DEF StagePnl, AmountForStage, SignalState
<1>2. CASE r = "win"
  <2>1. OnResult(s, r, n) = ToTerminal(s, "done_win", cumulative)
    BY <1>2 DEF OnResult, AdvanceAfterResult, Losing
  <2> QED
    BY <1>1, <1>2, <2>1 DEF ToTerminal, SignalState, States, PlacedStates,
       FinalStates, Stages, Reasons, Successors
<1>3. CASE r = "error"
  <2>1. OnResult(s, r, n) = ToError(s, "broker_unavailable", cumulative)
    BY <1>3 DEF OnResult, AdvanceAfterResult, Losing
  <2> QED
    BY <1>1, <1>3, <2>1 DEF ToError, SignalState, States, PlacedStates,
       FinalStates, Stages, Reasons, Successors
<1>4. CASE r \in Losing /\ s.stage = "gale2"
  <2>1. OnResult(s, r, n) = ToTerminal(s, "done_loss", cumulative)
    BY <1>4 DEF OnResult, AdvanceAfterResult, Losing
  <2> QED
    BY <1>1, <1>4, <2>1 DEF ToTerminal, SignalState, States, PlacedStates,
       FinalStates, Stages, Reasons, Successors, Losing
<1>5. CASE r \in Losing /\ s.stage # "gale2" /\ n > NextTrigger(s) + Tolerance
  <2>1. OnResult(s, r, n) = ToError(s, "signal_expired", cumulative)
    BY <1>5 DEF OnResult, AdvanceAfterResult, Losing
  <2> QED
    BY <1>1, <1>5, <2>1 DEF ToError, SignalState, States, PlacedStates,
       FinalStates, Stages, Reasons, Successors, Losing
<1>6. CASE r \in Losing /\ s.stage # "gale2" /\ ~(n > NextTrigger(s) + Tolerance)
  <2>1. OnResult(s, r, n) = ToPlaced(s, NextStage(s.stage), cumulative)
    BY <1>6 DEF OnResult, AdvanceAfterResult, Losing
  <2> QED
    BY <1>1, <1>6, <2>1, TimeAssumption DEF ToPlaced, SignalState, States,
       PlacedStates, FinalStates, Stages, Reasons, Successors, Losing,
       PlacedState, NextStage
<1> QED
  BY <1>2, <1>3, <1>4, <1>5, <1>6 DEF Results, Losing

-----------------------------------------------------------------------------
(* The frame: what a step of one task leaves alone.                        *)

\* A step that changes the locals of task t, the row and the orders of its
\* signal, and nothing else that the invariant speaks of.
Touches(t) ==
  /\ \A u \in Task : u # t => pc'[u] = pc[u] /\ st'[u] = st[u] /\ bet'[u] = bet[u]
  /\ \A s \in Signals : s # t[1] => signals'[s] = signals[s] /\ trades'[s] = trades[s]
  /\ signals[t[1]] # "none" => signals'[t[1]] # "none"
  /\ UNCHANGED <<proc, inserted, queue, snapshot, timeout>>

\* TaskAgrees(u) only depends on the task's locals and its signal's row.
LEMMA AgreesFrame ==
  ASSUME NEW u \in Task, TaskAgrees(u),
         pc'[u] = pc[u], st'[u] = st[u], bet'[u] = bet[u],
         signals'[u[1]] = signals[u[1]], trades'[u[1]] = trades[u[1]]
  PROVE  TaskAgrees(u)'
BY DEF TaskAgrees, AtStage, InStep, Fresh, Advanced

\* A task that is gone agrees with anything.
LEMMA FreeAgrees ==
  ASSUME NEW u \in Task, pc'[u] = "free" PROVE TaskAgrees(u)'
BY DEF TaskAgrees

\* A signal that has a task is neither held elsewhere nor in the snapshot.
LEMMA Owned ==
  ASSUME Exclusive, NEW t \in Task, pc[t] # "free"
  PROVE  /\ t[1] \in Signals /\ signals[t[1]] # "none"
         /\ ~(inserted[t[1]] > 0) /\ ~Queued(t[1]) /\ snapshot[t[1]] = "none"
         /\ \A u \in Task : u # t /\ u[1] = t[1] => pc[u] = "free"
<1>1. t[1] \in Signals /\ t[2] \in Slots /\ t = <<t[1], t[2]>>
  BY DEF Task
<1>2. ~Unattended(t[1])
  BY <1>1 DEF Unattended
<1> QED
  BY <1>1, <1>2 DEF Exclusive, OneSupervisor

\* Such a step preserves the ownership, the phases and the other tasks' view.
LEMMA Frame ==
  ASSUME Exclusive, Phases, Agreement, NEW t \in Task, pc[t] # "free", Touches(t)
  PROVE  Exclusive' /\ Phases' /\ (TaskAgrees(t)' => Agreement')
<1>1. /\ t[1] \in Signals /\ signals[t[1]] # "none"
      /\ ~(inserted[t[1]] > 0) /\ ~Queued(t[1]) /\ snapshot[t[1]] = "none"
      /\ \A u \in Task : u # t /\ u[1] = t[1] => pc[u] = "free"
  BY Owned
<1>2. \A s \in Signals : s # t[1] /\ Unattended(s) => Unattended(s)'
  <2> SUFFICES ASSUME NEW s \in Signals, s # t[1], Unattended(s), NEW k \in Slots
               PROVE  pc'[<<s, k>>] = "free"
    BY DEF Unattended
  <2>1. <<s, k>> \in Task /\ <<s, k>> # t
    BY DEF Task
  <2> QED
    BY <2>1 DEF Touches, Unattended
<1>3. \A s \in Signals : Queued(s)' <=> Queued(s)
  BY DEF Touches, Queued
<1>4. OneSupervisor'
  BY <1>1 DEF Touches, Exclusive, OneSupervisor
<1>5. \A u \in Task : pc'[u] # "free" => signals'[u[1]] # "none"
  <2> SUFFICES ASSUME NEW u \in Task, pc'[u] # "free" PROVE signals'[u[1]] # "none"
    OBVIOUS
  <2>1. u[1] \in Signals
    BY DEF Task
  <2> QED
    BY <1>1, <2>1 DEF Touches, Exclusive
<1>6. Exclusive'
  BY <1>1, <1>2, <1>3, <1>4, <1>5 DEF Touches, Exclusive
<1>7. Phases'
  <2>1. proc' \in {"down", "boot"} => \A u \in Task : pc'[u] = "free"
    BY DEF Touches, Phases
  <2> QED
    BY <1>1, <2>1 DEF Touches, Phases
<1>8. ASSUME TaskAgrees(t)' PROVE Agreement'
  <2> SUFFICES ASSUME NEW u \in Task, u # t PROVE TaskAgrees(u)'
    BY <1>8 DEF Agreement
  <2>1. CASE u[1] = t[1]
    BY <1>1, <2>1, FreeAgrees DEF Touches
  <2>2. CASE u[1] # t[1]
    <3>1. u[1] \in Signals
      BY DEF Task
    <3> QED
      BY <2>2, <3>1, AgreesFrame DEF Touches, Agreement
  <2> QED
    BY <2>1, <2>2
<1> QED
  BY <1>6, <1>7, <1>8

-----------------------------------------------------------------------------
(* The orders.                                                             *)

Orders == WriteAhead /\ NoDuplicateTrade /\ Ordered

\* A step that leaves the statuses and the orders alone.
LEMMA OrdersFrame ==
  ASSUME Orders, UNCHANGED <<signals, trades>> PROVE Orders'
BY DEF Orders, WriteAhead, NoDuplicateTrade, Ordered

\* A row that moves along the cascade stays ahead of its orders.
LEMMA OrdersMove ==
  ASSUME Orders, StoreTypeOK, NEW s \in Signals, NEW v,
         signals' = [signals EXCEPT ![s] = v], UNCHANGED trades,
         \/ signals[s] \in {"none", "pending"} /\ v \in States
         \/ signals[s] \in PlacedStates /\ v \in FinalStates
         \/ \E g \in {"initial", "gale1"} :
              signals[s] = PlacedState(g) /\ v = PlacedState(NextStage(g))
  PROVE  Orders'
<1>1. NoDuplicateTrade' /\ Ordered'
  BY DEF Orders, NoDuplicateTrade, Ordered
<1>2. \A r \in Signals, g \in Stages : trades[r][g] > 0 => signals'[r] \in Reached(g)
  <2> SUFFICES ASSUME NEW r \in Signals, NEW g \in Stages, trades[r][g] > 0
               PROVE  signals'[r] \in Reached(g)
    OBVIOUS
  <2>1. signals[r] \in Reached(g)
    BY DEF Orders, WriteAhead
  <2>2. CASE r # s
    BY <2>1, <2>2 DEF StoreTypeOK
  <2>3. CASE r = s
    <3>1. signals'[s] = v
      BY DEF StoreTypeOK
    <3>2. signals[s] \notin {"none", "pending"}
      BY <2>1, <2>3 DEF Reached, FinalStates, PlacedState, Stages
    <3>3. CASE v \in FinalStates
      BY <2>3, <3>1, <3>3 DEF Reached
    <3>4. CASE signals[s] = "placed_initial" /\ v = "placed_gale1"
      BY <2>1, <2>3, <3>1, <3>4 DEF Reached, FinalStates, PlacedState, Stages, StageOffset
    <3>5. CASE signals[s] = "placed_gale1" /\ v = "placed_gale2"
      BY <2>1, <2>3, <3>1, <3>5 DEF Reached, FinalStates, PlacedState, Stages, StageOffset
    <3> QED
      BY <3>2, <3>3, <3>4, <3>5 DEF PlacedState, NextStage
  <2> QED
    BY <2>2, <2>3
<1> QED
  BY <1>1, <1>2 DEF Orders, WriteAhead, Reached

\* An order of the stage that the row is at, when it had none.
LEMMA OrdersExecute ==
  ASSUME Orders, SupervisorTypeOK, NEW t \in Task, bet[t].stage \in Stages,
         AtStage(t, bet[t].stage, 0), Executed(t), UNCHANGED signals
  PROVE  Orders' /\ trades'[t[1]][bet[t].stage] = 1
<1> DEFINE s == t[1]
           g == bet[t].stage
<1>1. s \in Signals /\ g \in Stages
  BY DEF Task
<1>2. trades' = [trades EXCEPT ![s][g] = @ + 1]
  BY DEF Executed
<1>3. trades'[s][g] = 1
  BY <1>1, <1>2 DEF SupervisorTypeOK, AtStage
<1>4. \A r \in Signals, h \in Stages : r # s \/ h # g => trades'[r][h] = trades[r][h]
  BY <1>1, <1>2 DEF SupervisorTypeOK
<1>5. WriteAhead'
  <2> SUFFICES ASSUME NEW r \in Signals, NEW h \in Stages, trades'[r][h] > 0
               PROVE  signals[r] \in Reached(h)
    BY DEF WriteAhead, Reached
  <2>1. CASE r = s /\ h = g
    BY <1>1, <2>1 DEF AtStage, Reached, StageOffset, Stages
  <2>2. CASE r # s \/ h # g
    BY <1>4, <2>2 DEF Orders, WriteAhead
  <2> QED
    BY <2>1, <2>2
<1>6. NoDuplicateTrade'
  BY <1>3, <1>4 DEF Orders, NoDuplicateTrade
<1>7. Ordered'
  <2> SUFFICES ASSUME NEW r \in Signals, NEW h \in {"gale1", "gale2"}, trades'[r][h] > 0
               PROVE  trades'[r][PreviousStage(h)] = 1
    BY DEF Ordered, PreviousStage
  <2>1. h \in Stages /\ PreviousStage(h) \in Stages /\ PreviousStage(h) # h
    BY DEF PreviousStage, Stages
  <2>2. CASE r = s /\ h = g
    BY <1>1, <1>4, <2>1, <2>2 DEF AtStage
  <2>3. CASE r # s \/ h # g
    <3>1. trades[r][PreviousStage(h)] = 1
      BY <1>4, <2>1, <2>3 DEF Orders, Ordered
    <3> QED
      BY <1>1, <1>3, <1>4, <2>1, <3>1
  <2> QED
    BY <2>2, <2>3
<1> QED
  BY <1>3, <1>5, <1>6, <1>7 DEF Orders

-----------------------------------------------------------------------------
(* The steps of a supervisor, one lemma per action.                        *)

\* What SupervisorStep leaves alone.
Outside == <<proc, listenerVars, recoveryVars, crashes>>

\* The parts from which each of these lemmas is put together.
LEMMA StepSafe ==
  ASSUME Safe, NEW t \in Task, pc[t] # "free", UNCHANGED Outside,
         StoreTypeOK', SupervisorTypeOK', Touches(t), TaskAgrees(t)', Orders'
  PROVE  Safe'
<1>1. TypeOK'
  BY DEF Safe, TypeOK, Outside, listenerVars, recoveryVars
<1>2. Exclusive' /\ Phases' /\ Agreement'
  BY Frame DEF Safe
<1> QED
  BY <1>1, <1>2 DEF Safe, Orders

\* A move of the program counter.
LEMMA GotoFacts ==
  ASSUME SupervisorTypeOK, NEW t \in Task, NEW label \in Labels, Goto(t, label)
  PROVE  /\ pc' \in [Task -> Labels]
         /\ pc'[t] = label
         /\ \A u \in Task : u # t => pc'[u] = pc[u]
BY DEF SupervisorTypeOK, Goto

\* The end of a task.
LEMMA EndFacts ==
  ASSUME SupervisorTypeOK, NEW t \in Task, End(t)
  PROVE  /\ pc' \in [Task -> Labels] /\ st' \in [Task -> SignalState]
         /\ bet' \in [Task -> Bet] /\ deadline' \in [Task -> Int]
         /\ pc'[t] = "free"
         /\ \A u \in Task : u # t => pc'[u] = pc[u] /\ st'[u] = st[u] /\ bet'[u] = bet[u]
<1>1. FromSignal(0) \in SignalState /\ NoBet \in Bet /\ "free" \in Labels
  BY FromSignalType DEF NoBet, Bet, Labels
<1> QED
  BY <1>1, GotoFacts DEF SupervisorTypeOK, End

\* A task that ends without touching the row or the orders.
LEMMA EndSafe ==
  ASSUME Safe, NEW t \in Task, pc[t] # "free", UNCHANGED Outside, End(t),
         UNCHANGED <<storeVars, now, trades>>, told' \in [Signals -> SUBSET DmType]
  PROVE  Safe'
<1>1. SupervisorTypeOK
  BY DEF Safe, TypeOK
<1>2. StoreTypeOK'
  BY DEF Safe, TypeOK, StoreTypeOK, storeVars
<1>3. SupervisorTypeOK'
  BY <1>1, EndFacts DEF SupervisorTypeOK
<1>4. Touches(t)
  BY <1>1, EndFacts DEF Touches, Outside, storeVars, listenerVars, recoveryVars
<1>5. TaskAgrees(t)'
  BY <1>1, EndFacts, FreeAgrees
<1>6. Orders'
  BY OrdersFrame DEF Safe, Orders, storeVars
<1> QED
  BY <1>2, <1>3, <1>4, <1>5, <1>6, StepSafe

\* A task that moves on without touching the row or the orders.
LEMMA MoveSafe ==
  ASSUME Safe, NEW t \in Task, pc[t] # "free", UNCHANGED Outside,
         NEW label \in Labels, Goto(t, label), UNCHANGED <<signals, trades, now>>,
         StoreTypeOK',
         st' \in [Task -> SignalState], bet' \in [Task -> Bet],
         deadline' \in [Task -> Int], told' \in [Signals -> SUBSET DmType],
         \A u \in Task : u # t => st'[u] = st[u] /\ bet'[u] = bet[u],
         TaskAgrees(t)'
  PROVE  Safe'
<1>1. SupervisorTypeOK
  BY DEF Safe, TypeOK
<1>2. SupervisorTypeOK'
  BY <1>1, GotoFacts DEF SupervisorTypeOK
<1>3. Touches(t)
  BY <1>1, GotoFacts DEF Touches, Outside, listenerVars, recoveryVars
<1>4. Orders'
  BY OrdersFrame DEF Safe, Orders
<1> QED
  BY <1>2, <1>3, <1>4, StepSafe

\* update_signal_state keeps the tables well typed.
LEMMA UpdateType ==
  ASSUME StoreTypeOK, NEW s \in Signals, NEW status \in States, NEW why \in Reasons,
         signals[s] # "none", UpdateSignalState(s, status, why)
  PROVE  /\ StoreTypeOK'
         /\ signals' = [signals EXCEPT ![s] = status]
BY DEF StoreTypeOK, UpdateSignalState

\* A DM keeps the type of told.
LEMMA TellType ==
  ASSUME SupervisorTypeOK, NEW s \in Signals, NEW dm \in DmType, Tell(s, dm)
  PROVE  told' \in [Signals -> SUBSET DmType]
BY DEF SupervisorTypeOK, Tell

\* A task that moves on while the tables and the orders stay as they are.
LEMMA QuietSafe ==
  ASSUME Safe, NEW t \in Task, pc[t] # "free", UNCHANGED Outside,
         NEW label \in Labels, Goto(t, label), UNCHANGED <<storeVars, trades, now>>,
         st' \in [Task -> SignalState], bet' \in [Task -> Bet],
         deadline' \in [Task -> Int], told' \in [Signals -> SUBSET DmType],
         \A u \in Task : u # t => st'[u] = st[u] /\ bet'[u] = bet[u],
         TaskAgrees(t)'
  PROVE  Safe'
<1>1. StoreTypeOK' /\ UNCHANGED signals
  BY DEF Safe, TypeOK, StoreTypeOK, storeVars
<1> QED
  BY <1>1, MoveSafe

\* A task is that of one of the signals.
LEMMA TaskSignal == ASSUME NEW t \in Task PROVE t[1] \in Signals
BY DEF Task

\* The limit check chooses the way to go and writes nothing.
LEMMA CheckDailyLimitSafe ==
  ASSUME Safe, NEW t \in Task, CheckDailyLimit(t), UNCHANGED Outside
  PROVE  Safe'
<1> DEFINE label == IF LimitHit(DateOf[t[1]]) THEN "rejectWrite" ELSE "idem"
<1>1. SupervisorTypeOK /\ TaskAgrees(t)
  BY DEF Safe, TypeOK, Agreement
<1>2. label \in {"rejectWrite", "idem"} /\ label \in Labels
  BY DEF Labels
<1>3. TaskAgrees(t)'
  BY <1>1, <1>2, GotoFacts DEF CheckDailyLimit, TaskAgrees, storeVars
<1> QED
  BY <1>1, <1>2, <1>3, QuietSafe DEF CheckDailyLimit, SupervisorTypeOK

\* The task of a rejected signal ends after its DM.
LEMMA RejectTellSafe ==
  ASSUME Safe, NEW t \in Task, RejectTell(t), UNCHANGED Outside
  PROVE  Safe'
<1>1. SupervisorTypeOK /\ t[1] \in Signals
  BY TaskSignal DEF Safe, TypeOK
<1>2. told' \in [Signals -> SUBSET DmType]
  <2>1. Dm("rejected", "none", 0) \in DmType
    BY DEF Dm, DmType, DmKinds
  <2> QED
    BY <1>1, <2>1, TellType DEF RejectTell
<1> QED
  BY <1>1, <1>2, EndSafe DEF RejectTell

\* A signal that is not pending any more is left alone.
LEMMA DuplicateAtIntakeSafe ==
  ASSUME Safe, NEW t \in Task, DuplicateAtIntake(t), UNCHANGED Outside
  PROVE  Safe'
BY EndSafe DEF DuplicateAtIntake, Safe, TypeOK, SupervisorTypeOK

\* A cascade starts in the fresh state, of a pending row.
LEMMA StartCascadeSafe ==
  ASSUME Safe, NEW t \in Task, StartCascade(t), UNCHANGED Outside
  PROVE  Safe'
<1>1. SupervisorTypeOK /\ t[1] \in Signals /\ "receivedTell" \in Labels
  BY TaskSignal DEF Safe, TypeOK, Labels
<1>2. signals[t[1]] = "pending"
  BY <1>1 DEF StartCascade, MayDrive, Safe, Exclusive
<1>3. FromSignal(Trigger[t[1]]) \in SignalState
  BY <1>1, FromSignalType, SignalAssumption
<1>4. /\ st' \in [Task -> SignalState] /\ st'[t] = FromSignal(Trigger[t[1]])
      /\ \A u \in Task : u # t => st'[u] = st[u]
  BY <1>1, <1>3 DEF StartCascade, SupervisorTypeOK
<1>5. TaskAgrees(t)'
  BY <1>1, <1>2, <1>4, GotoFacts DEF StartCascade, TaskAgrees, Fresh, FromSignal, storeVars
<1> QED
  BY <1>1, <1>4, <1>5, QuietSafe DEF StartCascade, SupervisorTypeOK

\* The initial stage is armed.
LEMMA ReceivedTellSafe ==
  ASSUME Safe, NEW t \in Task, ReceivedTell(t), UNCHANGED Outside
  PROVE  Safe'
<1>1. SupervisorTypeOK /\ t[1] \in Signals /\ "armed" \in Labels /\ TaskAgrees(t)
  BY TaskSignal DEF Safe, TypeOK, Labels, Agreement
<1>2. told' \in [Signals -> SUBSET DmType]
  <2>1. Dm("received", "none", 0) \in DmType
    BY DEF Dm, DmType, DmKinds
  <2> QED
    BY <1>1, <2>1, TellType DEF ReceivedTell
<1>3. TaskAgrees(t)'
  BY <1>1, GotoFacts DEF ReceivedTell, TaskAgrees, Fresh, storeVars
<1> QED
  BY <1>1, <1>2, <1>3, QuietSafe DEF ReceivedTell, SupervisorTypeOK

\* The fired state is placed_initial or error, the row still pending.
LEMMA FireEventSafe ==
  ASSUME Safe, NEW t \in Task, FireEvent(t), UNCHANGED Outside
  PROVE  Safe'
<1>1. /\ SupervisorTypeOK /\ t[1] \in Signals /\ "fireWrite" \in Labels
      /\ TaskAgrees(t) /\ now \in Int /\ st[t] \in SignalState
  BY TaskSignal DEF Safe, TypeOK, Labels, Agreement, SupervisorTypeOK
<1>2. signals[t[1]] = "pending" /\ Fresh(t)
  BY <1>1 DEF FireEvent, Due, AcceptsFire, TaskAgrees, InStep, PlacedState, Stages
<1>3. /\ OnFire(st[t], now) \in SignalState
      /\ \/ OnFire(st[t], now).state = "error"
         \/ OnFire(st[t], now).state = "placed_initial" /\ OnFire(st[t], now).stage = "initial"
  BY <1>1, <1>2, OnFireType DEF Fresh
<1>4. /\ st' \in [Task -> SignalState] /\ st'[t] = OnFire(st[t], now)
      /\ \A u \in Task : u # t => st'[u] = st[u]
  BY <1>1, <1>3 DEF FireEvent, SupervisorTypeOK
<1>5. TaskAgrees(t)'
  BY <1>1, <1>2, <1>3, <1>4, GotoFacts DEF FireEvent, TaskAgrees, storeVars
<1> QED
  BY <1>1, <1>4, <1>5, QuietSafe DEF FireEvent, Due, SupervisorTypeOK

\* What the armed and placing tasks of a gale stage know.
LEMMA FireGaleSafe ==
  ASSUME Safe, NEW t \in Task, FireGale(t), UNCHANGED Outside
  PROVE  Safe'
<1>1. /\ SupervisorTypeOK /\ t[1] \in Signals /\ "place" \in Labels
      /\ TaskAgrees(t) /\ now \in Nat
  BY TaskSignal DEF Safe, TypeOK, Labels, Agreement, SupervisorTypeOK
<1>2. InStep(t) /\ AtStage(t, st[t].stage, 0) /\ st[t].stage \in Stages
  BY <1>1 DEF FireGale, Due, AcceptsFire, TaskAgrees, Fresh, AtStage
<1>3. /\ bet' \in [Task -> Bet] /\ bet'[t].stage = st[t].stage
      /\ \A u \in Task : u # t => bet'[u] = bet[u]
  BY <1>1, <1>2 DEF FireGale, OpenBet, SupervisorTypeOK, Bet
<1>4. TaskAgrees(t)'
  BY <1>1, <1>2, <1>3, GotoFacts
     DEF FireGale, TaskAgrees, InStep, AtStage, storeVars
<1> QED
  BY <1>1, <1>3, <1>4, QuietSafe DEF FireGale, Due, SupervisorTypeOK

\* The task of an expired signal goes on to its last DM.
LEMMA ExpiredTellSafe ==
  ASSUME Safe, NEW t \in Task, ExpiredTell(t), UNCHANGED Outside
  PROVE  Safe'
<1>1. /\ SupervisorTypeOK /\ t[1] \in Signals /\ "completeTell" \in Labels
      /\ TaskAgrees(t)
  BY TaskSignal DEF Safe, TypeOK, Labels, Agreement
<1>2. told' \in [Signals -> SUBSET DmType]
  <2>1. Dm("expired", "none", 0) \in DmType
    BY DEF Dm, DmType, DmKinds
  <2> QED
    BY <1>1, <2>1, TellType DEF ExpiredTell
<1>3. TaskAgrees(t)'
  BY <1>1, GotoFacts DEF ExpiredTell, TaskAgrees, FinalStates, storeVars
<1> QED
  BY <1>1, <1>2, <1>3, QuietSafe DEF ExpiredTell, SupervisorTypeOK

\* A refused pair leaves the row and the orders as they were.
LEMMA PlaceUnsupportedSafe ==
  ASSUME Safe, NEW t \in Task, PlaceUnsupported(t), UNCHANGED Outside
  PROVE  Safe'
<1>1. SupervisorTypeOK /\ "pairTell" \in Labels /\ TaskAgrees(t)
  BY DEF Safe, TypeOK, Labels, Agreement
<1>2. TaskAgrees(t)'
  BY <1>1, GotoFacts DEF PlaceUnsupported, TaskAgrees, InStep, AtStage, storeVars
<1> QED
  BY <1>1, <1>2, QuietSafe DEF PlaceUnsupported, SupervisorTypeOK

\* The local state goes to error before the row does.
LEMMA PairTellSafe ==
  ASSUME Safe, NEW t \in Task, PairTell(t), UNCHANGED Outside
  PROVE  Safe'
<1>1. /\ SupervisorTypeOK /\ t[1] \in Signals /\ "errorWrite" \in Labels
      /\ TaskAgrees(t) /\ now \in Int /\ st[t] \in SignalState
  BY TaskSignal DEF Safe, TypeOK, Labels, Agreement, SupervisorTypeOK
<1>2. InStep(t) /\ st[t].stage \in Stages /\ signals[t[1]] \in PlacedStates
  BY <1>1 DEF PairTell, TaskAgrees, InStep, AtStage, PlacedState, PlacedStates, Stages
<1>3. OnResult(st[t], "error", now) \in SignalState
      /\ OnResult(st[t], "error", now).state = "error"
  BY <1>1, <1>2, OnResultType DEF Results
<1>4. /\ st' \in [Task -> SignalState] /\ st'[t].state = "error"
      /\ \A u \in Task : u # t => st'[u] = st[u]
  BY <1>1, <1>3 DEF PairTell, SupervisorTypeOK
<1>5. told' \in [Signals -> SUBSET DmType]
  <2>1. Dm("pair_unavailable", "none", 0) \in DmType
    BY DEF Dm, DmType, DmKinds
  <2> QED
    BY <1>1, <2>1, TellType DEF PairTell
<1>6. TaskAgrees(t)'
  BY <1>1, <1>2, <1>4, GotoFacts DEF PairTell, TaskAgrees, storeVars
<1> QED
  BY <1>1, <1>4, <1>5, <1>6, QuietSafe DEF PairTell, SupervisorTypeOK

\* The deadline of the result is set; the stage has its one order.
LEMMA PlacedTellSafe ==
  ASSUME Safe, NEW t \in Task, PlacedTell(t), UNCHANGED Outside
  PROVE  Safe'
<1>1. /\ SupervisorTypeOK /\ t[1] \in Signals /\ "waiting" \in Labels
      /\ TaskAgrees(t) /\ now \in Int /\ st[t] \in SignalState
  BY TaskSignal DEF Safe, TypeOK, Labels, Agreement, SupervisorTypeOK
<1>2. bet[t].stage \in Stages
  BY <1>1 DEF PlacedTell, TaskAgrees, InStep
<1>3. told' \in [Signals -> SUBSET DmType]
  <2>1. Dm("placed", bet[t].stage, 0) \in DmType
    BY <1>2 DEF Dm, DmType, DmKinds
  <2> QED
    BY <1>1, <2>1, TellType DEF PlacedTell
<1>4. ResultDeadline(t) \in Int
  BY <1>1, SupervisorAssumption DEF ResultDeadline, SignalState
<1>5. deadline' \in [Task -> Int]
  BY <1>1, <1>4 DEF PlacedTell, SupervisorTypeOK
<1>6. TaskAgrees(t)'
  BY <1>1, GotoFacts DEF PlacedTell, TaskAgrees, InStep, AtStage, storeVars
<1> QED
  BY <1>1, <1>3, <1>5, <1>6, QuietSafe DEF PlacedTell, SupervisorTypeOK

\* Whatever the result is, and whenever it arrives.
LEMMA GotResultSafe ==
  ASSUME Safe, NEW t \in Task, pc[t] = "waiting", NEW r \in Results,
         GotResult(t, r), UNCHANGED Outside
  PROVE  Safe'
<1>1. /\ SupervisorTypeOK /\ "resultWrite" \in Labels
      /\ TaskAgrees(t) /\ now \in Int /\ st[t] \in SignalState
  BY DEF Safe, TypeOK, Labels, Agreement, SupervisorTypeOK
<1>2. InStep(t) /\ bet[t].stage = st[t].stage /\ AtStage(t, st[t].stage, 1)
  BY <1>1 DEF TaskAgrees
<1> DEFINE new == OnResult(st[t], r, now)
<1>3. /\ new \in SignalState
      /\ new.state \in Successors(st[t].stage)
      /\ new.state \in PlacedStates =>
           /\ new.stage \in Stages /\ new.state = PlacedState(new.stage)
           /\ new.stage = NextStage(st[t].stage)
           /\ st[t].stage # "gale2" /\ r \in Losing
  BY <1>1, <1>2, OnResultType DEF InStep
<1>4. /\ st' \in [Task -> SignalState] /\ st'[t] = new
      /\ bet' \in [Task -> Bet] /\ bet'[t] = [bet[t] EXCEPT !.result = r]
      /\ \A u \in Task : u # t => st'[u] = st[u] /\ bet'[u] = bet[u]
  <2> HIDE DEF new
  <2>1. st' = [st EXCEPT ![t] = new] /\ bet' = [bet EXCEPT ![t].result = r]
    BY DEF GotResult, new
  <2> QED
    BY <1>1, <1>3, <2>1 DEF SupervisorTypeOK, Bet
<1>5. bet'[t].stage = st[t].stage /\ bet'[t].result = r
  BY <1>1, <1>2, <1>4 DEF SupervisorTypeOK, Bet
<1>6. TaskAgrees(t)'
  <2> HIDE DEF new
  <2>1. pc'[t] = "resultWrite"
    BY <1>1, GotoFacts DEF GotResult
  <2>2. Advanced(t)'
    BY <1>2, <1>3, <1>4, <1>5 DEF Advanced, InStep
  <2>3. AtStage(t, bet[t].stage, 1)'
    BY <1>2, <1>5 DEF AtStage, GotResult, storeVars
  <2> QED
    BY <2>1, <2>2, <2>3 DEF TaskAgrees
<1> QED
  BY <1>1, <1>4, <1>6, QuietSafe DEF GotResult, SupervisorTypeOK

\* The next stage is armed with the row already at that stage.
LEMMA ResultTellSafe ==
  ASSUME Safe, NEW t \in Task, ResultTell(t), UNCHANGED Outside
  PROVE  Safe'
<1> DEFINE label == IF st[t].state \in FinalStates THEN "completeTell" ELSE "armed"
<1>1. /\ SupervisorTypeOK /\ t[1] \in Signals /\ label \in Labels
      /\ TaskAgrees(t) /\ st[t] \in SignalState /\ bet[t] \in Bet
  BY TaskSignal DEF Safe, TypeOK, Labels, Agreement, SupervisorTypeOK
<1>2. /\ Advanced(t) /\ signals[t[1]] = st[t].state
      /\ st[t].state \in PlacedStates => AtStage(t, st[t].stage, 0)
  BY <1>1 DEF ResultTell, TaskAgrees
<1>3. told' \in [Signals -> SUBSET DmType]
  <2> DEFINE dm == Dm(IF bet[t].result = "win" THEN "win" ELSE "loss", bet[t].stage, st[t].cum)
  <2>1. dm \in DmType
    BY <1>1 DEF Dm, DmType, DmKinds, Bet, SignalState
  <2> QED
    BY <1>1, <2>1, TellType DEF ResultTell
<1>4. TaskAgrees(t)'
  <2>1. pc'[t] = label
    BY <1>1, GotoFacts DEF ResultTell
  <2>2. st[t].state \in PlacedStates \union FinalStates
    BY <1>2 DEF Advanced, Successors, PlacedStates, FinalStates, PlacedState,
       NextStage, Stages
  <2>3. CASE st[t].state \in FinalStates
    BY <1>2, <2>1, <2>3 DEF ResultTell, TaskAgrees, storeVars
  <2>4. CASE st[t].state \in PlacedStates
    <3>1. st[t].state \notin FinalStates
      BY <2>4 DEF PlacedStates, FinalStates
    <3>2. InStep(t) /\ st[t].stage # "initial" /\ AtStage(t, st[t].stage, 0)
      BY <1>2, <2>4 DEF Advanced, NextStage
    <3> QED
      BY <2>1, <3>1, <3>2 DEF ResultTell, TaskAgrees, InStep, AtStage, storeVars
  <2> QED
    BY <2>2, <2>3, <2>4
<1> QED
  BY <1>1, <1>3, <1>4, QuietSafe DEF ResultTell, SupervisorTypeOK

\* The last DM ends the task.
LEMMA CompleteTellSafe ==
  ASSUME Safe, NEW t \in Task, CompleteTell(t), UNCHANGED Outside
  PROVE  Safe'
<1>1. SupervisorTypeOK /\ t[1] \in Signals /\ st[t] \in SignalState
  BY TaskSignal DEF Safe, TypeOK, SupervisorTypeOK
<1>2. told' \in [Signals -> SUBSET DmType]
  <2>1. Dm("complete", st[t].state, st[t].cum) \in DmType
    BY <1>1 DEF Dm, DmType, DmKinds, SignalState
  <2> QED
    BY <1>1, <2>1, TellType DEF CompleteTell
<1> QED
  BY <1>1, <1>2, EndSafe DEF CompleteTell

\* A database error ends the task where it stands.
LEMMA DbFailsSafe ==
  ASSUME Safe, NEW t \in Task, DbFails(t), UNCHANGED Outside
  PROVE  Safe'
<1>1. pc[t] # "free"
  BY DEF DbFails, DbLabels
<1> QED
  BY <1>1, EndSafe DEF DbFails, Safe, TypeOK, SupervisorTypeOK

\* The row of the stage is inserted, or the task ends.
LEMMA StageWriteSafe ==
  ASSUME Safe, NEW t \in Task, StageWrite(t), UNCHANGED Outside
  PROVE  Safe'
<1>1. /\ SupervisorTypeOK /\ StoreTypeOK /\ t[1] \in Signals
      /\ "placedTell" \in Labels /\ TaskAgrees(t) /\ bet[t] \in Bet
  BY TaskSignal DEF Safe, TypeOK, Labels, Agreement, SupervisorTypeOK
<1>2. InStep(t) /\ bet[t].stage = st[t].stage /\ AtStage(t, st[t].stage, 1)
  BY <1>1 DEF StageWrite, TaskAgrees
<1>3. CASE StageExists(t[1], bet[t].stage, bet[t].at)
  BY <1>1, <1>3, EndSafe DEF StageWrite, SupervisorTypeOK
<1>4. CASE ~StageExists(t[1], bet[t].stage, bet[t].at)
  <2>1. /\ RecordStagePlaced(t[1], bet[t].stage, bet[t].at)
        /\ Goto(t, "placedTell") /\ UNCHANGED <<st, bet, deadline, now, trades, told>>
    BY <1>4 DEF StageWrite
  <2>2. [sig |-> t[1], stage |-> bet[t].stage, at |-> bet[t].at, result |-> "open"]
          \in StageRow
    BY <1>1, <1>2 DEF StageRow, Bet, InStep
  <2>3. StoreTypeOK' /\ UNCHANGED signals
    BY <1>1, <2>1, <2>2 DEF RecordStagePlaced, StoreTypeOK
  <2>4. TaskAgrees(t)'
    BY <1>1, <1>2, <2>1, <2>3, GotoFacts DEF TaskAgrees, InStep, AtStage
  <2> QED
    BY <1>1, <2>1, <2>3, <2>4, MoveSafe DEF StageWrite, SupervisorTypeOK
<1> QED
  BY <1>3, <1>4

\* The result changes a stage row, not the status.
LEMMA ResultWriteSafe ==
  ASSUME Safe, NEW t \in Task, ResultWrite(t), UNCHANGED Outside
  PROVE  Safe'
<1>1. /\ SupervisorTypeOK /\ StoreTypeOK /\ t[1] \in Signals
      /\ "stateWrite" \in Labels /\ TaskAgrees(t)
  BY TaskSignal DEF Safe, TypeOK, Labels, Agreement
<1>2. Advanced(t) /\ AtStage(t, bet[t].stage, 1)
  BY <1>1 DEF ResultWrite, TaskAgrees
<1>3. StoreTypeOK' /\ UNCHANGED signals
  <2>1. bet[t].result \in Results
    BY <1>2 DEF Advanced
  <2>2. \A row \in StageRow : [row EXCEPT !.result = bet[t].result] \in StageRow
    BY <2>1 DEF StageRow
  <2> QED
    BY <1>1, <2>2 DEF ResultWrite, RecordStageResult, StoreTypeOK
<1>4. TaskAgrees(t)'
  BY <1>1, <1>2, <1>3, GotoFacts DEF ResultWrite, TaskAgrees, Advanced, AtStage, InStep
<1> QED
  BY <1>1, <1>3, <1>4, MoveSafe DEF ResultWrite, SupervisorTypeOK

\* The summary changes, not the status.
LEMMA DailyWriteSafe ==
  ASSUME Safe, NEW t \in Task, DailyWrite(t), UNCHANGED Outside
  PROVE  Safe'
<1> DEFINE label == IF bet[t].result = "error" THEN "completeTell" ELSE "resultTell"
<1>1. /\ SupervisorTypeOK /\ StoreTypeOK /\ t[1] \in Signals
      /\ label \in Labels /\ TaskAgrees(t)
  BY TaskSignal DEF Safe, TypeOK, Labels, Agreement
<1>2. /\ Advanced(t) /\ signals[t[1]] = st[t].state
      /\ st[t].state \in PlacedStates => AtStage(t, st[t].stage, 0)
  BY <1>1 DEF DailyWrite, TaskAgrees
<1>3. StoreTypeOK' /\ UNCHANGED signals
  <2>1. StagePnl(bet[t].stage, bet[t].result) \in Int
    BY <1>2, StagePnlType DEF Advanced
  <2>2. DateOf[t[1]] \in Dates
    BY <1>1, SignalAssumption
  <2> QED
    BY <1>1, <2>1, <2>2 DEF DailyWrite, UpdateDailySummary, StoreTypeOK, Summary
<1>4. TaskAgrees(t)'
  <2>1. pc'[t] = label
    BY <1>1, GotoFacts DEF DailyWrite
  <2>2. CASE bet[t].result = "error"
    <3>1. st[t].state \in FinalStates
      BY <1>2, <2>2 DEF Advanced, Successors, FinalStates, PlacedStates, PlacedState,
         NextStage, Stages, Losing
    <3> QED
      BY <1>2, <1>3, <2>1, <2>2, <3>1 DEF DailyWrite, TaskAgrees
  <2>3. CASE bet[t].result # "error"
    BY <1>2, <1>3, <2>1, <2>3 DEF DailyWrite, TaskAgrees, Advanced, AtStage, InStep
  <2> QED
    BY <2>2, <2>3
<1> QED
  BY <1>1, <1>3, <1>4, MoveSafe DEF DailyWrite, SupervisorTypeOK

\* A task that moves its row along, and then itself.
LEMMA RowSafe ==
  ASSUME Safe, NEW t \in Task, pc[t] # "free", UNCHANGED Outside,
         NEW label \in Labels, Goto(t, label),
         NEW status \in States, NEW why \in Reasons,
         UpdateSignalState(t[1], status, why),
         UNCHANGED <<st, deadline, now, trades, told>>,
         bet' \in [Task -> Bet], \A u \in Task : u # t => bet'[u] = bet[u],
         \/ signals[t[1]] = "pending"
         \/ signals[t[1]] \in PlacedStates /\ status \in FinalStates
         \/ \E g \in {"initial", "gale1"} :
              signals[t[1]] = PlacedState(g) /\ status = PlacedState(NextStage(g)),
         TaskAgrees(t)'
  PROVE  Safe'
<1>1. SupervisorTypeOK /\ StoreTypeOK /\ t[1] \in Signals
  BY TaskSignal DEF Safe, TypeOK
<1>2. signals[t[1]] # "none"
  BY DEF Safe, Exclusive
<1>3. StoreTypeOK' /\ signals' = [signals EXCEPT ![t[1]] = status]
  BY <1>1, <1>2, UpdateType
<1>4. SupervisorTypeOK'
  BY <1>1, GotoFacts DEF SupervisorTypeOK
<1>5. Touches(t)
  <2>1. status # "none"
    BY DEF States, PlacedStates, FinalStates
  <2>2. signals'[t[1]] # "none" /\ \A s \in Signals : s # t[1] => signals'[s] = signals[s]
    BY <1>1, <1>3, <2>1 DEF StoreTypeOK
  <2> QED
    BY <1>1, <2>2, GotoFacts DEF Touches, Outside, listenerVars, recoveryVars
<1>6. Orders'
  BY <1>1, <1>3, OrdersMove DEF Safe, Orders
<1> QED
  BY <1>3, <1>4, <1>5, <1>6, StepSafe

\* The row of a rejected signal becomes error, final, whatever it was.
LEMMA RejectWriteSafe ==
  ASSUME Safe, NEW t \in Task, RejectWrite(t), UNCHANGED Outside
  PROVE  Safe'
<1>1. /\ SupervisorTypeOK /\ StoreTypeOK /\ t[1] \in Signals /\ "rejectTell" \in Labels
      /\ "error" \in States /\ "daily_limit_hit" \in Reasons
  BY TaskSignal DEF Safe, TypeOK, Labels, States, FinalStates, Reasons
<1>2. signals[t[1]] # "none"
  BY DEF Safe, Exclusive, RejectWrite

<1>3. signals[t[1]] \in {"pending"} \union PlacedStates
  BY DEF RejectWrite, Safe, Agreement, TaskAgrees
<1>4. signals' = [signals EXCEPT ![t[1]] = "error"]
  BY <1>1, <1>2, UpdateType DEF RejectWrite
<1>5. TaskAgrees(t)'
  BY <1>1, <1>4, GotoFacts DEF RejectWrite, TaskAgrees, StoreTypeOK
<1> QED
  <2>1. bet' \in [Task -> Bet] /\ UNCHANGED bet /\ pc[t] # "free"
    BY <1>1 DEF RejectWrite, SupervisorTypeOK
  <2> QED
    BY <1>1, <1>3, <1>5, <2>1, RowSafe DEF RejectWrite, FinalStates

\* The row becomes placed_initial before the order can go out.
LEMMA FireWriteSafe ==
  ASSUME Safe, NEW t \in Task, FireWrite(t), UNCHANGED Outside
  PROVE  Safe'
<1>1. /\ SupervisorTypeOK /\ StoreTypeOK /\ t[1] \in Signals /\ TaskAgrees(t)
      /\ "expiredTell" \in Labels /\ "place" \in Labels
      /\ st[t].state \in States /\ st[t].reason \in Reasons /\ now \in Nat
  BY TaskSignal DEF Safe, TypeOK, Labels, Agreement, SupervisorTypeOK, SignalState
<1>2. /\ signals[t[1]] = "pending"
      /\ \/ st[t].state = "error"
         \/ st[t].state = "placed_initial" /\ st[t].stage = "initial"
  BY <1>1 DEF FireWrite, TaskAgrees
<1>3. signals' = [signals EXCEPT ![t[1]] = st[t].state]
  BY <1>1, <1>2, UpdateType DEF FireWrite
<1>4. CASE st[t].state = "error"
  <2>1. Goto(t, "expiredTell") /\ UNCHANGED <<st, bet, deadline, now, trades, told>>
    BY <1>4 DEF FireWrite
  <2>2. TaskAgrees(t)'
    BY <1>1, <1>3, <1>4, <2>1, GotoFacts DEF TaskAgrees, StoreTypeOK
  <2>3. bet' \in [Task -> Bet]
    BY <1>1, <2>1 DEF SupervisorTypeOK
  <2> QED
    BY <1>1, <1>2, <2>1, <2>2, <2>3, RowSafe DEF FireWrite
<1>5. CASE st[t].state # "error"
  <2>1. /\ Goto(t, "place") /\ OpenBet(t)
        /\ UNCHANGED <<st, deadline, now, trades, told>>
    BY <1>5 DEF FireWrite
  <2>2. /\ bet' \in [Task -> Bet] /\ bet'[t].stage = "initial"
        /\ \A u \in Task : u # t => bet'[u] = bet[u]
    BY <1>1, <1>2, <1>5, <2>1 DEF OpenBet, SupervisorTypeOK, Bet, Stages
  <2>3. trades[t[1]]["initial"] = 0
    BY <1>1, <1>2 DEF Safe, WriteAhead, Reached, Stages, FinalStates, PlacedState,
       SupervisorTypeOK
  <2>4. TaskAgrees(t)'
    BY <1>1, <1>2, <1>3, <1>5, <2>1, <2>2, <2>3, GotoFacts
       DEF TaskAgrees, InStep, AtStage, Stages, PlacedState, StoreTypeOK
  <2> QED
    BY <1>1, <1>2, <2>1, <2>2, <2>4, RowSafe DEF FireWrite
<1> QED
  BY <1>4, <1>5

\* The row of a refused pair becomes error.
LEMMA ErrorWriteSafe ==
  ASSUME Safe, NEW t \in Task, ErrorWrite(t), UNCHANGED Outside
  PROVE  Safe'
<1>1. /\ SupervisorTypeOK /\ StoreTypeOK /\ t[1] \in Signals /\ TaskAgrees(t)
      /\ "completeTell" \in Labels
      /\ st[t].state \in States /\ st[t].reason \in Reasons
  BY TaskSignal DEF Safe, TypeOK, Labels, Agreement, SupervisorTypeOK, SignalState
<1>2. st[t].state = "error" /\ signals[t[1]] \in PlacedStates
  BY <1>1 DEF ErrorWrite, TaskAgrees
<1>3. signals' = [signals EXCEPT ![t[1]] = st[t].state]
  BY <1>1, <1>2, UpdateType DEF ErrorWrite, PlacedStates
<1>4. TaskAgrees(t)'
  BY <1>1, <1>2, <1>3, GotoFacts DEF ErrorWrite, TaskAgrees, StoreTypeOK, FinalStates
<1>5. bet' \in [Task -> Bet] /\ UNCHANGED bet
  BY <1>1 DEF ErrorWrite, SupervisorTypeOK
<1> QED
  BY <1>1, <1>2, <1>4, <1>5, RowSafe DEF ErrorWrite, FinalStates

\* The row moves to what follows the stage of the bet.
LEMMA StateWriteSafe ==
  ASSUME Safe, NEW t \in Task, StateWrite(t), UNCHANGED Outside
  PROVE  Safe'
<1>1. /\ SupervisorTypeOK /\ StoreTypeOK /\ t[1] \in Signals /\ TaskAgrees(t)
      /\ "dailyWrite" \in Labels
      /\ st[t].state \in States /\ st[t].reason \in Reasons
  BY TaskSignal DEF Safe, TypeOK, Labels, Agreement, SupervisorTypeOK, SignalState
<1>2. Advanced(t) /\ AtStage(t, bet[t].stage, 1)
  BY <1>1 DEF StateWrite, TaskAgrees
<1>3. signals[t[1]] \in PlacedStates
  BY <1>2 DEF AtStage, PlacedStates, PlacedState, Stages
<1>4. signals' = [signals EXCEPT ![t[1]] = st[t].state]
  BY <1>1, <1>3, UpdateType DEF StateWrite, PlacedStates
<1>5. \/ st[t].state \in FinalStates
      \/ \E g \in {"initial", "gale1"} :
           signals[t[1]] = PlacedState(g) /\ st[t].state = PlacedState(NextStage(g))
  BY <1>2 DEF Advanced, AtStage, Successors, FinalStates, Stages
<1>6. st[t].state \in PlacedStates => AtStage(t, st[t].stage, 0)'
  <2> SUFFICES ASSUME st[t].state \in PlacedStates PROVE AtStage(t, st[t].stage, 0)'
    OBVIOUS
  <2>1. /\ InStep(t) /\ bet[t].stage # "gale2" /\ st[t].stage = NextStage(bet[t].stage)
        /\ bet[t].stage \in Stages /\ st[t].stage \in Stages
    BY <1>2 DEF Advanced, InStep
  <2>2. signals'[t[1]] = PlacedState(st[t].stage)
    BY <1>1, <1>4, <2>1 DEF StoreTypeOK, InStep
  <2>3. trades[t[1]][st[t].stage] = 0
    <3>1. signals[t[1]] = PlacedState(bet[t].stage)
      BY <1>2 DEF AtStage
    <3>2. signals[t[1]] \notin Reached(st[t].stage)
      BY <2>1, <3>1 DEF Reached, Stages, StageOffset, PlacedState, FinalStates, NextStage
    <3> QED
      BY <1>1, <2>1, <3>2 DEF Safe, WriteAhead, SupervisorTypeOK
  <2>4. trades[t[1]][PreviousStage(st[t].stage)] = 1
    BY <1>2, <2>1 DEF AtStage, PreviousStage, NextStage, Stages
  <2> QED
    BY <2>1, <2>2, <2>3, <2>4 DEF AtStage, StateWrite
<1>7. TaskAgrees(t)'
  <2>1. pc'[t] = "dailyWrite" /\ UNCHANGED <<st, bet>>
    BY <1>1, GotoFacts DEF StateWrite
  <2>2. Advanced(t)' /\ signals'[t[1]] = st[t].state
    BY <1>1, <1>2, <1>4, <2>1 DEF Advanced, InStep, StoreTypeOK
  <2> QED
    BY <1>6, <2>1, <2>2 DEF TaskAgrees
<1>8. bet' \in [Task -> Bet] /\ UNCHANGED bet
  BY <1>1 DEF StateWrite, SupervisorTypeOK
<1> QED
  BY <1>1, <1>3, <1>5, <1>7, <1>8, RowSafe DEF StateWrite

\* The broker executes the order of a task that was at the call of place.
LEMMA ExecutedFacts ==
  ASSUME Safe, NEW t \in Task, pc[t] = "place", Executed(t), UNCHANGED signals
  PROVE  /\ trades' \in [Signals -> [Stages -> Nat]]
         /\ \A s \in Signals : s # t[1] => trades'[s] = trades[s]
         /\ Orders'
         /\ InStep(t) /\ bet[t].stage = st[t].stage
         /\ AtStage(t, st[t].stage, 0)
         /\ trades'[t[1]][bet[t].stage] = 1
         /\ st[t].stage # "initial" => trades'[t[1]][PreviousStage(st[t].stage)] = 1
<1>1. SupervisorTypeOK /\ t[1] \in Signals /\ TaskAgrees(t)
  BY TaskSignal DEF Safe, TypeOK, Agreement
<1>2. /\ InStep(t) /\ bet[t].stage = st[t].stage /\ AtStage(t, st[t].stage, 0)
      /\ bet[t].stage \in Stages
  BY <1>1 DEF TaskAgrees, InStep
<1>3. /\ trades' \in [Signals -> [Stages -> Nat]]
      /\ \A s \in Signals : s # t[1] => trades'[s] = trades[s]
  BY <1>1, <1>2 DEF Executed, SupervisorTypeOK
<1>4. Orders' /\ trades'[t[1]][bet[t].stage] = 1
  BY <1>1, <1>2, OrdersExecute DEF Safe, Orders
<1>5. st[t].stage # "initial" => trades'[t[1]][PreviousStage(st[t].stage)] = 1
  BY <1>1, <1>2 DEF AtStage, PreviousStage, Stages, Executed, SupervisorTypeOK
<1> QED
  BY <1>2, <1>3, <1>4, <1>5

\* The one order of the stage, which had none.
LEMMA PlaceOkSafe ==
  ASSUME Safe, NEW t \in Task, PlaceOk(t), UNCHANGED Outside
  PROVE  Safe'
<1>1. SupervisorTypeOK /\ StoreTypeOK /\ "stageWrite" \in Labels /\ pc[t] = "place"
  BY DEF Safe, TypeOK, Labels, PlaceOk
<1>2. Executed(t) /\ UNCHANGED <<signals, reason, stages, daily>>
  BY DEF PlaceOk, storeVars
<1>3. StoreTypeOK'
  BY <1>1, <1>2 DEF StoreTypeOK
<1>4. SupervisorTypeOK'
  BY <1>1, <1>2, GotoFacts, ExecutedFacts DEF PlaceOk, SupervisorTypeOK
<1>5. Touches(t)
  BY <1>1, <1>2, GotoFacts, ExecutedFacts
     DEF PlaceOk, Touches, Outside, listenerVars, recoveryVars
<1>6. TaskAgrees(t)'
  <2>1. pc'[t] = "stageWrite" /\ UNCHANGED <<st, bet>>
    BY <1>1, GotoFacts DEF PlaceOk
  <2>2. InStep(t)' /\ bet'[t].stage = st'[t].stage /\ AtStage(t, st[t].stage, 1)'
    BY <1>1, <1>2, <2>1, ExecutedFacts DEF InStep, AtStage
  <2> QED
    BY <2>1, <2>2 DEF TaskAgrees
<1>7. Orders'
  BY <1>1, <1>2, ExecutedFacts
<1> QED
  BY <1>1, <1>3, <1>4, <1>5, <1>6, <1>7, StepSafe

\* A task that ends without a write, wherever it stands, and whose order may go
\* out as it gives up broker.place.
LEMMA GivesUpSafe ==
  ASSUME Safe, NEW t \in Task, pc[t] # "free", End(t),
         UNCHANGED <<storeVars, now, told>>,
         UNCHANGED trades \/ (pc[t] = "place" /\ Executed(t)), UNCHANGED Outside
  PROVE  Safe'
<1>1. SupervisorTypeOK /\ StoreTypeOK
  BY DEF Safe, TypeOK
<1>2. CASE UNCHANGED trades
  BY <1>1, <1>2, EndSafe DEF SupervisorTypeOK
<1>3. CASE pc[t] = "place" /\ Executed(t)
  <2>1. StoreTypeOK' /\ UNCHANGED signals
    BY <1>1 DEF StoreTypeOK, storeVars
  <2>2. SupervisorTypeOK'
    BY <1>1, <1>3, <2>1, EndFacts, ExecutedFacts DEF SupervisorTypeOK
  <2>3. Touches(t)
    BY <1>1, <1>3, <2>1, EndFacts, ExecutedFacts
       DEF Touches, Outside, listenerVars, recoveryVars
  <2>4. TaskAgrees(t)' /\ Orders'
    BY <1>1, <1>3, <2>1, EndFacts, FreeAgrees, ExecutedFacts
  <2> QED
    BY <1>1, <2>1, <2>2, <2>3, <2>4, StepSafe
<1> QED
  BY <1>2, <1>3

\* broker.place raises, before or after the order was executed.
LEMMA PlaceRaisesSafe ==
  ASSUME Safe, NEW t \in Task, PlaceRaises(t), UNCHANGED Outside
  PROVE  Safe'
BY GivesUpSafe DEF PlaceRaises

\* The task is cancelled by the clean-up.
LEMMA CancelledSafe ==
  ASSUME Safe, NEW t \in Task, Cancelled(t), UNCHANGED Outside
  PROVE  Safe'
BY GivesUpSafe DEF Cancelled

\* Every step of a supervisor, an answer of the broker, a database error and a
\* cancellation.
LEMMA SupervisorSafe ==
  ASSUME Safe, NEW t \in Task,
         Step(t) \/ BrokerAnswers(t) \/ DbFails(t) \/ Cancelled(t), UNCHANGED Outside
  PROVE  Safe'
<1>1. CASE BrokerAnswers(t)
  <2>1. PICK r \in WaitResults : GotResult(t, r)
    BY <1>1 DEF BrokerAnswers
  <2> QED
    BY <1>1, <2>1, GotResultSafe, SupervisorAssumption DEF BrokerAnswers
<1>2. CASE WaitTimesOut(t)
  BY <1>2, GotResultSafe DEF WaitTimesOut, Results
<1> QED
  BY <1>1, <1>2, CheckDailyLimitSafe, RejectWriteSafe, RejectTellSafe,
     DuplicateAtIntakeSafe, StartCascadeSafe, ReceivedTellSafe, FireEventSafe,
     FireGaleSafe, FireWriteSafe, ExpiredTellSafe, PlaceOkSafe,
     PlaceUnsupportedSafe, PlaceRaisesSafe, PairTellSafe, ErrorWriteSafe,
     StageWriteSafe, PlacedTellSafe, ResultWriteSafe, StateWriteSafe,
     DailyWriteSafe, ResultTellSafe, CompleteTellSafe, DbFailsSafe, CancelledSafe
     DEF Step

-----------------------------------------------------------------------------
(* The listener, recovery, the clock and the process.                      *)

\* A step that the invariant does not see, but for the types.
LEMMA UnseenSafe ==
  ASSUME Safe, TypeOK',
         UNCHANGED <<signals, pc, st, bet, trades, proc, inserted, queue, snapshot, timeout>>
  PROVE  Safe'
<1>1. Exclusive'
  BY DEF Safe, Exclusive, OneSupervisor, Queued, Unattended
<1>2. Phases'
  BY DEF Safe, Phases
<1>3. Agreement'
  BY AgreesFrame DEF Safe, Agreement
<1>4. Orders'
  BY OrdersFrame DEF Safe, Orders
<1> QED
  BY <1>1, <1>2, <1>3, <1>4 DEF Safe, Orders

\* The tasks that stay agree as before, if their rows and orders do.
LEMMA AgreementFrame ==
  ASSUME Agreement,
         \A u \in Task :
           \/ pc'[u] = "free"
           \/ /\ pc'[u] = pc[u] /\ st'[u] = st[u] /\ bet'[u] = bet[u]
              /\ signals'[u[1]] = signals[u[1]] /\ trades'[u[1]] = trades[u[1]]
  PROVE  Agreement'
BY AgreesFrame, FreeAgrees DEF Agreement

\* A handler that has not inserted anything holds no signal.
LEMMA DeliverSafe ==
  ASSUME Safe, NEW s \in Signals, Deliver(s) PROVE Safe'
<1>1. TypeOK'
  BY DEF Deliver, Safe, TypeOK, StoreTypeOK, SupervisorTypeOK, supervisorVars,
     storeVars, taskVars, recoveryVars
<1> QED
  BY <1>1, UnseenSafe DEF Deliver, supervisorVars, storeVars, taskVars, recoveryVars

\* A failed insert leaves no row.
LEMMA UpsertFailsSafe ==
  ASSUME Safe, NEW s \in Signals, UpsertFails(s) PROVE Safe'
<1>1. TypeOK'
  BY DEF UpsertFails, Safe, TypeOK, StoreTypeOK, SupervisorTypeOK, supervisorVars,
     storeVars, taskVars, recoveryVars
<1> QED
  BY <1>1, UnseenSafe DEF UpsertFails, supervisorVars, storeVars, taskVars, recoveryVars

\* The invariant does not read the clock.
LEMMA TickSafe ==
  ASSUME Safe, Tick PROVE Safe'
<1>1. TypeOK'
  BY DEF Tick, Safe, TypeOK, StoreTypeOK, SupervisorTypeOK, storeVars, taskVars,
     listenerVars, recoveryVars
<1> QED
  BY <1>1, UnseenSafe DEF Tick, storeVars, taskVars, listenerVars, recoveryVars

\* The handler that inserts a row is the first to hold the signal.
LEMMA UpsertSafe ==
  ASSUME Safe, NEW s \in Signals, Upsert(s) PROVE Safe'
<1>1. TypeOK'
  <2>1. "pending" \in States
    BY DEF States
  <2> QED
    BY <2>1 DEF Upsert, UpsertSignal, Safe, TypeOK, StoreTypeOK, SupervisorTypeOK,
       taskVars, recoveryVars
<1>2. CASE ~InsertWins(s)
  <2>1. UNCHANGED <<signals, inserted>>
    BY <1>2 DEF Upsert, UpsertSignal, Safe, TypeOK
  <2> QED
    BY <1>1, <2>1, UnseenSafe DEF Upsert, taskVars, recoveryVars
<1>3. CASE InsertWins(s)
  <2>1. /\ signals[s] = "none"
        /\ signals' = [signals EXCEPT ![s] = "pending"]
        /\ inserted' = [inserted EXCEPT ![s] = @ + 1]
        /\ UNCHANGED <<pc, st, bet, trades, proc, queue, snapshot, timeout>>
    BY <1>3 DEF Upsert, UpsertSignal, InsertWins, taskVars, recoveryVars
  <2>2. signals \in [Signals -> States \union {"none"}] /\ inserted \in [Signals -> Nat]
    BY DEF Safe, TypeOK, StoreTypeOK
  <2>3. ~(inserted[s] > 0) /\ ~Queued(s) /\ Unattended(s) /\ snapshot[s] = "none"
    <3>1. \A k \in Slots : <<s, k>> \in Task /\ <<s, k>>[1] = s
      BY DEF Task
    <3>2. Unattended(s)
      BY <2>1, <3>1 DEF Safe, Exclusive, Unattended
    <3> QED
      BY <2>1, <3>2 DEF Safe, Exclusive, PlacedStates
  <2>4. inserted'[s] = 1 /\ signals'[s] = "pending"
    BY <2>1, <2>2, <2>3
  <2>5. \A r \in Signals : r # s => signals'[r] = signals[r] /\ inserted'[r] = inserted[r]
    BY <2>1, <2>2
  <2>6. \A r \in Signals : (Unattended(r)' <=> Unattended(r)) /\ (Queued(r)' <=> Queued(r))
    BY <2>1 DEF Unattended, Queued
  <2>7. Exclusive'
    <3>1. OneSupervisor'
      BY <2>1 DEF Safe, Exclusive, OneSupervisor
    <3>2. \A u \in Task : pc'[u] # "free" => signals'[u[1]] # "none"
      BY <2>1, <2>4, <2>5, TaskSignal DEF Safe, Exclusive
    <3> QED
      BY <2>1, <2>3, <2>4, <2>5, <2>6, <3>1, <3>2 DEF Safe, Exclusive
  <2>8. Phases'
    BY <2>1, <2>3, <2>5 DEF Safe, Phases
  <2>9. Agreement'
    <3>1. \A u \in Task : pc[u] # "free" => u[1] # s
      BY <2>1 DEF Safe, Exclusive
    <3> QED
      BY <2>1, <2>5, <3>1, TaskSignal, AgreementFrame DEF Safe
  <2>10. Orders'
    <3>1. "pending" \in States
      BY DEF States
    <3> QED
      BY <2>1, <3>1, OrdersMove DEF Safe, Orders, TypeOK
  <2> QED
    BY <1>1, <2>7, <2>8, <2>9, <2>10 DEF Safe, Orders
<1> QED
  BY <1>2, <1>3

\* The signal moves from the handler to the queue.
LEMMA PutSafe ==
  ASSUME Safe, NEW s \in Signals, Put(s) PROVE Safe'
<1>1. /\ inserted[s] > 0 /\ queue' = Append(queue, s)
      /\ inserted' = [inserted EXCEPT ![s] = @ - 1]
      /\ UNCHANGED <<signals, pc, st, bet, trades, proc, snapshot, timeout>>
  BY DEF Put, supervisorVars, storeVars, taskVars, recoveryVars
<1>2. queue \in Seq(Signals) /\ inserted \in [Signals -> Nat]
  BY DEF Safe, TypeOK
<1>3. inserted[s] = 1 /\ signals[s] = "pending" /\ ~Queued(s) /\ Unattended(s)
  BY <1>1 DEF Safe, Exclusive
<1>4. TypeOK'
  BY <1>1, <1>2, <1>3 DEF Put, Safe, TypeOK, StoreTypeOK, SupervisorTypeOK,
     supervisorVars, storeVars, taskVars, recoveryVars
<1>5. inserted'[s] = 0 /\ \A r \in Signals : r # s => inserted'[r] = inserted[r]
  BY <1>1, <1>2, <1>3
<1>6. /\ Len(queue') = Len(queue) + 1 /\ queue'[Len(queue) + 1] = s
      /\ \A i \in 1..Len(queue) : queue'[i] = queue[i]
      /\ Len(queue) \in Nat
  BY <1>1, <1>2
<1>7. \A r \in Signals : Queued(r)' <=> Queued(r) \/ r = s
  BY <1>6 DEF Queued
<1>8. \A i, j \in 1..Len(queue') : queue'[i] = queue'[j] => i = j
  BY <1>3, <1>6 DEF Queued, Safe, Exclusive
<1>9. Exclusive'
  <2>1. OneSupervisor' /\ \A r \in Signals : Unattended(r)' <=> Unattended(r)
    BY <1>1 DEF Safe, Exclusive, OneSupervisor, Unattended
  <2> QED
    BY <1>1, <1>3, <1>5, <1>7, <1>8, <2>1 DEF Safe, Exclusive
<1>10. Phases' /\ Agreement' /\ Orders'
  BY <1>1, AgreementFrame, OrdersFrame DEF Safe, Phases, Orders
<1> QED
  BY <1>4, <1>9, <1>10 DEF Safe, Orders

\* A new task of a signal that has none: who holds what, afterwards.
LEMMA SpawnFacts ==
  ASSUME Safe, NEW s \in Signals, NEW k \in Slots, Unattended(s),
         signals[s] \in {"pending"} \union PlacedStates,
         Spawn(<<s, k>>), UNCHANGED <<signals, trades>>
  PROVE  /\ pc' \in [Task -> Labels]
         /\ OneSupervisor'
         /\ \A u \in Task : pc'[u] # "free" => signals'[u[1]] # "none"
         /\ \A r \in Signals : r # s => (Unattended(r)' <=> Unattended(r))
         /\ Agreement'
<1> DEFINE t == <<s, k>>
<1>1. /\ t \in Task /\ t[1] = s
      /\ SupervisorTypeOK /\ "limit" \in Labels
  BY DEF Task, Safe, TypeOK, Labels
<1>2. /\ pc' \in [Task -> Labels] /\ pc'[t] = "limit"
      /\ \A u \in Task : u # t => pc'[u] = pc[u]
      /\ UNCHANGED <<st, bet, deadline>>
  BY <1>1, GotoFacts DEF Spawn
<1>3. \A u \in Task : u[1] = s => pc[u] = "free"
  <2> SUFFICES ASSUME NEW u \in Task, u[1] = s PROVE pc[u] = "free"
    OBVIOUS
  <2>1. u[2] \in Slots /\ u = <<s, u[2]>>
    BY DEF Task
  <2> QED
    BY <2>1 DEF Unattended
<1>4. OneSupervisor'
  BY <1>1, <1>2, <1>3 DEF Safe, Exclusive, OneSupervisor
<1>5. \A u \in Task : pc'[u] # "free" => signals'[u[1]] # "none"
  BY <1>1, <1>2 DEF Safe, Exclusive, PlacedStates
<1>6. \A r \in Signals : r # s => (Unattended(r)' <=> Unattended(r))
  <2> SUFFICES ASSUME NEW r \in Signals, r # s PROVE Unattended(r)' <=> Unattended(r)
    OBVIOUS
  <2>1. \A j \in Slots : <<r, j>> \in Task /\ <<r, j>> # t
    BY DEF Task
  <2> QED
    BY <1>2, <2>1 DEF Unattended
<1>7. Agreement'
  <2>1. TaskAgrees(t)'
    BY <1>1, <1>2 DEF TaskAgrees
  <2>2. \A u \in Task : u # t => TaskAgrees(u)'
    BY <1>2, AgreesFrame DEF Safe, Agreement
  <2> QED
    BY <2>1, <2>2 DEF Agreement
<1> QED
  BY <1>2, <1>4, <1>5, <1>6, <1>7

\* The signal moves from the queue to its task.
LEMMA DequeueSafe ==
  ASSUME Safe, NEW k \in Slots, Dequeue(k) PROVE Safe'
<1>2. queue \in Seq(Signals)
  BY DEF Safe, TypeOK
<1>0. PICK s \in Signals : s = Head(queue)
  BY <1>2 DEF Dequeue
<1>1. /\ proc = "running" /\ queue # <<>> /\ Spawn(<<s, k>>) /\ queue' = Tail(queue)
      /\ UNCHANGED <<signals, reason, stages, daily, now, trades, told, proc,
                     checked, inserted, deliveries, snapshot, recNow, timeout, crashes>>
  BY <1>0 DEF Dequeue, storeVars, recoveryVars
<1>3. /\ Len(queue) \in Nat /\ Len(queue) >= 1 /\ s = queue[1]
      /\ Len(queue') = Len(queue) - 1
      /\ \A i \in 1..Len(queue') : queue'[i] = queue[i + 1]
      /\ queue' \in Seq(Signals)
  BY <1>0, <1>1, <1>2
<1>4. Queued(s)
  BY <1>3 DEF Queued
<1>5. signals[s] = "pending" /\ Unattended(s) /\ ~(inserted[s] > 0)
  BY <1>3, <1>4 DEF Safe, Exclusive
<1>6. \A i, j \in 1..Len(queue) : queue[i] = queue[j] => i = j
  BY DEF Safe, Exclusive
<1>7. ~Queued(s)' /\ \A r \in Signals : Queued(r)' => Queued(r) /\ r # s
  <2>1. \A i \in 1..Len(queue') : i + 1 \in 1..Len(queue) /\ i + 1 # 1
    BY <1>3
  <2>2. \A i \in 1..Len(queue') : queue'[i] # s
    BY <1>3, <1>6, <2>1
  <2> QED
    BY <1>3, <2>1, <2>2 DEF Queued
<1>8. \A i, j \in 1..Len(queue') : queue'[i] = queue'[j] => i = j
  <2> SUFFICES ASSUME NEW i \in 1..Len(queue'), NEW j \in 1..Len(queue'),
                      queue'[i] = queue'[j]
               PROVE  i = j
    OBVIOUS
  <2>1. i + 1 \in 1..Len(queue) /\ j + 1 \in 1..Len(queue)
    BY <1>3
  <2> QED
    BY <1>3, <1>6, <2>1
<1>9. /\ pc' \in [Task -> Labels] /\ OneSupervisor' /\ Agreement'
      /\ \A u \in Task : pc'[u] # "free" => signals'[u[1]] # "none"
      /\ \A r \in Signals : r # s => (Unattended(r)' <=> Unattended(r))
  BY <1>1, <1>3, <1>5, SpawnFacts
<1>10. TypeOK'
  BY <1>1, <1>3, <1>9
     DEF Safe, TypeOK, StoreTypeOK, SupervisorTypeOK, Spawn
<1>11. \A r \in Signals : snapshot[r] = "none"
  BY <1>1 DEF Safe, Phases
<1>12. Exclusive'
  BY <1>1, <1>5, <1>7, <1>8, <1>9, <1>11 DEF Safe, Exclusive
<1>13. Phases' /\ Orders'
  BY <1>1, OrdersFrame DEF Safe, Phases, Orders
<1> QED
  BY <1>9, <1>10, <1>12, <1>13 DEF Safe, Orders

\* Recovery lists the active rows, when nothing holds any signal but handlers
\* and queue entries of pending rows.
LEMMA QueryActiveSafe ==
  ASSUME Safe, QueryActive PROVE Safe'
<1>1. /\ proc = "boot" /\ proc' = "recovering" /\ recNow' = now
      /\ snapshot' = [s \in Signals |-> IF s \in ActiveSignals THEN signals[s] ELSE "none"]
      /\ UNCHANGED <<signals, reason, stages, daily, now, pc, st, bet, deadline,
                     trades, told, checked, inserted, queue, deliveries, timeout, crashes>>
  BY DEF QueryActive, supervisorVars, storeVars, taskVars, listenerVars
<1>2. TypeOK'
  BY <1>1 DEF Safe, TypeOK, StoreTypeOK, SupervisorTypeOK, ActiveSignals
<1>3. timeout.at = "no" /\ \A u \in Task : pc[u] = "free"
  BY <1>1 DEF Safe, Phases
<1>4. \A s \in Signals : snapshot'[s] # "none" =>
        signals[s] \in PlacedStates /\ snapshot'[s] = signals[s]
  BY <1>1 DEF ActiveSignals
<1>5. \A s \in Signals : Unattended(s)
  BY <1>3 DEF Unattended, Task
<1>6. Exclusive'
  <2>1. OneSupervisor' /\ \A s \in Signals : Unattended(s)' /\ (Queued(s)' <=> Queued(s))
    BY <1>1, <1>5 DEF Safe, Exclusive, OneSupervisor, Unattended, Queued
  <2> QED
    BY <1>1, <1>4, <2>1 DEF Safe, Exclusive
<1>7. Phases'
  BY <1>1, <1>3, <1>4 DEF Phases
<1>8. Agreement' /\ Orders'
  BY <1>1, AgreementFrame, OrdersFrame DEF Safe, Orders
<1> QED
  BY <1>2, <1>6, <1>7, <1>8 DEF Safe, Orders

\* A row of the list is adopted: it moves from recovery to a task.
LEMMA AdoptRowSafe ==
  ASSUME Safe, NEW s \in Signals, NEW k \in Slots, AdoptRow(s, k) PROVE Safe'
<1>1. /\ proc = "recovering" /\ timeout.at = "no" /\ snapshot[s] # "none"
      /\ Spawn(<<s, k>>) /\ snapshot' = [snapshot EXCEPT ![s] = "none"]
      /\ UNCHANGED <<signals, reason, stages, daily, now, trades, told, proc,
                     checked, inserted, queue, deliveries, recNow, timeout, crashes>>
  BY DEF AdoptRow, NextRow, storeVars, listenerVars
<1>2. signals[s] \in PlacedStates /\ Unattended(s)
  BY <1>1 DEF Safe, Exclusive
<1>3. ~(inserted[s] > 0) /\ ~Queued(s)
  BY <1>2 DEF Safe, Exclusive, PlacedStates
<1>4. /\ pc' \in [Task -> Labels] /\ OneSupervisor' /\ Agreement'
      /\ \A u \in Task : pc'[u] # "free" => signals'[u[1]] # "none"
      /\ \A r \in Signals : r # s => (Unattended(r)' <=> Unattended(r))
  BY <1>1, <1>2, SpawnFacts
<1>5. TypeOK'
  BY <1>1, <1>4 DEF Safe, TypeOK, StoreTypeOK, SupervisorTypeOK, Spawn
<1>6. \A r \in Signals : snapshot'[r] # "none" => r # s /\ snapshot'[r] = snapshot[r]
  BY <1>1 DEF Safe, TypeOK
<1>7. \A r \in Signals : Queued(r)' <=> Queued(r)
  BY <1>1 DEF Queued
<1>8. Exclusive'
  BY <1>1, <1>3, <1>4, <1>6, <1>7 DEF Safe, Exclusive
<1>9. Phases'
  BY <1>1, <1>6 DEF Safe, Phases
<1> QED
  BY <1>1, <1>4, <1>5, <1>8, <1>9, OrdersFrame DEF Safe, Orders

\* record_timeout takes a row that recovery has listed.
LEMMA TimeoutRowSafe ==
  ASSUME Safe, NEW s \in Signals, TimeoutRow(s) PROVE Safe'
<1>1. /\ proc = "recovering" /\ timeout.at = "no" /\ snapshot[s] # "none"
      /\ timeout' = [NoTimeout EXCEPT !.at = "read", !.sig = s]
      /\ UNCHANGED <<signals, reason, stages, daily, now, pc, st, bet, deadline,
                     trades, told, proc, checked, inserted, queue, deliveries,
                     snapshot, recNow, crashes>>
  BY DEF TimeoutRow, NextRow, supervisorVars, storeVars, taskVars, listenerVars
<1>2. timeout'.at = "read" /\ timeout'.sig = s /\ timeout' \in TimeoutCall
  BY <1>1 DEF NoTimeout, TimeoutCall, Reasons
<1>3. TypeOK'
  BY <1>1, <1>2 DEF Safe, TypeOK, StoreTypeOK, SupervisorTypeOK
<1>4. Exclusive'
  BY <1>1 DEF Safe, Exclusive, OneSupervisor, Queued, Unattended
<1>5. Phases'
  BY <1>1, <1>2 DEF Safe, Phases
<1>6. Agreement' /\ Orders'
  BY <1>1, AgreementFrame, OrdersFrame DEF Safe, Orders
<1> QED
  BY <1>3, <1>4, <1>5, <1>6 DEF Safe, Orders

\* The stage of a placed status.
LEMMA StageOfPlaced ==
  ASSUME NEW status \in PlacedStates
  PROVE  StageOf(status) \in Stages /\ status = PlacedState(StageOf(status))
BY DEF PlacedStates, StageOf, Stages, PlacedState

\* It computes a successor of the listed status.
LEMMA TimeoutReadSafe ==
  ASSUME Safe, TimeoutRead PROVE Safe'
<1> DEFINE rebuilt(s) == Rebuilt(s, StageOf(snapshot[s]))
           new(s) == OnResult(rebuilt(s), "timeout", now)
<1>1. PICK s \in Signals : s = timeout.sig /\ snapshot[s] # "none"
  BY DEF TimeoutRead, Safe, Phases
<1>2. proc = "recovering"
  BY <1>1 DEF Safe, Phases
<1>3. signals[s] = snapshot[s] /\ signals[s] \in PlacedStates
  BY <1>1 DEF TimeoutRead, Safe, Phases, Exclusive
<1>4. StageOf(snapshot[s]) \in Stages
  BY <1>3, StageOfPlaced
<1>5. rebuilt(s) \in SignalState /\ rebuilt(s).stage = StageOf(snapshot[s])
      /\ rebuilt(s).state = signals[s]
  <2>1. StageTrigger(s, StageOf(snapshot[s])) \in Int
    BY <1>4, SignalAssumption, TimeAssumption DEF StageTrigger, StageOffset, Stages
  <2> QED
    BY <1>3, <1>4, <2>1, TimeAssumption
       DEF Rebuilt, SignalState, States, Safe, TypeOK, StoreTypeOK
<1>6. new(s) \in SignalState /\ new(s).state \in Successors(StageOf(snapshot[s]))
  <2>1. now \in Int /\ "timeout" \in Results
    BY DEF Safe, TypeOK, SupervisorTypeOK, Results
  <2> QED
    BY <1>4, <1>5, <2>1, OnResultType
<1>7. /\ timeout' = [timeout EXCEPT !.at = "write", !.status = new(s).state,
                                    !.why = new(s).reason]
      /\ UNCHANGED <<signals, reason, stages, daily, now, pc, st, bet, deadline,
                     trades, told, proc, checked, inserted, queue, deliveries,
                     snapshot, recNow, crashes>>
  <2>1. AcceptsResult(rebuilt(s))
    BY <1>3, <1>5 DEF AcceptsResult
  <2> QED
    BY <1>1, <2>1
       DEF TimeoutRead, supervisorVars, storeVars, taskVars, listenerVars
<1>8. timeout'.at = "write" /\ timeout'.sig = s /\ timeout'.status = new(s).state
      /\ timeout' \in TimeoutCall
  <2> HIDE DEF new
  <2>1. new(s).state \in States /\ new(s).reason \in Reasons
    BY <1>6 DEF SignalState
  <2> QED
    BY <1>1, <1>7, <2>1 DEF Safe, TypeOK, TimeoutCall
<1>9. TypeOK'
  BY <1>7, <1>8 DEF Safe, TypeOK, StoreTypeOK, SupervisorTypeOK
<1>10. Exclusive'
  BY <1>7 DEF Safe, Exclusive, OneSupervisor, Queued, Unattended
<1>11. Phases'
  <2> HIDE DEF new
  <2> QED
    BY <1>1, <1>2, <1>3, <1>6, <1>7, <1>8 DEF Safe, Phases
<1>12. Agreement' /\ Orders'
  BY <1>7, AgreementFrame, OrdersFrame DEF Safe, Orders
<1> QED
  BY <1>9, <1>10, <1>11, <1>12 DEF Safe, Orders

\* The timeout moves the row along the cascade, as a supervisor would.
LEMMA TimeoutWriteSafe ==
  ASSUME Safe, TimeoutWrite PROVE Safe'
<1>1. PICK s \in Signals : s = timeout.sig /\ snapshot[s] # "none"
  BY DEF TimeoutWrite, Safe, Phases
<1>2. /\ proc = "recovering" /\ timeout.at = "write"
      /\ signals[s] = snapshot[s] /\ signals[s] \in PlacedStates /\ Unattended(s)
      /\ timeout.status \in Successors(StageOf(snapshot[s]))
  BY <1>1 DEF TimeoutWrite, Safe, Phases, Exclusive
<1>3. StageOf(snapshot[s]) \in Stages /\ signals[s] = PlacedState(StageOf(snapshot[s]))
  BY <1>2, StageOfPlaced
<1>4. timeout.status \in PlacedStates \union FinalStates /\ timeout.status \in States
  BY <1>2, <1>3 DEF Successors, PlacedStates, FinalStates, States, PlacedState,
     NextStage, Stages
<1>5. /\ UpdateSignalState(s, timeout.status, timeout.why)
      /\ UNCHANGED <<now, pc, st, bet, deadline, trades, told, proc, checked,
                     inserted, queue, deliveries, recNow, crashes>>
  BY <1>1 DEF TimeoutWrite, taskVars, listenerVars
<1>6. StoreTypeOK' /\ signals' = [signals EXCEPT ![s] = timeout.status]
  <2>1. StoreTypeOK /\ timeout.why \in Reasons /\ signals[s] # "none"
    BY <1>2 DEF Safe, TypeOK, TimeoutCall, PlacedStates
  <2> QED
    BY <1>4, <1>5, <2>1, UpdateType
<1>7. signals'[s] = timeout.status /\ \A r \in Signals : r # s => signals'[r] = signals[r]
  BY <1>6 DEF Safe, TypeOK, StoreTypeOK
<1>8. ~(inserted[s] > 0) /\ ~Queued(s)
  BY <1>2 DEF Safe, Exclusive, PlacedStates
<1>9. \/ /\ timeout.status \in PlacedStates
         /\ timeout' = [timeout EXCEPT !.at = "reread"] /\ UNCHANGED snapshot
      \/ timeout' = NoTimeout /\ snapshot' = [snapshot EXCEPT ![s] = "none"]
  BY <1>1 DEF TimeoutWrite, TimeoutDone
<1>10. snapshot' \in [Signals -> PlacedStates \union {"none"}] /\ timeout' \in TimeoutCall
  <2>1. snapshot \in [Signals -> PlacedStates \union {"none"}] /\ timeout \in TimeoutCall
    BY DEF Safe, TypeOK
  <2>2. NoTimeout \in TimeoutCall /\ [timeout EXCEPT !.at = "reread"] \in TimeoutCall
    BY <2>1 DEF TimeoutCall, NoTimeout, Reasons
  <2> QED
    BY <1>9, <2>1, <2>2
<1>11. \A r \in Signals : r # s => snapshot'[r] = snapshot[r]
  BY <1>9 DEF Safe, TypeOK
<1>12. snapshot'[s] # "none" =>
         timeout.status \in PlacedStates /\ timeout'.at = "reread" /\ timeout'.sig = s
  BY <1>1, <1>9 DEF Safe, TypeOK, TimeoutCall
<1>13. TypeOK'
  BY <1>5, <1>6, <1>10 DEF Safe, TypeOK, SupervisorTypeOK
<1>14. Exclusive'
  <2>1. /\ OneSupervisor'
        /\ \A r \in Signals : (Unattended(r)' <=> Unattended(r)) /\ (Queued(r)' <=> Queued(r))
    BY <1>5 DEF Safe, Exclusive, OneSupervisor, Unattended, Queued
  <2>2. \A u \in Task : pc'[u] # "free" => signals'[u[1]] # "none"
    BY <1>4, <1>5, <1>7, TaskSignal DEF Safe, Exclusive, PlacedStates, FinalStates
  <2> QED
    BY <1>2, <1>5, <1>7, <1>8, <1>11, <1>12, <2>1, <2>2 DEF Safe, Exclusive
<1>15. Phases'
  <2>1. \A r \in Signals : r # s => (snapshot[r] # "none" => signals[r] = snapshot[r])
    BY <1>1, <1>2 DEF Safe, Phases
  <2>2. timeout'.at \in {"no", "reread"} /\
        (timeout'.at = "reread" => timeout'.sig = s /\ snapshot'[s] # "none")
    BY <1>1, <1>9 DEF Safe, TypeOK, TimeoutCall, NoTimeout
  <2> QED
    BY <1>1, <1>2, <1>5, <1>7, <1>11, <1>12, <2>1, <2>2 DEF Phases
<1>16. Agreement'
  <2>1. \A u \in Task : u[1] = s => pc[u] = "free"
    <3> SUFFICES ASSUME NEW u \in Task, u[1] = s PROVE pc[u] = "free"
      OBVIOUS
    <3>1. u[2] \in Slots /\ u = <<s, u[2]>>
      BY DEF Task
    <3> QED
      BY <1>2, <3>1 DEF Unattended
  <2> QED
    BY <1>5, <1>7, <2>1, TaskSignal, AgreementFrame DEF Safe
<1>17. Orders'
  <2>1. \/ timeout.status \in FinalStates
        \/ \E g \in {"initial", "gale1"} :
             signals[s] = PlacedState(g) /\ timeout.status = PlacedState(NextStage(g))
    BY <1>2, <1>3 DEF Successors, FinalStates, Stages
  <2> QED
    BY <1>2, <1>4, <1>5, <1>6, <2>1, OrdersMove DEF Safe, Orders, TypeOK
<1> QED
  BY <1>13, <1>14, <1>15, <1>16, <1>17 DEF Safe, Orders

\* It adopts a row that it has moved to the next stage.
LEMMA TimeoutAdoptSafe ==
  ASSUME Safe, NEW k \in Slots, TimeoutAdopt(k) PROVE Safe'
<1>1. PICK s \in Signals : s = timeout.sig /\ snapshot[s] # "none"
  BY DEF TimeoutAdopt, Safe, Phases
<1>2. /\ proc = "recovering" /\ timeout.at = "reread" /\ Spawn(<<s, k>>)
      /\ timeout' = NoTimeout /\ snapshot' = [snapshot EXCEPT ![s] = "none"]
      /\ UNCHANGED <<signals, reason, stages, daily, now, trades, told, proc,
                     checked, inserted, queue, deliveries, recNow, crashes>>
  BY <1>1 DEF TimeoutAdopt, TimeoutDone, storeVars, listenerVars, Safe, Phases
<1>3. signals[s] \in PlacedStates /\ Unattended(s)
  BY <1>1 DEF Safe, Exclusive
<1>4. ~(inserted[s] > 0) /\ ~Queued(s)
  BY <1>3 DEF Safe, Exclusive, PlacedStates
<1>5. /\ pc' \in [Task -> Labels] /\ OneSupervisor' /\ Agreement'
      /\ \A u \in Task : pc'[u] # "free" => signals'[u[1]] # "none"
      /\ \A r \in Signals : r # s => (Unattended(r)' <=> Unattended(r))
  BY <1>2, <1>3, SpawnFacts
<1>6. timeout' \in TimeoutCall /\ timeout'.at = "no"
  BY <1>2 DEF NoTimeout, TimeoutCall, Reasons
<1>7. TypeOK'
  BY <1>2, <1>5, <1>6 DEF Safe, TypeOK, StoreTypeOK, SupervisorTypeOK, Spawn
<1>8. \A r \in Signals : snapshot'[r] # "none" => r # s /\ snapshot'[r] = snapshot[r]
  BY <1>2 DEF Safe, TypeOK
<1>9. \A r \in Signals : Queued(r)' <=> Queued(r)
  BY <1>2 DEF Queued
<1>10. Exclusive'
  BY <1>2, <1>4, <1>5, <1>8, <1>9 DEF Safe, Exclusive
<1>11. Phases'
  BY <1>1, <1>2, <1>6, <1>8 DEF Safe, Phases
<1> QED
  BY <1>2, <1>5, <1>7, <1>10, <1>11, OrdersFrame DEF Safe, Orders

\* Recovery hands over when it has dealt with every listed row.
LEMMA StartSchedulerSafe ==
  ASSUME Safe, StartScheduler PROVE Safe'
<1>1. /\ proc' = "running" /\ timeout.at = "no" /\ \A s \in Signals : snapshot[s] = "none"
      /\ UNCHANGED <<signals, reason, stages, daily, now, pc, st, bet, deadline, trades,
                     told, checked, inserted, queue, deliveries, snapshot, recNow,
                     timeout, crashes>>
  BY DEF StartScheduler, supervisorVars, storeVars, taskVars, listenerVars, recoveryVars
<1>2. TypeOK'
  BY <1>1 DEF Safe, TypeOK, StoreTypeOK, SupervisorTypeOK
<1>3. Exclusive'
  BY <1>1 DEF Safe, Exclusive, OneSupervisor, Queued, Unattended
<1>4. Phases'
  BY <1>1 DEF Phases
<1>5. Agreement' /\ Orders'
  BY <1>1, AgreementFrame, OrdersFrame DEF Safe, Orders
<1> QED
  BY <1>2, <1>3, <1>4, <1>5 DEF Safe, Orders

\* The clean-up begins: recovery's list and its call are dropped.
LEMMA StopSafe ==
  ASSUME Safe, Stop PROVE Safe'
<1>1. NoTimeout \in TimeoutCall /\ NoTimeout.at = "no"
  BY DEF NoTimeout, TimeoutCall, Reasons
<1>2. /\ proc' = "stopping" /\ timeout' = NoTimeout
      /\ snapshot' = [s \in Signals |-> "none"] /\ recNow' = 0
      /\ UNCHANGED <<signals, reason, stages, daily, now, pc, st, bet, deadline, trades,
                     told, checked, inserted, queue, deliveries, crashes>>
  BY DEF Stop, supervisorVars, storeVars, taskVars, listenerVars
<1>3. TypeOK'
  BY <1>1, <1>2 DEF Safe, TypeOK, StoreTypeOK, SupervisorTypeOK
<1>4. Exclusive'
  BY <1>2 DEF Safe, Exclusive, OneSupervisor, Queued, Unattended
<1>5. Phases'
  BY <1>1, <1>2 DEF Phases
<1>6. Agreement' /\ Orders'
  BY <1>2, AgreementFrame, OrdersFrame DEF Safe, Orders
<1> QED
  BY <1>3, <1>4, <1>5, <1>6 DEF Safe, Orders

\* A crash releases everything that was held.
LEMMA CrashSafe ==
  ASSUME Safe, Crash PROVE Safe'
<1>1. FromSignal(0) \in SignalState /\ NoBet \in Bet
  BY FromSignalType DEF NoBet, Bet
<1>2. NoTimeout \in TimeoutCall /\ NoTimeout.at = "no"
  BY DEF NoTimeout, TimeoutCall, Reasons
<1>3. /\ pc' = [t \in Task |-> "free"] /\ \A t \in Task : pc'[t] = "free"
      /\ proc' = "down" /\ queue' = <<>> /\ timeout' = NoTimeout
      /\ inserted' = [s \in Signals |-> 0] /\ snapshot' = [s \in Signals |-> "none"]
      /\ UNCHANGED <<signals, reason, stages, daily, now, trades, told, deliveries>>
  BY DEF Crash, storeVars
<1>4. TypeOK'
  BY <1>1, <1>2, <1>3
     DEF Crash, Safe, TypeOK, StoreTypeOK, SupervisorTypeOK, Labels
<1>5. Exclusive'
  <2>1. \A s \in Signals : ~Queued(s)' /\ inserted'[s] = 0 /\ snapshot'[s] = "none"
    BY <1>3 DEF Queued
  <2>2. \A i, j \in 1..Len(queue') : queue'[i] = queue'[j] => i = j
    BY <1>3
  <2> QED
    BY <1>3, <2>1, <2>2 DEF Exclusive, OneSupervisor
<1>6. Phases'
  BY <1>2, <1>3 DEF Phases
<1>7. Agreement' /\ Orders'
  BY <1>3, FreeAgrees, OrdersFrame DEF Agreement, Safe, Orders
<1> QED
  BY <1>4, <1>5, <1>6, <1>7 DEF Safe, Orders

\* A new process starts with nothing.
LEMMA BootSafe ==
  ASSUME Safe, Boot PROVE Safe'
<1>1. /\ proc = "down" /\ proc' = "boot"
      /\ UNCHANGED <<signals, reason, stages, daily, now, pc, st, bet, deadline, trades,
                     told, checked, inserted, queue, deliveries, snapshot, recNow,
                     timeout, crashes>>
  BY DEF Boot, supervisorVars, storeVars, taskVars, listenerVars, recoveryVars
<1>2. TypeOK'
  BY <1>1 DEF Safe, TypeOK, StoreTypeOK, SupervisorTypeOK
<1>3. Exclusive'
  BY <1>1 DEF Safe, Exclusive, OneSupervisor, Queued, Unattended
<1>4. Phases'
  BY <1>1 DEF Safe, Phases
<1>5. Agreement' /\ Orders'
  BY <1>1, AgreementFrame, OrdersFrame DEF Safe, Orders
<1> QED
  BY <1>2, <1>3, <1>4, <1>5 DEF Safe, Orders

-----------------------------------------------------------------------------
(* The invariant, and what follows from it.                                *)

\* The invariant holds before the first boot.
LEMMA InitSafe == Init => Safe
<1> SUFFICES ASSUME Init PROVE Safe
  OBVIOUS
<1> USE DEF Init, StoreInit, SupervisorInit, NoTasks, NoProcess
<1>1. FromSignal(0) \in SignalState /\ NoBet \in Bet
  BY FromSignalType DEF NoBet, Bet
<1>2. NoTimeout \in TimeoutCall /\ NoTimeout.at = "no"
  BY DEF NoTimeout, TimeoutCall, Reasons
<1>3. EmptySummary \in Summary
  BY DEF EmptySummary, Summary
<1>4. TypeOK
  <2>1. StoreTypeOK
    BY <1>3 DEF StoreTypeOK, Reasons
  <2>2. SupervisorTypeOK
    BY <1>1 DEF SupervisorTypeOK, Labels
  <2> QED
    BY <1>2, <2>1, <2>2 DEF TypeOK
<1>5. Exclusive
  <2>1. \A s \in Signals : ~Queued(s) /\ inserted[s] = 0 /\ snapshot[s] = "none"
    BY DEF Queued
  <2>2. \A i, j \in 1..Len(queue) : queue[i] = queue[j] => i = j
    OBVIOUS
  <2> QED
    BY <2>1, <2>2 DEF Exclusive, OneSupervisor
<1>6. Phases
  BY <1>2 DEF Phases
<1>7. Agreement
  BY DEF Agreement, TaskAgrees
<1>8. WriteAhead /\ NoDuplicateTrade /\ Ordered
  BY DEF WriteAhead, NoDuplicateTrade, Ordered, Stages
<1> QED
  BY <1>4, <1>5, <1>6, <1>7, <1>8 DEF Safe

\* The invariant is inductive: the actions one by one.
LEMMA NextSafe == Safe /\ [Next]_vars => Safe'
<1> SUFFICES ASSUME Safe, [Next]_vars PROVE Safe'
  OBVIOUS
<1>1. CASE \E t \in Task :
             SupervisorStep(t) \/ Answer(t) \/ DatabaseError(t) \/ Cancel(t)
  BY <1>1, SupervisorSafe DEF SupervisorStep, Answer, DatabaseError, Cancel, Outside
<1>2. CASE UNCHANGED vars
  <2>1. TypeOK'
    BY <1>2 DEF vars, supervisorVars, storeVars, taskVars, listenerVars, recoveryVars,
       Safe, TypeOK, StoreTypeOK, SupervisorTypeOK
  <2> QED
    BY <1>2, <2>1, UnseenSafe
       DEF vars, supervisorVars, storeVars, taskVars, listenerVars, recoveryVars
<1> QED
  BY <1>1, <1>2, DeliverSafe, UpsertSafe, UpsertFailsSafe, PutSafe, DequeueSafe,
     QueryActiveSafe, AdoptRowSafe, TimeoutRowSafe, TimeoutReadSafe, TimeoutWriteSafe,
     TimeoutAdoptSafe, StartSchedulerSafe, TickSafe, StopSafe, CrashSafe, BootSafe
     DEF Next

\* The invariant holds in every reachable state.
THEOREM SafeInvariant == Spec => []Safe
BY InitSafe, NextSafe, PTL DEF Spec

\* Every variable keeps its type, for all values of the constants.
THEOREM TypeCorrect == Spec => []TypeOK
<1>1. Safe => TypeOK
  BY DEF Safe
<1> QED
  BY <1>1, SafeInvariant, PTL

\* NFR-2: whatever is redelivered, fails or crashes, no stage is bet on twice.
THEOREM NoStageIsBetTwice == Spec => []NoDuplicateTrade
<1>1. Safe => NoDuplicateTrade
  BY DEF Safe
<1> QED
  BY <1>1, SafeInvariant, PTL

\* The database knows of every order before the broker does.
THEOREM RowsAreAheadOfOrders == Spec => []WriteAhead
<1>1. Safe => WriteAhead
  BY DEF Safe
<1> QED
  BY <1>1, SafeInvariant, PTL

\* There is never more than one supervisor of a signal.
THEOREM SupervisorsAreUnique == Spec => []OneSupervisor
<1>1. Safe => OneSupervisor
  BY DEF Safe, Exclusive
<1> QED
  BY <1>1, SafeInvariant, PTL
=============================================================================
