--------------------------- MODULE LifecycleProofs ---------------------------
(***************************************************************************)
(* The clean-up is orderly: proofs about module Lifecycle for any number   *)
(* of attempts, reconnects and supervisors.  None of the properties is     *)
(* inductive; Orderly says what is open, how the program is ending and     *)
(* which tasks are alive at each await of the main task.                   *)
(***************************************************************************)
EXTENDS Lifecycle, TLAPS

BrokerAwaits == {"brokerTry", "brokerTell", "brokerSleep", "brokerGiveUp", "brokerReady"}

\* What is open at each await.
OpenedSoFar ==
  /\ at = "dbConnect" => opened = {}
  /\ at = "migrate" => opened = {"pool"}
  /\ at = "tgConnect" => opened = {"db"}
  /\ at = "resolve" => opened = {"db", "telegram"}
  /\ at \in BrokerAwaits \union {"recover", "greet", "serve"} \union DrainAwaits
              \union {"farewell", "closeBroker"} => opened = Connections
  /\ at = "closeTelegram" => opened \subseteq {"db", "telegram"}
  /\ at = "closeDb" => opened \subseteq {"db"}
  /\ at = "exited" /\ sigint # "cut" => opened \intersect Connections = {}

\* The scheduler task lives from serve to the await of its end, and takes the
\* supervisors along.
TasksSoFar ==
  /\ at \in BootAwaits => sched = "none"
  /\ at = "serve" <=> sched = "running"
  /\ at = "endScheduler" => sched \in {"draining", "over"}
  /\ sched = "draining" => at = "endScheduler"
  /\ driving > 0 => sched \in {"running", "draining"}
  /\ sched = "over" => driving = 0 /\ adopted = 0
  /\ at \in {"dbConnect", "migrate", "tgConnect", "resolve"} \union BrokerAwaits => adopted = 0
  /\ at \in CloseAwaits => sched \in {"none", "over"}
  /\ at = "endTelegram" => sched = "over"
  /\ at = "exited" => driving = 0 /\ adopted = 0

\* The attempts at the broker, and the end.
EndsSoFar ==
  /\ at \in BootAwaits \union {"serve"} => why = "none"
  /\ at \in DrainAwaits \union CloseAwaits => why \in DOMAIN ExitCode
  /\ at \in BrokerAwaits => attempt \in 1..MaxAttempts
  /\ at \in {"brokerTell", "brokerSleep"} => attempt < MaxAttempts

\* The drops of the connection.
DropsSoFar ==
  /\ at \in BootAwaits => tele = "none" /\ drops = 0
  /\ tele \in {"connected", "telling", "sleeping"} => drops <= MaxDrops
  /\ outage <= drops

Orderly == TypeOK /\ OpenedSoFar /\ TasksSoFar /\ EndsSoFar /\ DropsSoFar

-----------------------------------------------------------------------------
\* Every end of _run has an exit status.
LEMMA ExitCodes == \A r \in DOMAIN ExitCode : ExitCode[r] \in 0..2
BY DEF ExitCode

\* At the start nothing is open and no task is alive.
LEMMA OrderlyInit == Init => Orderly
BY LifecycleAssumption
   DEF Init, Orderly, TypeOK, OpenedSoFar, TasksSoFar, EndsSoFar, DropsSoFar, ExitCode,
       Awaits, BootAwaits, DrainAwaits, CloseAwaits, BrokerAwaits, Connections

-----------------------------------------------------------------------------
(* An exception, at any await of the boot or of the two tasks: the         *)
(* clean-up starts at what has been opened.                                *)

LEMMA RaiseOrderly ==
  ASSUME Orderly, NEW reason \in DOMAIN ExitCode, Raise(reason),
         at \in BootAwaits \union {"serve"},
         sigint' \in {sigint, "once"},
         UNCHANGED <<opened, restarts, attempt, drops, outage>>
  PROVE  Orderly'
PROOF
<1>1. TypeOK'
  <2>1. CASE Finally(at) = "exited"
    <3>1. ExitCode[reason] \in 0..2
      BY ExitCodes
    <3>2. QED
      BY LifecycleAssumption, <2>1, <3>1 DEF Orderly, TypeOK, Raise, Exits, NoTasks
  <2>2. CASE Finally(at) # "exited"
    <3>1. Finally(at) \in Awaits
      BY <2>2 DEF Finally, Awaits, BootAwaits, DrainAwaits, CloseAwaits
    <3>2. QED
      BY <2>2, <3>1 DEF Orderly, TypeOK, Raise, Cancelled
  <2>3. QED BY <2>1, <2>2
<1>2. OpenedSoFar'
  BY DEF Orderly, OpenedSoFar, Raise, Finally, Exits, Awaits, BootAwaits, DrainAwaits,
         CloseAwaits, BrokerAwaits, Connections
<1>3. TasksSoFar'
  BY DEF Orderly, TypeOK, TasksSoFar, Raise, Finally, Exits, NoTasks, Cancelled, Awaits,
         BootAwaits, DrainAwaits, CloseAwaits, BrokerAwaits
<1>4. EndsSoFar'
  BY DEF Orderly, TypeOK, EndsSoFar, Raise, Finally, Exits, Awaits, BootAwaits, DrainAwaits,
         CloseAwaits, BrokerAwaits
<1>5. DropsSoFar'
  BY DEF Orderly, DropsSoFar, Raise, Exits, NoTasks, Finally, BootAwaits
<1>6. QED BY <1>1, <1>2, <1>3, <1>4, <1>5 DEF Orderly

\* An await of the boot that raises.
LEMMA FailsOrderly ==
  ASSUME Orderly, NEW label \in BootAwaits, NEW reason \in DOMAIN ExitCode,
         Fails(label, reason)
  PROVE  Orderly'
BY RaiseOrderly DEF Fails

-----------------------------------------------------------------------------
(* The boot, one await at a time.                                          *)

LEMMA DbConnectOrderly == Orderly /\ DbConnect => Orderly'
PROOF
<1>1. ASSUME Orderly, Fails("dbConnect", "config") \/ Fails("dbConnect", "database")
      PROVE  Orderly'
  BY <1>1, FailsOrderly DEF BootAwaits, ExitCode
<1>2. ASSUME Orderly, Reach("dbConnect", "migrate"), opened' = {"pool"},
             UNCHANGED <<restarts, attempt, teleVars>>
      PROVE  Orderly'
  BY <1>2 DEF Orderly, TypeOK, OpenedSoFar, TasksSoFar, EndsSoFar, DropsSoFar, Reach,
              schedVars, teleVars, Awaits, BootAwaits, DrainAwaits, CloseAwaits,
              BrokerAwaits, Connections
<1>3. QED BY <1>1, <1>2 DEF DbConnect

LEMMA BrokerTryOrderly == Orderly /\ BrokerTry => Orderly'
PROOF
<1>1. ASSUME Orderly, Fails("brokerTry", "other")
      PROVE  Orderly'
  BY <1>1, FailsOrderly DEF BootAwaits, ExitCode
<1>2. ASSUME Orderly,
             NEW next \in {"brokerReady", "brokerTell", "brokerGiveUp"},
             Reach("brokerTry", next),
             next = "brokerTell" => MoreAttempts,
             next = "brokerGiveUp" => attempt >= MaxAttempts,
             UNCHANGED <<opened, restarts, attempt, teleVars>>
      PROVE  Orderly'
  BY LifecycleAssumption, <1>2
     DEF Orderly, TypeOK, OpenedSoFar, TasksSoFar, EndsSoFar, DropsSoFar, Reach,
         MoreAttempts, schedVars, teleVars, Awaits, BootAwaits, DrainAwaits,
         CloseAwaits, BrokerAwaits
<1>3. QED BY <1>1, <1>2 DEF BrokerTry

LEMMA BrokerGiveUpOrderly == Orderly /\ BrokerGiveUp => Orderly'
BY RaiseOrderly DEF BrokerGiveUp, BootAwaits, ExitCode

LEMMA MigrateOrderly == Orderly /\ Migrate => Orderly'
PROOF
<1>1. ASSUME Orderly, Fails("migrate", "other")
      PROVE  Orderly'
  BY <1>1, FailsOrderly DEF BootAwaits, ExitCode
<1>2. ASSUME Orderly, Reach("migrate", "tgConnect"), opened' = {"db"},
             UNCHANGED <<restarts, attempt, teleVars>>
      PROVE  Orderly'
  BY LifecycleAssumption, <1>2
     DEF Orderly, TypeOK, OpenedSoFar, TasksSoFar, EndsSoFar, DropsSoFar, Reach,
         schedVars, teleVars, Awaits, BootAwaits, DrainAwaits, CloseAwaits,
         BrokerAwaits, Connections
<1>3. QED BY <1>1, <1>2 DEF Migrate

LEMMA TgConnectOrderly == Orderly /\ TgConnect => Orderly'
PROOF
<1>1. ASSUME Orderly, Fails("tgConnect", "config") \/ Fails("tgConnect", "other")
      PROVE  Orderly'
  BY <1>1, FailsOrderly DEF BootAwaits, ExitCode
<1>2. ASSUME Orderly, Reach("tgConnect", "resolve"), opened' = opened \union {"telegram"},
             UNCHANGED <<restarts, attempt, teleVars>>
      PROVE  Orderly'
  BY LifecycleAssumption, <1>2
     DEF Orderly, TypeOK, OpenedSoFar, TasksSoFar, EndsSoFar, DropsSoFar, Reach,
         schedVars, teleVars, Awaits, BootAwaits, DrainAwaits, CloseAwaits,
         BrokerAwaits, Connections
<1>3. QED BY <1>1, <1>2 DEF TgConnect

LEMMA ResolveOrderly == Orderly /\ Resolve => Orderly'
PROOF
<1>1. ASSUME Orderly, Fails("resolve", "config") \/ Fails("resolve", "other")
      PROVE  Orderly'
  BY <1>1, FailsOrderly DEF BootAwaits, ExitCode
<1>2. ASSUME Orderly, Reach("resolve", "brokerTry"), opened' = opened \union {"broker"},
             attempt' = 1, UNCHANGED <<restarts, teleVars>>
      PROVE  Orderly'
  BY LifecycleAssumption, <1>2
     DEF Orderly, TypeOK, OpenedSoFar, TasksSoFar, EndsSoFar, DropsSoFar, Reach,
         schedVars, teleVars, Awaits, BootAwaits, DrainAwaits, CloseAwaits,
         BrokerAwaits, Connections
<1>3. QED BY <1>1, <1>2 DEF Resolve

LEMMA BrokerReadyOrderly == Orderly /\ BrokerReady => Orderly'
PROOF
<1>1. ASSUME Orderly, Fails("brokerReady", "other")
      PROVE  Orderly'
  BY <1>1, FailsOrderly DEF BootAwaits, ExitCode
<1>2. ASSUME Orderly, Reach("brokerReady", "recover"), opened' = opened,
             UNCHANGED <<restarts, attempt, teleVars>>
      PROVE  Orderly'
  BY LifecycleAssumption, <1>2
     DEF Orderly, TypeOK, OpenedSoFar, TasksSoFar, EndsSoFar, DropsSoFar, Reach,
         schedVars, teleVars, Awaits, BootAwaits, DrainAwaits, CloseAwaits,
         BrokerAwaits, Connections
<1>3. QED BY <1>1, <1>2 DEF BrokerReady

LEMMA RecoverOrderly == Orderly /\ Recover => Orderly'
PROOF
<1>1. ASSUME Orderly, Fails("recover", "other")
      PROVE  Orderly'
  BY <1>1, FailsOrderly DEF BootAwaits, ExitCode
<1>2. ASSUME Orderly, Reach("recover", "greet"), opened' = opened,
             UNCHANGED <<restarts, attempt, teleVars>>
      PROVE  Orderly'
  BY LifecycleAssumption, <1>2
     DEF Orderly, TypeOK, OpenedSoFar, TasksSoFar, EndsSoFar, DropsSoFar, Reach,
         schedVars, teleVars, Awaits, BootAwaits, DrainAwaits, CloseAwaits,
         BrokerAwaits, Connections
<1>3. QED BY <1>1, <1>2 DEF Recover

LEMMA BrokerTellOrderly == Orderly /\ BrokerTell => Orderly'
BY LifecycleAssumption
   DEF Orderly, TypeOK, OpenedSoFar, TasksSoFar, EndsSoFar, DropsSoFar, schedVars,
       teleVars, mainVars, Awaits, BootAwaits, DrainAwaits, CloseAwaits, BrokerAwaits, Connections,
       BrokerTell, Reach

LEMMA BrokerSleepOrderly == Orderly /\ BrokerSleep => Orderly'
BY LifecycleAssumption
   DEF Orderly, TypeOK, OpenedSoFar, TasksSoFar, EndsSoFar, DropsSoFar, schedVars,
       teleVars, mainVars, Awaits, BootAwaits, DrainAwaits, CloseAwaits, BrokerAwaits, Connections,
       BrokerSleep, Reach

LEMMA AdoptOrderly == Orderly /\ Adopt => Orderly'
BY LifecycleAssumption
   DEF Orderly, TypeOK, OpenedSoFar, TasksSoFar, EndsSoFar, DropsSoFar, schedVars,
       teleVars, mainVars, Awaits, BootAwaits, DrainAwaits, CloseAwaits, BrokerAwaits, Connections,
       Adopt

LEMMA GreetOrderly == Orderly /\ Greet => Orderly'
BY LifecycleAssumption
   DEF Orderly, TypeOK, OpenedSoFar, TasksSoFar, EndsSoFar, DropsSoFar, schedVars,
       teleVars, mainVars, Awaits, BootAwaits, DrainAwaits, CloseAwaits, BrokerAwaits, Connections,
       Greet

LEMMA ServeOrderly == Orderly /\ Serve => Orderly'
BY RaiseOrderly DEF Serve, ExitCode

-----------------------------------------------------------------------------
(* The clean-up.                                                           *)

LEMMA EndSchedulerOrderly == Orderly /\ EndScheduler => Orderly'
BY LifecycleAssumption
   DEF Orderly, TypeOK, OpenedSoFar, TasksSoFar, EndsSoFar, DropsSoFar, schedVars,
       teleVars, mainVars, Awaits, BootAwaits, DrainAwaits, CloseAwaits, BrokerAwaits, Connections,
       EndScheduler

LEMMA EndTelegramOrderly == Orderly /\ EndTelegram => Orderly'
BY LifecycleAssumption
   DEF Orderly, TypeOK, OpenedSoFar, TasksSoFar, EndsSoFar, DropsSoFar, schedVars,
       teleVars, mainVars, Awaits, BootAwaits, DrainAwaits, CloseAwaits, BrokerAwaits, Connections,
       EndTelegram

LEMMA FarewellOrderly == Orderly /\ Farewell => Orderly'
BY LifecycleAssumption
   DEF Orderly, TypeOK, OpenedSoFar, TasksSoFar, EndsSoFar, DropsSoFar, schedVars,
       teleVars, mainVars, Awaits, BootAwaits, DrainAwaits, CloseAwaits, BrokerAwaits, Connections,
       Farewell

LEMMA CloseOrderly ==
  /\ Orderly /\ Close("closeBroker", "broker", "closeTelegram") => Orderly'
  /\ Orderly /\ Close("closeTelegram", "telegram", "closeDb") => Orderly'
BY DEF Close, Orderly, TypeOK, OpenedSoFar, TasksSoFar, EndsSoFar, DropsSoFar, schedVars,
       teleVars, mainVars, Awaits, BootAwaits, DrainAwaits, CloseAwaits, BrokerAwaits, Connections

\* In the clean-up the way that _run ended is known.
LEMMA CloseDbOrderly == Orderly /\ CloseDb => Orderly'
BY LifecycleAssumption
   DEF Orderly, TypeOK, OpenedSoFar, TasksSoFar, EndsSoFar, DropsSoFar, schedVars,
       teleVars, mainVars, Awaits, BootAwaits, DrainAwaits, CloseAwaits, BrokerAwaits, Connections,
       CloseDb, Exits,
       NoTasks, ExitCode

-----------------------------------------------------------------------------
(* The tasks.                                                              *)

LEMMA DequeueOrderly == Orderly /\ Dequeue => Orderly'
BY LifecycleAssumption
   DEF Orderly, TypeOK, OpenedSoFar, TasksSoFar, EndsSoFar, DropsSoFar, schedVars,
       teleVars, mainVars, Awaits, BootAwaits, DrainAwaits, CloseAwaits, BrokerAwaits, Connections,
       Dequeue

LEMMA SupervisorEndsOrderly == Orderly /\ SupervisorEnds => Orderly'
BY LifecycleAssumption
   DEF Orderly, TypeOK, OpenedSoFar, TasksSoFar, EndsSoFar, DropsSoFar, schedVars,
       teleVars, mainVars, Awaits, BootAwaits, DrainAwaits, CloseAwaits, BrokerAwaits, Connections,
       SupervisorEnds

LEMMA GatheredOrderly == Orderly /\ Gathered => Orderly'
BY LifecycleAssumption
   DEF Orderly, TypeOK, OpenedSoFar, TasksSoFar, EndsSoFar, DropsSoFar, schedVars,
       teleVars, mainVars, Awaits, BootAwaits, DrainAwaits, CloseAwaits, BrokerAwaits, Connections,
       Gathered

LEMMA TelegramOrderly == Orderly /\ (Works \/ Drop \/ Leaves \/ Reconnect) => Orderly'
PROOF
<1> USE LifecycleAssumption
    DEF Orderly, TypeOK, OpenedSoFar, TasksSoFar, EndsSoFar, DropsSoFar,
        schedVars, mainVars, Awaits, BootAwaits, Telegram
<1>1. Orderly /\ Works => Orderly'
  BY DEF Works
<1>2. ASSUME Orderly, Drop PROVE Orderly'
  <2>1. CASE drops < MaxDrops
    BY <1>2, <2>1 DEF Drop
  <2>2. CASE ~(drops < MaxDrops)
    BY <1>2, <2>2 DEF Drop
  <2>3. QED BY <2>1, <2>2
<1>3. Orderly /\ Leaves => Orderly'
  BY DEF Leaves
<1>4. Orderly /\ Reconnect => Orderly'
  BY DEF Reconnect
<1>5. QED BY <1>1, <1>2, <1>3, <1>4

-----------------------------------------------------------------------------
(* Signals, the end and the restart.                                       *)

LEMMA InterruptOrderly == Orderly /\ Interrupt => Orderly'
PROOF
<1> SUFFICES ASSUME Orderly, Interrupt PROVE Orderly'
  OBVIOUS
<1> USE DEF Interrupt
<1>1. CASE at \in BootAwaits \union {"serve"}
  BY <1>1, RaiseOrderly DEF ExitCode, BootAwaits, DrainAwaits, CloseAwaits
<1>2. CASE at \in DrainAwaits
  BY <1>2 DEF Orderly, TypeOK, OpenedSoFar, TasksSoFar, EndsSoFar, DropsSoFar, schedVars,
              teleVars, mainVars, Awaits, BootAwaits, DrainAwaits, CloseAwaits, BrokerAwaits, Connections
<1>3. CASE at \in CloseAwaits
  BY LifecycleAssumption, <1>3
     DEF Orderly, TypeOK, OpenedSoFar, TasksSoFar, EndsSoFar, DropsSoFar, schedVars,
         teleVars, mainVars, Awaits, BootAwaits, DrainAwaits, CloseAwaits, BrokerAwaits, Connections, Exits,
         NoTasks, ExitCode
<1>4. QED BY <1>1, <1>2, <1>3

LEMMA InterruptAgainOrderly == Orderly /\ InterruptAgain => Orderly'
BY LifecycleAssumption
   DEF Orderly, TypeOK, OpenedSoFar, TasksSoFar, EndsSoFar, DropsSoFar, schedVars,
       teleVars, mainVars, Awaits, BootAwaits, DrainAwaits, CloseAwaits, BrokerAwaits, Connections,
       InterruptAgain, Exits,
       NoTasks, ExitCode

LEMMA KillOrderly == Orderly /\ Kill => Orderly'
BY LifecycleAssumption
   DEF Orderly, TypeOK, OpenedSoFar, TasksSoFar, EndsSoFar, DropsSoFar, schedVars,
       teleVars, mainVars, Awaits, BootAwaits, DrainAwaits, CloseAwaits, BrokerAwaits, Connections,
       Kill, NoTasks,
       ExitCode

LEMMA BeginsOrderly == Orderly /\ (PlatformRestart \/ Deploy) => Orderly'
BY LifecycleAssumption
   DEF Orderly, TypeOK, OpenedSoFar, TasksSoFar, EndsSoFar, DropsSoFar, Awaits, BootAwaits,
       DrainAwaits, CloseAwaits, BrokerAwaits, Connections, PlatformRestart, Deploy, Begin, NoTasks

-----------------------------------------------------------------------------
LEMMA OrderlyStep == Orderly /\ [Next]_vars => Orderly'
PROOF
<1> SUFFICES ASSUME Orderly, [Next]_vars PROVE Orderly'
  OBVIOUS
<1>1. CASE Boot
  BY <1>1, DbConnectOrderly, MigrateOrderly, TgConnectOrderly, ResolveOrderly, BrokerTryOrderly,
     BrokerTellOrderly, BrokerSleepOrderly, BrokerGiveUpOrderly, BrokerReadyOrderly,
     RecoverOrderly, GreetOrderly DEF Boot
<1>2. CASE CleanUp
  BY <1>2, EndSchedulerOrderly, EndTelegramOrderly, FarewellOrderly, CloseOrderly, CloseDbOrderly
     DEF CleanUp
<1>3. CASE Adopt \/ Serve \/ Dequeue \/ SupervisorEnds \/ Gathered
  BY <1>3, AdoptOrderly, ServeOrderly, DequeueOrderly, SupervisorEndsOrderly, GatheredOrderly
<1>4. CASE Works \/ Drop \/ Leaves \/ Reconnect
  BY <1>4, TelegramOrderly
<1>5. CASE Interrupt \/ InterruptAgain \/ Kill \/ PlatformRestart \/ Deploy
  BY <1>5, InterruptOrderly, InterruptAgainOrderly, KillOrderly, BeginsOrderly
<1>6. CASE UNCHANGED vars
  BY <1>6 DEF vars, Orderly, TypeOK, OpenedSoFar, TasksSoFar, EndsSoFar, DropsSoFar, schedVars,
              teleVars, mainVars, Awaits, BootAwaits, DrainAwaits, CloseAwaits, BrokerAwaits, Connections
<1>7. QED BY <1>1, <1>2, <1>3, <1>4, <1>5, <1>6 DEF Next

LEMMA AlwaysOrderly == Spec => []Orderly
BY OrderlyInit, OrderlyStep, PTL DEF Spec

-----------------------------------------------------------------------------
(* What follows.                                                           *)

\* Type correctness of _run's awaits, its connections and its tasks.
THEOREM LifecycleTyped == Spec => []TypeOK
BY AlwaysOrderly, PTL DEF Orderly

\* Scheduler.run gathers its supervisors, adopted ones too, before anything is
\* closed: only a boot that ends before the scheduler's start closes a connection
\* while a supervisor is alive.
THEOREM SupervisorsServed == Spec => []DriversConnected
PROOF
<1>1. Orderly => DriversConnected
  BY LifecycleAssumption
     DEF Orderly, TypeOK, OpenedSoFar, TasksSoFar, DriversConnected, Awaits, BootAwaits,
         DrainAwaits, CloseAwaits, BrokerAwaits
<1>2. QED BY <1>1, AlwaysOrderly, PTL

\* The finally block of _run closes what the boot handed over, wherever it
\* stopped.
THEOREM NothingLeftOpen == Spec => []ExitsClean
PROOF
<1>1. Orderly => ExitsClean
  BY DEF Orderly, OpenedSoFar, ExitsClean
<1>2. QED BY <1>1, AlwaysOrderly, PTL

-----------------------------------------------------------------------------
(* The life of the process.  Every step of _run is one of module Process,  *)
(* or none: the phase is that of the await, and the supervisors alive are  *)
(* those that drive and those that recovery adopted.                       *)

\* The phase of each await.
LEMMA Phases ==
  /\ \A label \in BootAwaits \ {"recover", "greet"} : PhaseOf(label) = "boot"
  /\ PhaseOf("recover") = "recovering" /\ PhaseOf("greet") = "recovering"
  /\ PhaseOf("serve") = "running"
  /\ \A label \in DrainAwaits \union CloseAwaits : PhaseOf(label) = "stopping"
  /\ PhaseOf("exited") = "down"
BY DEF PhaseOf, BootAwaits, DrainAwaits, CloseAwaits

\* An exception starts the clean-up, or ends the process when there is
\* nothing to clean up.
LEMMA RaiseInLife ==
  ASSUME Orderly, NEW reason, Raise(reason), at \in BootAwaits \union {"serve"}
  PROVE  Life!Stop \/ Life!Die
PROOF
<1>1. CASE Finally(at) = "exited"
  BY Phases, <1>1 DEF Raise, Exits, NoTasks, Life!Die, BootAwaits, DrainAwaits, CloseAwaits
<1>2. CASE Finally(at) # "exited"
  <2>1. Finally(at) \in DrainAwaits \union CloseAwaits
    BY <1>2 DEF Finally, BootAwaits, DrainAwaits, CloseAwaits
  <2>2. PhaseOf(at') = "stopping"
    BY Phases, <1>2, <2>1 DEF Raise, BootAwaits, DrainAwaits, CloseAwaits
  <2>3. PhaseOf(at) \in {"boot", "recovering", "running"}
    BY Phases DEF BootAwaits
  <2>4. QED
    BY <1>2, <2>2, <2>3 DEF Raise, Life!Stop, Life!Turn
<1>3. QED BY <1>1, <1>2

\* The awaits of the boot: the phase changes at recovery and when the tasks
\* are created.
LEMMA BootInLife == Orderly /\ Boot => [Life!Live]_Life!pvars
PROOF
<1> SUFFICES ASSUME Orderly, Boot PROVE [Life!Live]_Life!pvars
  OBVIOUS
<1>1. ASSUME NEW label \in BootAwaits, NEW reason, Fails(label, reason)
      PROVE  Life!Stop \/ Life!Die
  BY <1>1, RaiseInLife DEF Fails
<1>2. ASSUME NEW label, NEW next, Reach(label, next), PhaseOf(label) = PhaseOf(next)
      PROVE  UNCHANGED Life!pvars
  BY <1>2 DEF Reach, schedVars, Life!pvars
<1>3. DbConnect \/ Migrate \/ TgConnect \/ Resolve => [Life!Live]_Life!pvars
  BY Phases, <1>1, <1>2 DEF DbConnect, Migrate, TgConnect, Resolve, BootAwaits, Life!Live
<1>4. BrokerTry \/ BrokerTell \/ BrokerSleep => [Life!Live]_Life!pvars
  BY Phases, <1>1, <1>2 DEF BrokerTry, BrokerTell, BrokerSleep, BootAwaits, Life!Live
<1>5. BrokerGiveUp => [Life!Live]_Life!pvars
  BY RaiseInLife DEF BrokerGiveUp, BootAwaits, Life!Live
<1>6. BrokerReady => [Life!Live]_Life!pvars
  <2>1. Reach("brokerReady", "recover") => Life!Recover
    BY Phases DEF Reach, schedVars, BootAwaits, Life!Recover, Life!Turn
  <2>2. QED BY <1>1, <2>1 DEF BrokerReady, BootAwaits, Life!Live
<1>7. Recover => [Life!Live]_Life!pvars
  BY Phases, <1>1, <1>2 DEF Recover, BootAwaits, Life!Live
<1>8. Greet => [Life!Live]_Life!pvars
  BY Phases DEF Greet, BootAwaits, Life!Serve, Life!Turn, Life!Live
<1>9. QED BY <1>3, <1>4, <1>5, <1>6, <1>7, <1>8 DEF Boot

\* The clean-up is one phase, and its last close the end.
LEMMA CleanUpInLife == Orderly /\ CleanUp => [Life!Live]_Life!pvars
PROOF
<1> SUFFICES ASSUME Orderly, CleanUp PROVE [Life!Live]_Life!pvars
  OBVIOUS
<1>1. ASSUME at \in DrainAwaits \union CloseAwaits, at' \in DrainAwaits \union CloseAwaits,
             UNCHANGED <<driving, adopted>>
      PROVE  UNCHANGED Life!pvars
  BY Phases, <1>1 DEF BootAwaits, DrainAwaits, CloseAwaits, Life!pvars
<1>2. CloseDb => Life!Die
  BY Phases DEF CloseDb, Exits, NoTasks, BootAwaits, DrainAwaits, CloseAwaits, Life!Die
<1>3. QED
  BY <1>1, <1>2 DEF CleanUp, EndScheduler, EndTelegram, Farewell, Close, schedVars, DrainAwaits,
                    CloseAwaits, Life!Live

\* Supervisors come while the program recovers or runs, and leave one by one.
LEMMA SupervisorsInLife ==
  Orderly /\ (Adopt \/ Dequeue \/ SupervisorEnds \/ Gathered) => [Life!Live]_Life!pvars
PROOF
<1> SUFFICES ASSUME Orderly, Adopt \/ Dequeue \/ SupervisorEnds \/ Gathered
             PROVE  [Life!Live]_Life!pvars
  OBVIOUS
<1>1. driving \in Nat /\ adopted \in Nat
  BY LifecycleAssumption DEF Orderly, TypeOK
<1>2. Adopt => Life!Arrive
  BY Phases, <1>1 DEF Adopt, mainVars, BootAwaits, Life!Arrive
<1>3. Dequeue => Life!Arrive
  BY Phases, <1>1 DEF Dequeue, mainVars, Orderly, TasksSoFar, BootAwaits, Life!Arrive
<1>4. SupervisorEnds => Life!Leave
  BY <1>1 DEF SupervisorEnds, mainVars, Life!Leave
<1>5. Gathered => UNCHANGED Life!pvars
  BY DEF Gathered, mainVars, Life!pvars
<1>6. QED BY <1>2, <1>3, <1>4, <1>5 DEF Life!Live

\* SIGINT stops the program or ends it; the end takes the supervisors along.
LEMMA SignalsInLife ==
  Orderly /\ (Interrupt \/ InterruptAgain \/ Kill \/ PlatformRestart \/ Deploy) =>
    [Life!Live]_Life!pvars
PROOF
<1> SUFFICES ASSUME Orderly, Interrupt \/ InterruptAgain \/ Kill \/ PlatformRestart \/ Deploy
             PROVE  [Life!Live]_Life!pvars
  OBVIOUS
<1>1. ASSUME NEW reason, Exits(reason), at \in Awaits
      PROVE  Life!Die
  BY Phases, <1>1 DEF Exits, NoTasks, Awaits, BootAwaits, DrainAwaits, CloseAwaits, Life!Die
<1>2. at # "exited" => at \in Awaits
  BY DEF Orderly, TypeOK
<1>3. Interrupt => [Life!Live]_Life!pvars
  BY <1>1, <1>2, RaiseInLife DEF Interrupt, schedVars, Life!pvars, Life!Live
<1>4. InterruptAgain => [Life!Live]_Life!pvars
  BY <1>1, <1>2 DEF InterruptAgain, schedVars, Life!pvars, Life!Live
<1>5. Kill => Life!Die
  BY Phases, <1>2 DEF Kill, NoTasks, Awaits, BootAwaits, DrainAwaits, CloseAwaits, Life!Die
<1>6. PlatformRestart \/ Deploy => Life!Restart
  BY Phases DEF PlatformRestart, Deploy, Begin, NoTasks, Orderly, TasksSoFar, BootAwaits,
         DrainAwaits, CloseAwaits, Life!Restart, Life!Turn
<1>7. QED BY <1>3, <1>4, <1>5, <1>6 DEF Life!Live

\* _run and main implement the life that the copier of module Copier assumes.
THEOREM LifeImplemented == Spec => ImplementsLife
PROOF
<1>1. Init => Life!Up
  BY Phases DEF Init, BootAwaits, Life!Up
<1>2. Orderly /\ [Next]_vars => [Life!Live]_Life!pvars
  <2> SUFFICES ASSUME Orderly, [Next]_vars PROVE [Life!Live]_Life!pvars
    OBVIOUS
  <2>1. CASE Boot BY <2>1, BootInLife
  <2>2. CASE CleanUp BY <2>2, CleanUpInLife
  <2>3. CASE Adopt \/ Dequeue \/ SupervisorEnds \/ Gathered BY <2>3, SupervisorsInLife
  <2>4. CASE Serve
    BY <2>4, RaiseInLife DEF Serve, Life!Live
  <2>5. CASE Works \/ Drop \/ Leaves \/ Reconnect
    BY <2>5 DEF Works, Drop, Leaves, Reconnect, Telegram, mainVars, schedVars, Life!pvars
  <2>6. CASE Interrupt \/ InterruptAgain \/ Kill \/ PlatformRestart \/ Deploy BY <2>6, SignalsInLife
  <2>7. CASE UNCHANGED vars
    BY <2>7 DEF vars, mainVars, schedVars, Life!pvars
  <2>8. QED BY <2>1, <2>2, <2>3, <2>4, <2>5, <2>6, <2>7 DEF Next
<1>3. QED
  BY <1>1, <1>2, AlwaysOrderly, PTL DEF Spec, ImplementsLife, Life!PSpec
=============================================================================
