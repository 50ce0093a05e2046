------------------------------ MODULE Lifecycle ------------------------------
(***************************************************************************)
(* _run and main (__main__.py): the boot, in which one thing after another *)
(* is opened, the two tasks that run until one of them ends, and the       *)
(* clean-up in the finally block; with_retry (broker/reconnect.py) around  *)
(* the connection to MT5; TelegramClient.start (telegram/client.py) and    *)
(* its reconnects; Scheduler.run and its supervisors, as a number.         *)
(*                                                                         *)
(* SIGINT cancels the main task, which raises at the await that it is at;  *)
(* a second one makes asyncio.run cancel whatever is left.  An exit with a *)
(* failure makes the platform start the program again, up to its maximum.  *)
(*                                                                         *)
(* The DMs about the connections are awaits; what they say is not modelled *)
(* (on_broker_reconnected always says one attempt and no downtime).        *)
(***************************************************************************)
EXTENDS Naturals

CONSTANTS
  MaxAttempts,    \* with_retry's max_attempts
  MaxDrops,       \* _MAX_RECONNECT_ATTEMPTS
  MaxRestarts,    \* restartPolicyMaxRetries
  MaxSupervisors  \* bound: supervisors alive at the same time

ASSUME LifecycleAssumption ==
  /\ MaxAttempts \in Nat \ {0} /\ MaxDrops \in Nat
  /\ MaxRestarts \in Nat /\ MaxSupervisors \in Nat

VARIABLES
  at,        \* the await of the main task
  opened,    \* the connections that are open; "pool" is one to the database
             \* that nobody holds yet
  why,       \* what ended the program, "none" while it runs
  code,      \* its exit status
  sigint,    \* "none", "once", "twice", or "cut": SIGINT cut the clean-up short
  restarts,  \* the platform's restarts since the program was deployed
  attempt,   \* with_retry: the attempt being made
  sched,     \* the scheduler task
  driving,   \* supervisors of dequeued signals
  adopted,   \* supervisors that recovery started
  tele,      \* the telegram task
  drops,     \* `attempt` of TelegramClient.start: the ConnectionErrors so far
  outage     \* ConnectionErrors since the connection last worked

schedVars == <<sched, driving, adopted>>
teleVars == <<tele, drops, outage>>
mainVars == <<at, opened, why, code, sigint>>
vars == <<mainVars, restarts, attempt, schedVars, teleVars>>

BootAwaits == {"dbConnect", "migrate", "tgConnect", "resolve", "brokerTry", "brokerTell",
               "brokerSleep", "brokerGiveUp", "brokerReady", "recover", "greet"}
DrainAwaits == {"endScheduler", "endTelegram"}
CloseAwaits == {"farewell", "closeBroker", "closeTelegram", "closeDb"}
Awaits == BootAwaits \union {"serve"} \union DrainAwaits \union CloseAwaits

Connections == {"db", "telegram", "broker"}

\* Mutant of ExitCode: an MT5 login that failed is no error.
ExitCodeLenient ==
  [returned |-> 0, interrupted |-> 0, database |-> 1, other |-> 1, config |-> 2,
   auth |-> 0]

\* What main makes of the way _run ended.
ExitCode ==
  [returned |-> 0, interrupted |-> 0, database |-> 1, other |-> 1, config |-> 2,
   auth |-> 2]

Failures == {"database", "other", "config", "auth"}

TypeOK ==
  /\ at \in Awaits \union {"exited"}
  /\ opened \subseteq Connections \union {"pool"}
  /\ why \in DOMAIN ExitCode \union {"none", "killed"}
  /\ code \in 0..2
  /\ sigint \in {"none", "once", "twice", "cut"}
  /\ restarts \in 0..MaxRestarts
  /\ attempt \in 0..MaxAttempts
  /\ sched \in {"none", "running", "draining", "over"}
  /\ driving \in 0..MaxSupervisors /\ adopted \in 0..MaxSupervisors
  /\ tele \in {"none", "connected", "telling", "sleeping", "returned", "dropped",
               "flooded", "over"}
  /\ drops \in 0..(MaxDrops + 1) /\ outage \in 0..(MaxDrops + 1)

Init ==
  /\ at = "dbConnect"
  /\ opened = {} /\ why = "none" /\ code = 0 /\ sigint = "none"
  /\ restarts = 0 /\ attempt = 0
  /\ sched = "none" /\ driving = 0 /\ adopted = 0
  /\ tele = "none" /\ drops = 0 /\ outage = 0

-----------------------------------------------------------------------------
(* The finally block.                                                      *)

\* Where it begins, by the await that raised: it skips what was never made.
Finally(label) ==
  CASE label \in {"dbConnect", "migrate"} -> "exited"
    [] label \in {"tgConnect", "resolve"} -> "closeTelegram"
    [] label \in {"brokerTry", "brokerTell", "brokerSleep", "brokerGiveUp",
                  "brokerReady"} -> "closeBroker"
    [] label \in {"recover", "greet"} -> "farewell"
    [] label = "serve" -> "endScheduler"

\* Mutant of Cancelled: the task is awaited, but not cancelled.
AwaitedOnly == UNCHANGED sched

\* The clean-up ends the scheduler task first: cancelled, it cancels its
\* supervisors and gathers them.
Cancelled == sched' = IF sched = "running" THEN "draining" ELSE sched

\* No task survives the event loop.
NoTasks == sched' = "none" /\ driving' = 0 /\ adopted' = 0 /\ tele' = "none"

\* _run raises or returns: asyncio.run cancels the tasks that are left.
Exits(reason) ==
  /\ at' = "exited"
  /\ why' = reason
  /\ code' = ExitCode[reason]
  /\ NoTasks

\* An exception at the await of the main task, or its return.
Raise(reason) ==
  IF Finally(at) = "exited"
  THEN Exits(reason)
  ELSE /\ at' = Finally(at)
       /\ why' = reason
       /\ Cancelled
       /\ UNCHANGED <<code, driving, adopted, tele>>

\* Mutant of EndScheduler: the supervisors are not awaited.
EndSchedulerAtOnce ==
  /\ at = "endScheduler"
  /\ at' = "endTelegram"
  /\ UNCHANGED <<opened, why, code, sigint, restarts, attempt, schedVars, teleVars>>

\* run has returned from its gather.
EndScheduler ==
  /\ at = "endScheduler"
  /\ sched = "over"
  /\ at' = "endTelegram"
  /\ UNCHANGED <<opened, why, code, sigint, restarts, attempt, schedVars, teleVars>>

\* A telegram task that is not done is cancelled.
EndTelegram ==
  /\ at = "endTelegram"
  /\ at' = "farewell"
  /\ tele' = "over"
  /\ UNCHANGED <<opened, why, code, sigint, restarts, attempt, schedVars, drops, outage>>

\* Mutant of Farewell: the broker is not closed.
FarewellHasty ==
  /\ at = "farewell"
  /\ at' = "closeTelegram"
  /\ UNCHANGED <<opened, why, code, sigint, restarts, attempt, schedVars, teleVars>>

\* on_bot_stopping, then the connections, each closed if it was made.
Farewell ==
  /\ at = "farewell"
  /\ at' = "closeBroker"
  /\ UNCHANGED <<opened, why, code, sigint, restarts, attempt, schedVars, teleVars>>

Close(label, what, next) ==
  /\ at = label
  /\ at' = next
  /\ opened' = opened \ {what}
  /\ UNCHANGED <<why, code, sigint, restarts, attempt, schedVars, teleVars>>

CloseDb ==
  /\ at = "closeDb"
  /\ opened' = opened \ {"db"}
  /\ Exits(why)
  /\ UNCHANGED <<sigint, restarts, attempt, drops, outage>>

CleanUp ==
  \/ EndScheduler \/ EndTelegram \/ Farewell
  \/ Close("closeBroker", "broker", "closeTelegram")
  \/ Close("closeTelegram", "telegram", "closeDb")
  \/ CloseDb

-----------------------------------------------------------------------------
(* The boot.                                                               *)

\* An await of the boot raises.
Fails(label, reason) ==
  /\ at = label
  /\ Raise(reason)
  /\ UNCHANGED <<opened, sigint, restarts, attempt, drops, outage>>

Reach(label, next) ==
  /\ at = label
  /\ at' = next
  /\ UNCHANGED <<why, code, sigint, schedVars>>

\* Without its credentials the MT5 broker is refused before any connection.
DbConnect ==
  \/ Fails("dbConnect", "config") \/ Fails("dbConnect", "database")
  \/ /\ Reach("dbConnect", "migrate")
     /\ opened' = {"pool"}
     /\ UNCHANGED <<restarts, attempt, teleVars>>

\* Database.connect only returns when the migration has been applied: a pool
\* whose migration fails is closed by nobody.
Migrate ==
  \/ Fails("migrate", "other")
  \/ /\ Reach("migrate", "tgConnect")
     /\ opened' = {"db"}
     /\ UNCHANGED <<restarts, attempt, teleVars>>

TgConnect ==
  \/ Fails("tgConnect", "config") \/ Fails("tgConnect", "other")
  \/ /\ Reach("tgConnect", "resolve")
     /\ opened' = opened \union {"telegram"}
     /\ UNCHANGED <<restarts, attempt, teleVars>>

\* The dialogs are scanned; MetaTrader5() then opens the link to the terminal,
\* and its refusal is no retry's business.
Resolve ==
  \/ Fails("resolve", "config") \/ Fails("resolve", "other")
  \/ /\ Reach("resolve", "brokerTry")
     /\ opened' = opened \union {"broker"}
     /\ attempt' = 1
     /\ UNCHANGED <<restarts, teleVars>>

\* Mutant of MoreAttempts: one too many.
MoreAttemptsByOne == attempt <= MaxAttempts

MoreAttempts == attempt < MaxAttempts

\* mt5.initialize succeeds, is refused or loses its socket, or raises something
\* that with_retry lets through.
BrokerTry ==
  \/ Fails("brokerTry", "other")
  \/ /\ Reach("brokerTry", "brokerReady")
     /\ UNCHANGED <<opened, restarts, attempt, teleVars>>
  \/ /\ MoreAttempts
     /\ Reach("brokerTry", "brokerTell")
     /\ UNCHANGED <<opened, restarts, attempt, teleVars>>
  \/ /\ attempt >= MaxAttempts
     /\ Reach("brokerTry", "brokerGiveUp")
     /\ UNCHANGED <<opened, restarts, attempt, teleVars>>

BrokerTell ==
  /\ Reach("brokerTell", "brokerSleep")
  /\ UNCHANGED <<opened, restarts, attempt, teleVars>>

BrokerSleep ==
  /\ Reach("brokerSleep", "brokerTry")
  /\ attempt' = attempt + 1
  /\ UNCHANGED <<opened, restarts, teleVars>>

BrokerGiveUp ==
  /\ at = "brokerGiveUp"
  /\ Raise("auth")
  /\ UNCHANGED <<opened, sigint, restarts, attempt, drops, outage>>

\* The balance and the symbols are read, and the user is told.
BrokerReady ==
  \/ Fails("brokerReady", "other")
  \/ /\ Reach("brokerReady", "recover")
     /\ UNCHANGED <<opened, restarts, attempt, teleVars>>

\* Recovery may stop at a database error after it has adopted rows.
Recover ==
  \/ Fails("recover", "other")
  \/ /\ Reach("recover", "greet")
     /\ UNCHANGED <<opened, restarts, attempt, teleVars>>

Adopt ==
  /\ at = "recover"
  /\ adopted < MaxSupervisors
  /\ adopted' = adopted + 1
  /\ UNCHANGED <<mainVars, restarts, attempt, sched, driving, teleVars>>

\* on_bot_started, then both tasks are created.
Greet ==
  /\ at = "greet"
  /\ at' = "serve"
  /\ sched' = "running"
  /\ tele' = "connected"
  /\ UNCHANGED <<opened, why, code, sigint, restarts, attempt, driving, adopted, drops, outage>>

\* The telegram task is done: its exception is raised again, or _run returns.
Serve ==
  /\ at = "serve"
  /\ \/ tele = "returned" /\ Raise("returned")
     \/ tele \in {"dropped", "flooded"} /\ Raise("other")
  /\ UNCHANGED <<opened, sigint, restarts, attempt, drops, outage>>

Boot ==
  \/ DbConnect \/ Migrate \/ TgConnect \/ Resolve \/ BrokerTry \/ BrokerTell \/ BrokerSleep
  \/ BrokerGiveUp \/ BrokerReady \/ Recover \/ Greet

-----------------------------------------------------------------------------
(* The scheduler task.                                                     *)

\* Mutant of Dequeue: also while the cancelled supervisors are gathered.
DequeueDraining ==
  /\ sched \in {"running", "draining"}
  /\ driving < MaxSupervisors
  /\ driving' = driving + 1
  /\ UNCHANGED <<mainVars, restarts, attempt, sched, adopted, teleVars>>

Dequeue ==
  /\ sched = "running"
  /\ driving < MaxSupervisors
  /\ driving' = driving + 1
  /\ UNCHANGED <<mainVars, restarts, attempt, sched, adopted, teleVars>>

\* A supervisor returns, or is cancelled.
SupervisorEnds ==
  /\ \/ driving > 0 /\ driving' = driving - 1 /\ UNCHANGED adopted
     \/ adopted > 0 /\ adopted' = adopted - 1 /\ UNCHANGED driving
  /\ UNCHANGED <<mainVars, restarts, attempt, sched, teleVars>>

Gathered ==
  /\ sched = "draining"
  /\ driving = 0 /\ adopted = 0
  /\ sched' = "over"
  /\ UNCHANGED <<mainVars, restarts, attempt, driving, adopted, teleVars>>

-----------------------------------------------------------------------------
(* The telegram task, while it is not cancelled.                           *)

Telegram(from, to) ==
  /\ tele = from
  /\ tele' = to
  /\ UNCHANGED <<mainVars, restarts, attempt, schedVars>>

\* Updates arrive: whatever outage there was is over.
Works ==
  /\ Telegram("connected", "connected")
  /\ outage' = 0
  /\ UNCHANGED drops

\* run_until_disconnected raises ConnectionError.
Drop ==
  /\ Telegram("connected", IF drops < MaxDrops THEN "telling" ELSE "dropped")
  /\ drops' = drops + 1
  /\ outage' = outage + 1

\* It returns, or raises a FloodWaitError of more than a minute.
Leaves ==
  /\ Telegram("connected", "returned") \/ Telegram("connected", "flooded")
  /\ UNCHANGED <<drops, outage>>

\* on_telegram_disconnect, the pause, and run_until_disconnected again.
Reconnect ==
  /\ Telegram("telling", "sleeping") \/ Telegram("sleeping", "connected")
  /\ UNCHANGED <<drops, outage>>

-----------------------------------------------------------------------------
(* Signals and the platform.                                               *)

\* The first SIGINT.  While the clean-up awaits a cancelled task, the
\* CancelledError is suppressed; later it leaves the finally block at once, and
\* main takes the end for an interrupt.
Interrupt ==
  /\ at # "exited"
  /\ sigint = "none"
  /\ \/ /\ at \in BootAwaits \union {"serve"}
        /\ sigint' = "once"
        /\ Raise("interrupted")
     \/ /\ at \in DrainAwaits
        /\ sigint' = "once"
        /\ UNCHANGED <<at, why, code, schedVars, tele>>
     \/ /\ at \in CloseAwaits
        /\ sigint' = "cut"
        /\ Exits("interrupted")
  /\ UNCHANGED <<opened, restarts, attempt, drops, outage>>

\* The second one raises KeyboardInterrupt out of the event loop, and what is
\* left of asyncio.run cancels every task again: a main task that awaits another
\* task suppresses that too and goes on with its clean-up; anywhere else it, like
\* a third SIGINT or one in the middle of a step of main, cuts the clean-up short.
InterruptAgain ==
  /\ at # "exited"
  /\ sigint \in {"once", "twice"}
  /\ \/ /\ sigint = "once" /\ at \in DrainAwaits
        /\ sigint' = "twice"
        /\ why' = "interrupted"
        /\ UNCHANGED <<at, code, schedVars, tele>>
     \/ /\ sigint' = "cut"
        /\ Exits("interrupted")
  /\ UNCHANGED <<opened, restarts, attempt, drops, outage>>

\* SIGTERM, which nothing handles, or worse.
Kill ==
  /\ at # "exited"
  /\ at' = "exited" /\ why' = "killed" /\ code' = 1
  /\ opened' = {}
  /\ NoTasks
  /\ UNCHANGED <<sigint, restarts, attempt, drops, outage>>

\* The program begins again with nothing.
Begin ==
  /\ at = "exited"
  /\ at' = "dbConnect"
  /\ opened' = {} /\ why' = "none" /\ code' = 0 /\ sigint' = "none"
  /\ attempt' = 0
  /\ NoTasks /\ drops' = 0 /\ outage' = 0

\* restartPolicyType = "ON_FAILURE", restartPolicyMaxRetries times: what fails
\* after that stays down.
PlatformRestart ==
  /\ code # 0
  /\ restarts < MaxRestarts
  /\ Begin
  /\ restarts' = restarts + 1

\* The user deploys the program anew.
Deploy == Begin /\ restarts' = 0

Next ==
  \/ Boot \/ Adopt \/ Serve \/ CleanUp
  \/ Dequeue \/ SupervisorEnds \/ Gathered
  \/ Works \/ Drop \/ Leaves \/ Reconnect
  \/ Interrupt \/ InterruptAgain \/ Kill \/ PlatformRestart \/ Deploy

Spec == Init /\ [][Next]_vars

-----------------------------------------------------------------------------
(* Safety.                                                                 *)

\* No supervisor finds a connection closed under it: not the database that must
\* know of an order first, not the broker, not the user's DMs.  The exception is
\* a boot that ends between recovery and the scheduler's start, which closes them
\* under the supervisors that recovery adopted (those never bet).
DriversConnected ==
  driving + adopted > 0 /\ opened # Connections =>
    driving = 0 /\ sched = "none" /\ at \in CloseAwaits

\* Whatever fails, wherever the boot stands, and also when SIGINT comes while
\* the tasks are being ended: every connection that was handed over is closed.
ExitsClean ==
  at = "exited" /\ sigint # "cut" => opened \intersect Connections = {}

PhaseOf(label) ==
  CASE label \in BootAwaits \ {"recover", "greet"} -> "boot"
    [] label \in {"recover", "greet"} -> "recovering"
    [] label = "serve" -> "running"
    [] label \in DrainAwaits \union CloseAwaits -> "stopping"
    [] label = "exited" -> "down"

\* The life of the process that the copier assumes.
Life == INSTANCE Process WITH phase <- PhaseOf(at), live <- driving + adopted
ImplementsLife == Life!PSpec

\* docs/superpowers/specs/2026-06-21-m5-telegram-listener-design.md:67: the
\* program re-raises "after 10 attempts (~2 minutes total)" - of one outage, not
\* of all the outages in its life.
GivesUpOnOutage == tele = "dropped" => outage > MaxDrops

-----------------------------------------------------------------------------
(* Liveness.  The awaits of the boot and the clean-up come to an end, the  *)
(* cancelled supervisors end, the telegram task goes on, and the platform  *)
(* restarts what failed, MaxRestarts times.  Nothing ends a program that   *)
(* works, and no user has to start one that does not.                      *)

Fairness ==
  /\ WF_vars(Boot) /\ WF_vars(Serve) /\ WF_vars(CleanUp)
  /\ WF_vars(sched = "draining" /\ SupervisorEnds) /\ WF_vars(Gathered)
  /\ WF_vars(Reconnect) /\ WF_vars(PlatformRestart)

FairSpec == Spec /\ Fairness

\* SIGINT ends the program, from wherever it comes: no await of the clean-up
\* waits for something that has already been ended.
InterruptEnds == sigint # "none" ~> at = "exited"

\* A program that failed is started again while the platform has restarts left,
\* through every clean-up that SIGINT does not take over; so is one whose Telegram
\* connection is beyond repair, and one that no restart will help (a bad
\* configuration).  A supervisor's database error is not among these failures:
\* SignalSupervisor.run only logs it (trigger.py:324), against its own
\* comment at trigger.py:293-295.
FailureRestarts ==
  why \in Failures /\ restarts < MaxRestarts ~>
    at = "dbConnect" \/ sigint \in {"twice", "cut"}
=============================================================================
