------------------------------- MODULE Brokers -------------------------------
(***************************************************************************)
(* Mt5Broker (broker/mt5.py) and DryRunBroker (broker/dry_run.py), as the  *)
(* supervisors call them.                                                  *)
(*                                                                         *)
(* The MT5 terminal is called through blocking functions, each in a thread *)
(* of the event loop's default pool: a send per place, a poll per interval *)
(* of wait_result, a close per close_position and the shutdown.  A job is  *)
(* queued, runs in one of the Workers threads, and leaves an answer that   *)
(* the event loop takes.  Cancelling a caller takes its job out of the     *)
(* queue, but does not stop a thread.  The lookup of a pair that connect   *)
(* did not cache is no job: it blocks the event loop itself.               *)
(***************************************************************************)
EXTENDS Naturals, FiniteSets

CONSTANTS
  Bets,      \* the stages that are bet on
  Workers,   \* threads of the pool
  Cached,    \* the bets whose pair is in _symbol_cache
  Hung,      \* the bets whose polls the terminal may leave unanswered for ever
  Closable,  \* the bets that close_position may be called for
  Profits    \* the profits that a position may be closed with

ASSUME BrokersAssumption ==
  /\ Workers \in Nat \ {0}
  /\ Cached \subseteq Bets /\ Hung \subseteq Bets /\ Closable \subseteq Bets
  /\ Profits \subseteq {"win", "loss", "tie"}

VARIABLES
  dryRun,    \* which broker was built
  link,      \* whether _mt5 is set
  call,      \* call[b]: the await, or the outcome, of the supervisor of b
  job,       \* job[j]: "none", "queued", "running" or the answer of job j
  orders,    \* orders[b]: the orders executed for b
  position,  \* position[b]: b's position at the MT5 server
  profit,    \* profit[b]: the sign of its profit, once closed
  known      \* known[b]: the sign of _last_known_profit, "tie" by default

vars == <<dryRun, link, call, job, orders, position, profit, known>>

Signs == {"win", "loss", "tie"}
Results == Signs \union {"timeout", "error"}

Send(b) == <<"send", b>>
Poll(b) == <<"poll", b>>
Close(b) == <<"close", b>>
Shutdown == <<"shutdown", "all">>
Jobs == ({"send", "poll", "close"} \X Bets) \union {Shutdown}

SendAnswers == {"done", "reject", "failed"}
PollAnswers == {"open", "empty", "failed"}

\* Mutant of LoopFree: polls are made in the thread of the event loop, too.
LoopFreeBlocking ==
  \A b \in Bets : call[b] # "lookup" /\ job[Poll(b)] # "running"

\* Synchronous lookups hold the only thread of the event loop.
LoopFree == \A b \in Bets : call[b] # "lookup"

Calls == {"idle", "lookup", "placing", "traded", "refused", "failed", "waiting", "gone"}
           \union Results

TypeOK ==
  /\ dryRun \in BOOLEAN
  /\ link \in {"up", "closed"}
  /\ call \in [Bets -> Calls]
  /\ job \in [Jobs -> {"none", "queued", "running"} \union SendAnswers \union PollAnswers]
  /\ orders \in [Bets -> 0..1]
  /\ position \in [Bets -> {"none", "open", "closed"}]
  /\ profit \in [Bets -> Signs]
  /\ known \in [Bets -> Signs]

Init ==
  /\ dryRun \in BOOLEAN
  /\ link = "up"
  /\ call = [b \in Bets |-> "idle"]
  /\ job = [j \in Jobs |-> "none"]
  /\ orders = [b \in Bets |-> 0]
  /\ position = [b \in Bets |-> "none"]
  /\ profit = [b \in Bets |-> "tie"]
  /\ known = [b \in Bets |-> "tie"]

server == <<orders, position, profit>>

Become(b, answer) == call' = [call EXCEPT ![b] = answer]
Set(j, status) == job' = [job EXCEPT ![j] = status]

-----------------------------------------------------------------------------
(* The pool and the terminal.                                              *)

Running == {j \in Jobs : job[j] = "running"}

StartJob(j) ==
  /\ job[j] = "queued"
  /\ Cardinality(Running) < Workers
  /\ Set(j, "running")
  /\ UNCHANGED <<dryRun, link, call, server, known>>

\* The server executes the order.
Execute(b) ==
  /\ job[Send(b)] = "running"
  /\ orders[b] = 0
  /\ orders' = [orders EXCEPT ![b] = 1]
  /\ position' = [position EXCEPT ![b] = "open"]
  /\ UNCHANGED <<dryRun, link, call, job, profit, known>>

\* order_send returns.  10009 means executed, 10006 rejected; anything else (no
\* result, another code, no order id, a broken connection) leaves it open.  An
\* answer that nobody awaits is dropped.
SendEnds(b) ==
  /\ job[Send(b)] = "running"
  /\ \E answer \in SendAnswers :
       /\ answer = "done" => orders[b] = 1
       /\ answer = "reject" => orders[b] = 0
       /\ Set(Send(b), IF call[b] = "placing" THEN answer ELSE "none")
  /\ UNCHANGED <<dryRun, link, call, server, known>>

\* positions_get returns the position or nothing; nothing is also what a failed
\* call returns.
PollEnds(b) ==
  /\ job[Poll(b)] = "running"
  /\ \E answer \in PollAnswers :
       /\ answer = "open" => position[b] = "open"
       /\ Set(Poll(b), IF call[b] = "waiting" THEN answer ELSE "none")
  /\ UNCHANGED <<dryRun, link, call, server, known>>

\* The option expires, or the position is closed by hand.
ServerCloses(b) ==
  /\ position[b] = "open"
  /\ position' = [position EXCEPT ![b] = "closed"]
  /\ \E r \in Profits : profit' = [profit EXCEPT ![b] = r]
  /\ UNCHANGED <<dryRun, link, call, job, orders, known>>

-----------------------------------------------------------------------------
(* Mt5Broker.place.                                                        *)

PlaceUnconnected(b) ==
  /\ link = "closed"
  /\ Become(b, "failed")
  /\ UNCHANGED job

PlaceCached(b) ==
  /\ link = "up"
  /\ b \in Cached
  /\ Become(b, "placing")
  /\ Set(Send(b), "queued")

\* _resolve_symbol_name is called from the coroutine itself.
PlaceUncached(b) ==
  /\ link = "up"
  /\ b \notin Cached
  /\ Become(b, "lookup")
  /\ UNCHANGED job

Place(b) ==
  /\ ~dryRun
  /\ LoopFree
  /\ call[b] = "idle"
  /\ PlaceUnconnected(b) \/ PlaceCached(b) \/ PlaceUncached(b)
  /\ UNCHANGED <<dryRun, link, server, known>>

LookupEnds(b) ==
  /\ call[b] = "lookup"
  /\ \/ Become(b, "placing") /\ Set(Send(b), "queued")
     \/ Become(b, "refused") /\ UNCHANGED job
     \/ Become(b, "failed") /\ UNCHANGED job
  /\ UNCHANGED <<dryRun, link, server, known>>

\* Mutant of Verdict: the answer is handed on as it is.
VerdictRaw(answer) == answer

\* Mutant of Verdict: every code but REJECT counts as executed.
VerdictLoose(answer) == IF answer = "reject" THEN "refused" ELSE "traded"

\* What place makes of the answer of order_send.
Verdict(answer) ==
  [done |-> "traded", reject |-> "refused", failed |-> "failed"][answer]

PlaceReturns(b) ==
  /\ LoopFree
  /\ call[b] = "placing"
  /\ job[Send(b)] \in SendAnswers
  /\ Become(b, Verdict(job[Send(b)]))
  /\ Set(Send(b), "none")
  /\ known' = [known EXCEPT ![b] = IF job[Send(b)] = "done" THEN "tie" ELSE @]
  /\ UNCHANGED <<dryRun, link, server>>

-----------------------------------------------------------------------------
(* Mt5Broker.wait_result.                                                  *)

\* The call, each poll after the first comes after a sleep.  Without a
\* connection it raises, which the supervisor counts as "error".
Wait(b) ==
  /\ ~dryRun
  /\ LoopFree
  /\ \/ call[b] = "traded"
     \/ call[b] = "waiting" /\ job[Poll(b)] = "none"
  /\ \/ link = "up" /\ Become(b, "waiting") /\ Set(Poll(b), "queued")
     \/ link = "closed" /\ Become(b, "error") /\ UNCHANGED job
  /\ UNCHANGED <<dryRun, link, server, known>>

\* No position: the trade is over, and its result is the last known profit.
PollReturns(b) ==
  /\ LoopFree
  /\ call[b] = "waiting"
  /\ job[Poll(b)] \in PollAnswers
  /\ Set(Poll(b), "none")
  /\ Become(b, CASE job[Poll(b)] = "open"   -> "waiting"
                 [] job[Poll(b)] = "empty"  -> known[b]
                 [] job[Poll(b)] = "failed" -> "error")
  /\ UNCHANGED <<dryRun, link, server, known>>

\* A cancelled call takes its job along, unless a thread has begun it.
Leaves(j) == Set(j, IF job[j] = "running" THEN "running" ELSE "none")

TimesOut(b) ==
  /\ ~dryRun
  /\ LoopFree
  /\ call[b] = "waiting"
  /\ Become(b, "timeout")
  /\ Leaves(Poll(b))
  /\ UNCHANGED <<dryRun, link, server, known>>

-----------------------------------------------------------------------------
(* The end of a supervisor, close_position, and Mt5Broker.close.           *)

\* Mutant of Abandon: the job is shielded from the cancellation.
AbandonShielded(b) ==
  /\ LoopFree
  /\ call[b] \in {"placing", "traded", "waiting"}
  /\ Become(b, "gone")
  /\ UNCHANGED <<dryRun, link, job, server, known>>

Abandon(b) ==
  /\ LoopFree
  /\ call[b] \in {"placing", "traded", "waiting"}
  /\ Become(b, "gone")
  /\ Leaves(IF call[b] = "placing" THEN Send(b) ELSE Poll(b))
  /\ UNCHANGED <<dryRun, link, server, known>>

\* No caller in the repository.
ClosePosition(b) ==
  /\ ~dryRun
  /\ LoopFree
  /\ link = "up"
  /\ b \in Closable
  /\ call[b] \in {"traded", "waiting"}
  /\ job[Close(b)] = "none"
  /\ Set(Close(b), "queued")
  /\ UNCHANGED <<dryRun, link, call, server, known>>

\* The profit is read first, and kept even when the closing order fails.
CloseEnds(b) ==
  /\ job[Close(b)] = "running"
  /\ Set(Close(b), "none")
  /\ \/ UNCHANGED <<position, profit, known>>
     \/ /\ position[b] = "open"
        /\ \E r \in Profits :
             /\ known' = [known EXCEPT ![b] = r]
             /\ \/ UNCHANGED <<position, profit>>
                \/ /\ position' = [position EXCEPT ![b] = "closed"]
                   /\ profit' = [profit EXCEPT ![b] = r]
  /\ UNCHANGED <<dryRun, link, call, orders>>

\* close: the shutdown is one more job; once it returned or raised, _mt5 is None.
CloseBroker ==
  /\ ~dryRun
  /\ LoopFree
  /\ link = "up"
  /\ job[Shutdown] = "none"
  /\ Set(Shutdown, "queued")
  /\ UNCHANGED <<dryRun, link, call, server, known>>

ShutdownEnds ==
  /\ LoopFree
  /\ job[Shutdown] = "running"
  /\ Set(Shutdown, "none")
  /\ link' = "closed"
  /\ UNCHANGED <<dryRun, call, server, known>>

-----------------------------------------------------------------------------
(* DryRunBroker: place never waits, and wait_result awaits only the        *)
(* outcome provider.                                                       *)

DryPlace(b) ==
  /\ dryRun
  /\ call[b] = "idle"
  /\ Become(b, "traded")
  /\ orders' = [orders EXCEPT ![b] = 1]
  /\ UNCHANGED <<dryRun, link, job, position, profit, known>>

\* The entry of _placed is popped before the outcome is awaited.
DryWait(b) ==
  /\ dryRun
  /\ call[b] = "traded"
  /\ Become(b, "waiting")
  /\ UNCHANGED <<dryRun, link, job, server, known>>

DryAnswer(b) ==
  /\ dryRun
  /\ call[b] = "waiting"
  /\ \E r \in Results : Become(b, r)
  /\ UNCHANGED <<dryRun, link, job, server, known>>

-----------------------------------------------------------------------------

Next ==
  \/ \E j \in Jobs : StartJob(j)
  \/ \E b \in Bets :
       \/ Execute(b) \/ SendEnds(b) \/ PollEnds(b) \/ ServerCloses(b)
       \/ Place(b) \/ LookupEnds(b) \/ PlaceReturns(b)
       \/ Wait(b) \/ PollReturns(b) \/ TimesOut(b) \/ Abandon(b)
       \/ ClosePosition(b) \/ CloseEnds(b)
       \/ DryPlace(b) \/ DryWait(b) \/ DryAnswer(b)
  \/ CloseBroker \/ ShutdownEnds

Spec == Init /\ [][Next]_vars

-----------------------------------------------------------------------------
(* Safety.                                                                 *)

\* An order that waits for a thread is awaited: the order of a supervisor that
\* has ended goes out only if a thread had it in hand.
QueuedSendsAwaited ==
  \A b \in Bets : job[Send(b)] = "queued" => call[b] = "placing"

\* Both brokers do what base.py promises.
Contract == INSTANCE BrokerContract WITH
  call <- [b \in Bets |-> IF call[b] = "lookup" THEN "placing" ELSE call[b]]
ImplementsContract == Contract!BCSpec

\* docs/superpowers/specs/2026-07-01-m13-2-mt5-broker-impl-design.md:18:
\* wait_result answers "from the position's last-known profit field" - a
\* supervisor that hears win, loss or tie hears how its position was closed.
ResultIsProfit ==
  \A b \in Bets : ~dryRun /\ call[b] \in Signs =>
    position[b] = "closed" /\ profit[b] = call[b]

-----------------------------------------------------------------------------
(* Liveness.  The pool takes its jobs in order, so no order waits for ever *)
(* while threads become free (strong fairness); the terminal answers all   *)
(* calls but the polls of Hung; the event loop takes every answer, and     *)
(* asyncio.wait_for fires.                                                 *)

Fairness ==
  /\ \A b \in Bets : SF_vars(StartJob(Send(b)))
  /\ \A b \in Bets : WF_vars(LookupEnds(b)) /\ WF_vars(SendEnds(b))
  /\ \A b \in Bets \ Hung : WF_vars(PollEnds(b))
  /\ \A b \in Bets : WF_vars(CloseEnds(b)) /\ WF_vars(PlaceReturns(b))
  /\ \A b \in Bets : WF_vars(TimesOut(b)) /\ WF_vars(DryAnswer(b))
  /\ WF_vars(ShutdownEnds)

FairSpec == Spec /\ Fairness

\* Every place and every wait_result returns, as long as the polls that hang do
\* not hold all the threads: place has no timeout of its own, but one thread
\* that is never lost is enough for it.
CallsReturn ==
  \A b \in Bets :
    call[b] \in {"lookup", "placing", "waiting"}
      ~> call[b] \notin {"lookup", "placing", "waiting"}
=============================================================================
