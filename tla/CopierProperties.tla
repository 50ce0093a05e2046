-------------------------- MODULE CopierProperties --------------------------
(***************************************************************************)
(* What is only checked of the running program: the liveness properties,   *)
(* and the statements of the repository that the program does not meet.    *)
(* The properties that are also proved stand in module Copier.             *)
(***************************************************************************)
EXTENDS Copier

-----------------------------------------------------------------------------
(* Liveness.  The event loop runs every task whose await has completed, the *)
(* database, the DMs and broker.place return, asyncio.wait_for fires, and  *)
(* time passes.  Telegram owes no message and the broker no result.        *)

Fairness ==
  /\ \A s \in Signals : WF_vars(Upsert(s)) /\ WF_vars(Put(s)) /\ WF_vars(TimeoutRow(s))
  /\ \A s \in Signals : WF_vars(\E k \in Slots : AdoptRow(s, k))
  /\ WF_vars(\E k \in Slots : Dequeue(k))
  /\ WF_vars(\E k \in Slots : TimeoutAdopt(k))
  /\ WF_vars(QueryActive) /\ WF_vars(TimeoutRead) /\ WF_vars(TimeoutWrite)
  /\ WF_vars(StartScheduler) /\ WF_vars(Boot) /\ WF_vars(Tick)
  /\ \A t \in Task : WF_vars(SupervisorStep(t))

FairSpec == Spec /\ Fairness

\* In a life of the process without crash, database error or broker exception,
\* every signal whose row was inserted reaches a final status, even if the
\* broker never answers.  (A row is never deleted, nor a final status
\* overwritten, so that this is a "leads to" for each signal.)
EverySignalEnds ==
  []<>(\A s \in Signals : signals[s] # "none" => signals[s] \in FinalStates)

\* And its user hears of the end: of the cascade, or of the rejection.
EverySignalToldEnd ==
  []<>(\A s \in Signals : signals[s] # "none" =>
         \E dm \in told[s] : dm.kind \in {"complete", "rejected"})

-----------------------------------------------------------------------------
(* Statements of the repository that the program does not meet.            *)

\* recovery.py:6-7: after a restart, the supervisor that adopts a placed_* row
\* "continues the cascade from where it left off".
CascadeResumes ==
  proc = "running" =>
    \A s \in ActiveSignals : \E k \in Slots : pc[<<s, k>>] # "free"

\* docs/PRD.md:583: a result timeout is "treated as LOSS for that stage; gale
\* cascade proceeds as normal".
TimeoutContinues ==
  \A t \in Task :
    pc[t] = "resultWrite" /\ bet[t].result = "timeout" /\ bet[t].stage # "gale2"
      => st[t].state = PlacedState(NextStage(bet[t].stage))

\* docs/PRD.md:219: at the daily trade limit "the tool stops accepting new
\* signals" - and so does not reject a cascade whose bets it has placed.
LimitRejectsOnlyNew ==
  \A s \in Signals : reason[s] = "daily_limit_hit" =>
    \A g \in Stages : trades[s][g] = 0
=============================================================================
