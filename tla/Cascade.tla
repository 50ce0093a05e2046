------------------------------ MODULE Cascade ------------------------------
(***************************************************************************)
(* The pure state machine of one signal (domain/state.py and               *)
(* domain/gale.py): a signal is fired once, and every losing stage is      *)
(* followed by the next, larger one, until a win, the loss of gale2, a     *)
(* missed time window or a broker error ends the cascade.                  *)
(*                                                                         *)
(* Everything here is an operator of (state, event, clock reading); the    *)
(* modules that EXTEND this one decide who calls it, and when.             *)
(***************************************************************************)
EXTENDS Integers

CONSTANTS
  Amount,      \* Amount[g]: the bet of stage g, in whole USD (config.py)
  Tolerance,   \* trigger_skew_tolerance_seconds
  Expiration,  \* expiration_seconds of the signals, and of the config
  GaleStep     \* the "5 * 60" that state.py adds from stage to stage

Stages == {"initial", "gale1", "gale2"}

ASSUME AmountAssumption == Amount \in [Stages -> Nat \ {0}]
ASSUME TimeAssumption ==
  Tolerance \in Nat /\ Expiration \in Nat \ {0} /\ GaleStep \in Nat \ {0}

\* "done_tie" is declared terminal by the code, which never constructs it.
PlacedStates == {"placed_initial", "placed_gale1", "placed_gale2"}
FinalStates  == {"done_win", "done_loss", "done_tie", "error"}
States       == {"pending"} \union PlacedStates \union FinalStates

Results == {"win", "loss", "tie", "timeout", "error"}
Losing  == {"loss", "tie", "timeout"}      \* FR-5.3: a tie or a timeout loses
Reasons == {"none", "signal_expired", "broker_unavailable", "daily_limit_hit"}

PlacedState(g) ==
  [initial |-> "placed_initial", gale1 |-> "placed_gale1",
   gale2   |-> "placed_gale2"][g]

\* Mutant of NextStage: a loss goes to the largest bet at once.
NextStageSkips(g) == "gale2"

NextStage(g) == IF g = "initial" THEN "gale1" ELSE "gale2"

\* How many expirations after the initial trigger a stage is due.
StageOffset(g) == [initial |-> 0, gale1 |-> 1, gale2 |-> 2][g]

(***************************************************************************)
(* SignalState.  The identity of the signal (id, pair, direction) is its   *)
(* owner's; the amount is a function of the stage (Bet below); the last    *)
(* result is never read back, so it is left out.  "cum" is the running     *)
(* profit and loss in cents.                                               *)
(***************************************************************************)
SignalState ==
  [state : States, stage : Stages \union {"none"}, trigger : Int,
   expires : Int, cum : Int, reason : Reasons]

FromSignal(trigger) ==
  [state |-> "pending", stage |-> "initial", trigger |-> trigger,
   expires |-> trigger + Expiration, cum |-> 0, reason |-> "none"]

\* amount_for_stage: the amounts are per stage, never increments.
AmountForStage(g) == Amount[g]

\* Profit of a stage in cents: a win pays 92% of the amount.
StagePnl(g, r) ==
  IF r = "win" THEN 92 * AmountForStage(g)
  ELSE IF r \in Losing THEN -(100 * AmountForStage(g)) ELSE 0

\* The time window of the current stage has passed at clock reading n.
WindowPassed(s, n) == n > s.trigger + Tolerance

NextTrigger(s) ==
  IF s.stage \in {"initial", "gale1"} THEN s.trigger + GaleStep ELSE s.trigger

ToPlaced(s, g, cumulative) ==
  [state |-> PlacedState(g), stage |-> g, trigger |-> s.trigger + GaleStep,
   expires |-> s.trigger + GaleStep + GaleStep, cum |-> cumulative,
   reason |-> "none"]

\* Mutant of ToTerminal: the result of the last stage is not added up.
ToTerminalStale(s, final, cumulative) ==
  [s EXCEPT !.state = final, !.stage = "none", !.reason = "none"]

ToTerminal(s, final, cumulative) ==
  [s EXCEPT !.state = final, !.stage = "none", !.cum = cumulative,
            !.reason = "none"]

ToError(s, why, cumulative) ==
  [s EXCEPT !.state = "error", !.stage = "none", !.cum = cumulative,
            !.reason = why]

AdvanceAfterResult(s, r, n) ==
  LET cumulative == s.cum + StagePnl(s.stage, r) IN
    CASE r = "win" -> ToTerminal(s, "done_win", cumulative)
      [] r = "error" -> ToError(s, "broker_unavailable", cumulative)
      [] r \in Losing /\ s.stage = "gale2" ->
           ToTerminal(s, "done_loss", cumulative)
      [] r \in Losing /\ s.stage # "gale2" /\ n > NextTrigger(s) + Tolerance ->
           ToError(s, "signal_expired", cumulative)
      [] OTHER -> ToPlaced(s, NextStage(s.stage), cumulative)

(***************************************************************************)
(* transition(): which events a state accepts, and the state it then       *)
(* moves to.  A rejected event leaves the caller with success = False.     *)
(***************************************************************************)
AcceptsFire(s)   == s.state = "pending"
AcceptsResult(s) == s.state \in PlacedStates

OnFire(s, n) ==
  IF WindowPassed(s, n) THEN ToError(s, "signal_expired", s.cum)
  ELSE [s EXCEPT !.state = "placed_initial", !.reason = "none"]

OnResult(s, r, n) == AdvanceAfterResult(s, r, n)
=============================================================================
