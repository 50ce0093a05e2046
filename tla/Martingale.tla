----------------------------- MODULE Martingale -----------------------------
(***************************************************************************)
(* What the copier promises about money (docs/PRD.md 4.5, the diagram of   *)
(* FR-5.1, and NFR-2), seen from the status column and the broker alone:   *)
(* a status only moves along the cascade, an order for a stage is sent at  *)
(* most once and only while the status already says so, and a gale order   *)
(* only after the order of the stage before it.  How many tasks, crashes,  *)
(* retries and deliveries there are is not visible here.                   *)
(***************************************************************************)
EXTENDS Naturals

CONSTANT Signal

VARIABLES
  status,  \* status[s]: "none" before the signal is known
  bets     \* bets[s][g]: orders executed for stage g of s

mvars == <<status, bets>>

Stage == {"initial", "gale1", "gale2"}

At == [initial |-> "placed_initial", gale1 |-> "placed_gale1",
       gale2   |-> "placed_gale2"]

\* The stage whose order must precede that of g.
Before == [gale1 |-> "initial", gale2 |-> "gale1"]

Start ==
  /\ status = [s \in Signal |-> "none"]
  /\ bets = [s \in Signal |-> [g \in Stage |-> 0]]

Move(s, from, to) ==
  /\ status[s] = from
  /\ status' = [status EXCEPT ![s] = to]
  /\ UNCHANGED bets

Accept(s) == Move(s, "none", "pending")

Commit(s) == Move(s, "pending", "placed_initial")

Escalate(s) ==
  \/ Move(s, "placed_initial", "placed_gale1")
  \/ Move(s, "placed_gale1", "placed_gale2")

\* A cascade is won at any stage, and lost at the last one only.
Finish(s) ==
  \/ Move(s, "pending", "error")
  \/ \E g \in Stage, to \in {"done_win", "error"} : Move(s, At[g], to)
  \/ Move(s, "placed_gale2", "done_loss")

BetOn(s, g) ==
  /\ status[s] = At[g]
  /\ bets[s][g] = 0
  /\ g \in DOMAIN Before => bets[s][Before[g]] = 1
  /\ bets' = [bets EXCEPT ![s][g] = 1]
  /\ UNCHANGED status

Play ==
  \E s \in Signal :
    \/ Accept(s) \/ Commit(s) \/ Escalate(s) \/ Finish(s)
    \/ \E g \in Stage : BetOn(s, g)

MSpec == Start /\ [][Play]_mvars
=============================================================================
