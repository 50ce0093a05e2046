--------------------------- MODULE BrokerContract ---------------------------
(***************************************************************************)
(* What broker/base.py promises the supervisors, whichever broker runs:    *)
(* one call of place and one of wait_result per bet.  A bet is one stage   *)
(* of one signal.                                                          *)
(***************************************************************************)
EXTENDS Naturals

CONSTANT Bets

\* call[b]: where the supervisor of b is with the broker; orders[b]: the orders
\* executed for b.
VARIABLES call, orders
bcvars == <<call, orders>>

BrokerResults == {"win", "loss", "tie", "timeout", "error"}

\* The call is over, with an answer or without.
Over == {"refused", "failed", "gone"} \union BrokerResults

Become(b, answer) == call' = [call EXCEPT ![b] = answer]
Order(b) == orders[b] = 0 /\ orders' = [orders EXCEPT ![b] = 1]

Start == call = [b \in Bets |-> "idle"] /\ orders = [b \in Bets |-> 0]

Place(b) == call[b] = "idle" /\ Become(b, "placing") /\ UNCHANGED orders

\* A broker without a server deals at once.
Deal(b) == call[b] = "idle" /\ Become(b, "traded") /\ Order(b)

\* The order is executed while the call lasts, or after its caller left.
Execute(b) == call[b] \in {"placing", "gone"} /\ Order(b) /\ UNCHANGED call

\* place returns a trade_id only for an order that was executed, and raises
\* UnsupportedPairError only for one that was not.  Any other exception says
\* nothing about the order.
Return(b) ==
  /\ call[b] \in {"idle", "placing"}
  /\ \/ orders[b] = 1 /\ Become(b, "traded")
     \/ orders[b] = 0 /\ Become(b, "refused")
     \/ Become(b, "failed")
  /\ UNCHANGED orders

\* wait_result is called with a trade_id, and answers once.
Wait(b) == call[b] = "traded" /\ Become(b, "waiting") /\ UNCHANGED orders

Answer(b) ==
  /\ call[b] \in {"traded", "waiting"}
  /\ \E r \in BrokerResults : Become(b, r)
  /\ UNCHANGED orders

\* The supervisor is cancelled, or ends for a reason of its own.
Abandon(b) ==
  call[b] \in {"placing", "traded", "waiting"} /\ Become(b, "gone") /\ UNCHANGED orders

Serve == \E b \in Bets :
  Place(b) \/ Deal(b) \/ Execute(b) \/ Return(b) \/ Wait(b) \/ Answer(b) \/ Abandon(b)

BCSpec == Start /\ [][Serve]_bcvars
=============================================================================
