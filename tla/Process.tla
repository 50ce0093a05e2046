------------------------------- MODULE Process -------------------------------
(***************************************************************************)
(* The life of the process as the cascades see it: when supervisors may    *)
(* come, and that none outlives it.  The copier and the life cycle of      *)
(* __main__.py both implement it, so that what each leaves out of the      *)
(* other fits together.                                                    *)
(***************************************************************************)
EXTENDS Naturals

VARIABLES
  phase,  \* "down", "boot", "recovering", "running" or "stopping"
  live    \* the number of supervisors alive
pvars == <<phase, live>>

Up == phase = "boot" /\ live = 0

Turn(from, to) == phase \in from /\ phase' = to /\ UNCHANGED live

Recover == Turn({"boot"}, "recovering")
Serve   == Turn({"recovering"}, "running")
Stop    == Turn({"boot", "recovering", "running"}, "stopping")
Restart == Turn({"down"}, "boot")

\* Recovery adopts, and the scheduler takes signals from its queue.
Arrive == phase \in {"recovering", "running"} /\ live' = live + 1 /\ UNCHANGED phase

Leave == live > 0 /\ live' = live - 1 /\ UNCHANGED phase

\* The end, orderly or not, takes every supervisor along.
Die == phase # "down" /\ phase' = "down" /\ live' = 0

Live == Recover \/ Serve \/ Stop \/ Restart \/ Arrive \/ Leave \/ Die

PSpec == Up /\ [][Live]_pvars
=============================================================================
