------------------------------ MODULE MCCopier ------------------------------
(***************************************************************************)
(* Values of the constants of Copier for TLC.  Time is scaled: one unit    *)
(* stands for a minute and a half or so; what is kept is the order of the  *)
(* code's constants, tolerance < grace < expiration, stage window =        *)
(* expiration + grace, and a listener window wider than the tolerance.     *)
(***************************************************************************)
EXTENDS CopierProperties, CopierInvariant, TLC

CONSTANTS s1, s2, d1, k1, k2

MCAmount  == [initial |-> 2, gale1 |-> 4, gale2 |-> 8]
MCTrigger == (s1 :> 0) @@ (s2 :> 1)
MCDateOf  == (s1 :> d1) @@ (s2 :> d1)
MCTriggerSame == (s1 :> 0) @@ (s2 :> 0)
MCTriggerOne == s1 :> 1
MCDateOfOne  == s1 :> d1

SlotSymmetry == Permutations(Slots)
=============================================================================
