------------------------- MODULE CopierAccountProofs -------------------------
(***************************************************************************)
(* Proofs about the money.  First, what a sum over a finite set is.  Then, *)
(* that the total the user is told at the end of a cascade is the sum of   *)
(* the recorded rows of the signal; that it is a total which a martingale  *)
(* with the configured amounts can come to; and that no signal costs more  *)
(* than its three stakes.  Last, that without crashes and database errors  *)
(* the daily summary is exactly the closed rows of the day.                *)
(*                                                                         *)
(* The provers cannot instantiate an induction principle; an induction     *)
(* over finite sets is the minimal member of a set of counterexamples.     *)
(***************************************************************************)
EXTENDS CopierRecordProofs, CopierRunProofs, CopierStepProofs

-----------------------------------------------------------------------------
(* Sums over finite sets.                                                  *)

\* A set of subsets of a finite set has a minimal member.
LEMMA SmallestSubset ==
  ASSUME NEW S, IsFiniteSet(S), NEW B \in SUBSET (SUBSET S), B # {}
  PROVE  \E T \in B : \A U \in SUBSET T : U # T => U \notin B
<1>1. IsWellFoundedOn(StrictSubsetOrdering(S), SUBSET S)
  BY FS_FiniteSubsetsOfFinite, FS_StrictSubsetOrderingWellFounded
<1>2. PICK T \in B : \A U \in B : ~ (<<U, T>> \in StrictSubsetOrdering(S))
  BY <1>1, WFMin
<1> QED
  BY <1>2 DEF StrictSubsetOrdering

\* The element that the sum takes first.
Pick(T) == CHOOSE x \in T : TRUE

\* It is one of them.
LEMMA PickIn == ASSUME NEW T, T # {} PROVE Pick(T) \in T
BY DEF Pick

\* g sums f over every subset of S, in the order of Pick.
SumsOver(g, f, S) ==
  g = [T \in SUBSET S |-> IF T = {} THEN 0 ELSE f[Pick(T)] + g[T \ {Pick(T)}]]

\* The sum of the library is the value of the function so defined.
LEMMA SumIsChosen ==
  ASSUME NEW f, NEW S
  PROVE  SumFunctionOnSet(f, S) = (CHOOSE g : SumsOver(g, f, S))[S]
BY DEF SumFunctionOnSet, FoldFunctionOnSet, MapThenFoldSet, SumsOver, Pick

\* Two such functions agree where both are defined.
LEMMA SumsAgree ==
  ASSUME NEW f, NEW S, NEW R, NEW g, NEW h, SumsOver(g, f, S), SumsOver(h, f, R),
         NEW T, T \subseteq S, T \subseteq R, IsFiniteSet(T)
  PROVE  g[T] = h[T]
<1> DEFINE B == {U \in SUBSET T : g[U] # h[U]}
<1> SUFFICES ASSUME B # {} PROVE FALSE
  OBVIOUS
<1>1. PICK U \in B : \A V \in SUBSET U : V # U => V \notin B
  <2> HIDE DEF B
  <2>1. B \in SUBSET (SUBSET T)
    BY DEF B
  <2> QED
    BY <2>1, SmallestSubset
<1>2. U \in SUBSET S /\ U \in SUBSET R /\ U \in SUBSET T
  OBVIOUS
<1>3. g[U] = (IF U = {} THEN 0 ELSE f[Pick(U)] + g[U \ {Pick(U)}])
  BY <1>2 DEF SumsOver
<1>4. h[U] = (IF U = {} THEN 0 ELSE f[Pick(U)] + h[U \ {Pick(U)}])
  BY <1>2 DEF SumsOver
<1>5. CASE U = {}
  BY <1>3, <1>4, <1>5
<1>6. CASE U # {}
  <2>1. U \ {Pick(U)} # U
    BY <1>6, PickIn
  <2>2. U \ {Pick(U)} \in SUBSET T
    BY <1>2
  <2>3. g[U \ {Pick(U)}] = h[U \ {Pick(U)}]
    BY <1>1, <2>1, <2>2
  <2> QED
    BY <1>3, <1>4, <1>6, <2>3
<1> QED
  BY <1>5, <1>6

\* There is one for every finite set.
LEMMA SumsExist ==
  ASSUME NEW f, NEW S, IsFiniteSet(S)
  PROVE  \E g : SumsOver(g, f, S)
<1> DEFINE B == {T \in SUBSET S : ~ \E g : SumsOver(g, f, T)}
<1> SUFFICES ASSUME B # {} PROVE FALSE
  OBVIOUS
<1>1. PICK M \in B : \A U \in SUBSET M : U # M => U \notin B
  <2> HIDE DEF B
  <2>1. B \in SUBSET (SUBSET S)
    BY DEF B
  <2> QED
    BY <2>1, SmallestSubset
<1> DEFINE Sum(T) == (CHOOSE g : SumsOver(g, f, T))[T]
           g == [T \in SUBSET M |-> IF T = {} THEN 0 ELSE f[Pick(T)] + Sum(T \ {Pick(T)})]
<1>2. ASSUME NEW U \in SUBSET M, U # M PROVE SumsOver(CHOOSE h : SumsOver(h, f, U), f, U)
  <2>1. \E h : SumsOver(h, f, U)
    BY <1>1, <1>2
  <2> QED
    BY <2>1
<1>3. ASSUME NEW U \in SUBSET M, U # M PROVE g[U] = Sum(U)
  <2> DEFINE h == CHOOSE h : SumsOver(h, f, U)
  <2>1. SumsOver(h, f, U)
    BY <1>2, <1>3
  <2> HIDE DEF h
  <2>2. h[U] = (IF U = {} THEN 0 ELSE f[Pick(U)] + h[U \ {Pick(U)}])
    BY <2>1 DEF SumsOver
  <2>3. CASE U = {}
    BY <2>2, <2>3 DEF h
  <2>4. CASE U # {}
    <3> DEFINE V == U \ {Pick(U)}
    <3>1. V \in SUBSET M /\ V # M /\ V \in SUBSET U /\ IsFiniteSet(V)
      BY <2>4, PickIn, FS_Subset
    <3>2. SumsOver(CHOOSE k : SumsOver(k, f, V), f, V)
      BY <1>2, <3>1
    <3>3. h[V] = Sum(V)
      <4> DEFINE k == CHOOSE k : SumsOver(k, f, V)
      <4> HIDE DEF V
      <4>1. SumsOver(k, f, V)
        BY <3>2
      <4>2. Sum(V) = k[V]
        OBVIOUS
      <4> HIDE DEF k, Sum
      <4> QED
        BY <2>1, <3>1, <4>1, <4>2, SumsAgree
    <3> QED
      BY <2>2, <2>4, <3>3 DEF h
  <2> QED
    BY <2>3, <2>4
<1>4. SumsOver(g, f, M)
  <2>1. ASSUME NEW T \in SUBSET M, T # {}
        PROVE  Sum(T \ {Pick(T)}) = g[T \ {Pick(T)}]
    BY <1>3, <2>1, PickIn
  <2> HIDE DEF Sum
  <2>2. g = [T \in SUBSET M |-> IF T = {} THEN 0 ELSE f[Pick(T)] + g[T \ {Pick(T)}]]
    BY <2>1
  <2> QED
    BY <2>2 DEF SumsOver
<1> QED
  BY <1>4

\* The equation of the sum.
LEMMA SumEquation ==
  ASSUME NEW f, NEW S, IsFiniteSet(S)
  PROVE  SumFunctionOnSet(f, S) =
           (IF S = {} THEN 0 ELSE f[Pick(S)] + SumFunctionOnSet(f, S \ {Pick(S)}))
<1> DEFINE Fn(T) == CHOOSE g : SumsOver(g, f, T)
<1>1. ASSUME NEW T, IsFiniteSet(T) PROVE SumsOver(Fn(T), f, T)
  <2>1. \E g : SumsOver(g, f, T)
    BY <1>1, SumsExist
  <2> QED
    BY <2>1
<1>2. \A T : SumFunctionOnSet(f, T) = Fn(T)[T]
  BY SumIsChosen
<1> HIDE DEF Fn
<1>3. Fn(S)[S] = (IF S = {} THEN 0 ELSE f[Pick(S)] + Fn(S)[S \ {Pick(S)}])
  BY <1>1 DEF SumsOver
<1>4. IsFiniteSet(S \ {Pick(S)})
  BY FS_Subset
<1>5. Fn(S)[S \ {Pick(S)}] = Fn(S \ {Pick(S)})[S \ {Pick(S)}]
  BY <1>1, <1>4, SumsAgree
<1> QED
  BY <1>2, <1>3, <1>5

\* A sum of integers is an integer.
LEMMA SumType ==
  ASSUME NEW f, NEW S, IsFiniteSet(S), \A x \in S : f[x] \in Int
  PROVE  SumFunctionOnSet(f, S) \in Int
<1> DEFINE B == {T \in SUBSET S : SumFunctionOnSet(f, T) \notin Int}
<1> SUFFICES ASSUME B # {} PROVE FALSE
  OBVIOUS
<1>1. PICK M \in B : \A U \in SUBSET M : U # M => U \notin B
  <2>1. B \in SUBSET (SUBSET S)
    OBVIOUS
  <2> HIDE DEF B
  <2> QED
    BY <2>1, SmallestSubset
<1>2. IsFiniteSet(M)
  BY FS_Subset
<1>3. CASE M = {}
  <2>1. SumFunctionOnSet(f, M) = 0
    BY <1>2, <1>3, SumEquation
  <2> QED
    BY <2>1
<1>4. CASE M # {}
  <2>1. Pick(M) \in M /\ M \ {Pick(M)} \in SUBSET M /\ M \ {Pick(M)} # M
    BY <1>4, PickIn
  <2>2. SumFunctionOnSet(f, M \ {Pick(M)}) \in Int
    BY <1>1, <2>1
  <2>3. SumFunctionOnSet(f, M) = f[Pick(M)] + SumFunctionOnSet(f, M \ {Pick(M)})
    BY <1>2, <1>4, SumEquation
  <2>4. f[Pick(M)] \in Int
    BY <2>1
  <2>5. SumFunctionOnSet(f, M) \in Int
    BY <2>2, <2>3, <2>4
  <2> QED
    BY <2>5
<1> QED
  BY <1>3, <1>4

\* Any element may be taken out first.
LEMMA SumRemove ==
  ASSUME NEW f, NEW S, IsFiniteSet(S), \A x \in S : f[x] \in Int, NEW e \in S
  PROVE  SumFunctionOnSet(f, S) = f[e] + SumFunctionOnSet(f, S \ {e})
<1> DEFINE Sum(T) == SumFunctionOnSet(f, T)
           B == {T \in SUBSET S : \E x \in T : Sum(T) # f[x] + Sum(T \ {x})}
<1> SUFFICES ASSUME B # {} PROVE FALSE
  OBVIOUS
<1>1. PICK M \in B : \A U \in SUBSET M : U # M => U \notin B
  <2>1. B \in SUBSET (SUBSET S)
    OBVIOUS
  <2> HIDE DEF B
  <2> QED
    BY <2>1, SmallestSubset
<1>2. PICK x \in M : Sum(M) # f[x] + Sum(M \ {x})
  OBVIOUS
<1>3. \A T \in SUBSET S : IsFiniteSet(T) /\ Sum(T) \in Int
  BY FS_Subset, SumType
<1> DEFINE p == Pick(M)
           R == M \ {p}
           Q == M \ {x}
<1>4. M \in SUBSET S /\ p \in M
  BY PickIn
<1>5. Sum(M) = f[p] + Sum(R)
  BY <1>3, <1>4, SumEquation
<1>6. p # x
  BY <1>2, <1>5
<1>7. R \in SUBSET M /\ R # M /\ x \in R /\ Q \in SUBSET M /\ Q # M /\ p \in Q
  BY <1>4, <1>6
<1>8. Sum(R) = f[x] + Sum(R \ {x})
  BY <1>1, <1>4, <1>7
<1>9. Sum(Q) = f[p] + Sum(Q \ {p})
  BY <1>1, <1>4, <1>7
<1>10. R \ {x} = Q \ {p} /\ R \ {x} \in SUBSET S
  BY <1>4
<1>11. f[p] \in Int /\ f[x] \in Int /\ Sum(R \ {x}) \in Int
  BY <1>3, <1>4, <1>10
<1> HIDE DEF Sum, p, R, Q
<1>12. Sum(M) = f[x] + (f[p] + Sum(R \ {x}))
  BY <1>5, <1>8, <1>11
<1>13. f[x] + Sum(Q) = f[x] + (f[p] + Sum(R \ {x}))
  BY <1>9, <1>10
<1> QED
  BY <1>2, <1>12, <1>13 DEF Q

\* A sum depends on the values at its elements only.
LEMMA SumSame ==
  ASSUME NEW f, NEW g, NEW S, IsFiniteSet(S), \A x \in S : f[x] = g[x]
  PROVE  SumFunctionOnSet(f, S) = SumFunctionOnSet(g, S)
<1> DEFINE B == {T \in SUBSET S : SumFunctionOnSet(f, T) # SumFunctionOnSet(g, T)}
<1> SUFFICES ASSUME B # {} PROVE FALSE
  OBVIOUS
<1>1. PICK M \in B : \A U \in SUBSET M : U # M => U \notin B
  <2>1. B \in SUBSET (SUBSET S)
    OBVIOUS
  <2> HIDE DEF B
  <2> QED
    BY <2>1, SmallestSubset
<1>2. IsFiniteSet(M)
  BY FS_Subset
<1>3. CASE M = {}
  BY <1>2, <1>3, SumEquation
<1>4. CASE M # {}
  <2> DEFINE R == M \ {Pick(M)}
  <2>1. Pick(M) \in M /\ R \in SUBSET M /\ R # M
    BY <1>4, PickIn
  <2>2. SumFunctionOnSet(f, R) = SumFunctionOnSet(g, R) /\ f[Pick(M)] = g[Pick(M)]
    BY <1>1, <2>1
  <2>3. /\ SumFunctionOnSet(f, M) = f[Pick(M)] + SumFunctionOnSet(f, R)
        /\ SumFunctionOnSet(g, M) = g[Pick(M)] + SumFunctionOnSet(g, R)
    BY <1>2, <1>4, SumEquation
  <2> QED
    BY <2>2, <2>3
<1> QED
  BY <1>3, <1>4

\* The sum of a function with one more value.
LEMMA SumAdd ==
  ASSUME NEW f, NEW g, NEW e, IsFiniteSet(DOMAIN f), e \notin DOMAIN f,
         DOMAIN g = DOMAIN f \union {e}, \A x \in DOMAIN f : g[x] = f[x],
         \A x \in DOMAIN g : g[x] \in Int
  PROVE  SumFunction(g) = SumFunction(f) + g[e]
<1> DEFINE S == DOMAIN f
           R == DOMAIN g
<1>1. IsFiniteSet(R)
  BY FS_AddElement
<1>2. SumFunctionOnSet(g, R) = g[e] + SumFunctionOnSet(g, R \ {e})
  BY <1>1, SumRemove
<1>3. R \ {e} = S
  OBVIOUS
<1>4. SumFunctionOnSet(g, S) = SumFunctionOnSet(f, S)
  BY SumSame
<1>5. SumFunctionOnSet(f, S) \in Int /\ g[e] \in Int
  BY SumType
<1> QED
  BY <1>2, <1>3, <1>4, <1>5 DEF SumFunction

\* The empty sum.
LEMMA SumEmpty == ASSUME NEW f, DOMAIN f = {} PROVE SumFunction(f) = 0
BY SumEquation, FS_EmptySet DEF SumFunction

-----------------------------------------------------------------------------
(* Profit and loss of stage rows.                                          *)

\* What a row counts for.
LEMMA RowPnlType ==
  ASSUME NEW row \in StageRow
  PROVE  RowPnl(row) \in Int /\ (row.result = "open" => RowPnl(row) = 0)
<1>1. row.stage \in Stages /\ row.result \in Results \union {"open"}
  BY DEF StageRow
<1>2. CASE row.result = "open"
  BY <1>2 DEF RowPnl, StagePnl, Losing
<1>3. CASE row.result # "open"
  BY <1>1, <1>3, StagePnlType DEF RowPnl
<1> QED
  BY <1>2, <1>3

\* A set of rows with one more row.
LEMMA RowsPnlAdd ==
  ASSUME NEW rows \in SUBSET StageRow, IsFiniteSet(rows), NEW row \in StageRow, row \notin rows
  PROVE  RowsPnl(rows \union {row}) = RowsPnl(rows) + RowPnl(row)
<1> DEFINE f == [r \in rows |-> RowPnl(r)]
           g == [r \in rows \union {row} |-> RowPnl(r)]
<1>1. \A r \in rows \union {row} : RowPnl(r) \in Int
  BY RowPnlType
<1>2. DOMAIN f = rows /\ DOMAIN g = DOMAIN f \union {row} /\ g[row] = RowPnl(row)
  OBVIOUS
<1>3. (\A r \in DOMAIN f : g[r] = f[r]) /\ \A r \in DOMAIN g : g[r] \in Int
  BY <1>1
<1> HIDE DEF f, g
<1>4. SumFunction(g) = SumFunction(f) + g[row]
  BY <1>2, <1>3, SumAdd
<1> QED
  BY <1>2, <1>4 DEF RowsPnl, f, g

\* It is a number of cents.
LEMMA RowsPnlType ==
  ASSUME NEW rows \in SUBSET StageRow, IsFiniteSet(rows) PROVE RowsPnl(rows) \in Int
<1> DEFINE f == [r \in rows |-> RowPnl(r)]
<1>1. DOMAIN f = rows /\ \A r \in rows : f[r] \in Int
  BY RowPnlType
<1> HIDE DEF f
<1>2. SumFunction(f) \in Int
  BY <1>1, SumType DEF SumFunction
<1> QED
  BY <1>2 DEF RowsPnl, f

\* No rows, no money.
LEMMA RowsPnlEmpty == RowsPnl({}) = 0
<1> DEFINE f == [r \in {} |-> RowPnl(r)]
<1>1. DOMAIN f = {}
  OBVIOUS
<1> HIDE DEF f
<1>2. SumFunction(f) = 0
  BY <1>1, SumEmpty
<1> QED
  BY <1>2 DEF RowsPnl, f

\* An open row that becomes the row of its result adds the stage's profit.
LEMMA RowsPnlClose ==
  ASSUME NEW rows \in SUBSET StageRow, IsFiniteSet(rows), NEW old \in rows,
         old.result = "open", NEW new \in StageRow, new \notin rows
  PROVE  RowsPnl((rows \ {old}) \union {new}) = RowsPnl(rows) + RowPnl(new)
<1> DEFINE rest == rows \ {old}
<1>1. rest \in SUBSET StageRow /\ IsFiniteSet(rest) /\ old \notin rest /\ new \notin rest
  BY FS_RemoveElement
<1>2. RowsPnl(rest) \in Int /\ RowPnl(old) = 0
  BY <1>1, RowsPnlType, RowPnlType
<1>3. RowsPnl(rest \union {new}) = RowsPnl(rest) + RowPnl(new)
  BY <1>1, RowsPnlAdd
<1>4. RowsPnl(rest \union {old}) = RowsPnl(rest) + RowPnl(old)
  BY <1>1, RowsPnlAdd
<1>5. rest \union {old} = rows
  OBVIOUS
<1> HIDE DEF rest
<1>6. RowsPnl(rows) = RowsPnl(rest)
  <2>1. RowsPnl(rest \union {old}) = RowsPnl(rest)
    BY <1>2, <1>4
  <2> QED
    BY <1>5, <2>1
<1> QED
  BY <1>3, <1>6 DEF rest

-----------------------------------------------------------------------------
(* The total that the user is told.                                        *)

\* The state machine adds up what it is told, and firing adds nothing.
LEMMA MachineAdds ==
  ASSUME NEW s \in SignalState, NEW n \in Int, NEW r \in Results
  PROVE  /\ OnFire(s, n).cum = s.cum
         /\ OnResult(s, r, n).cum = s.cum + StagePnl(s.stage, r)
<1>1. OnFire(s, n).cum = s.cum
  BY DEF OnFire, ToError, SignalState
<1>2. \A c : ToError(s, "broker_unavailable", c).cum = c /\ ToError(s, "signal_expired", c).cum = c
  BY DEF ToError, SignalState
<1>3. \A c : ToTerminal(s, "done_win", c).cum = c /\ ToTerminal(s, "done_loss", c).cum = c
  BY DEF ToTerminal, SignalState
<1>4. \A g, c : ToPlaced(s, g, c).cum = c
  BY DEF ToPlaced
<1>5. OnResult(s, r, n).cum = s.cum + StagePnl(s.stage, r)
  BY <1>2, <1>3, <1>4 DEF OnResult, AdvanceAfterResult
<1> QED
  BY <1>1, <1>5

\* The rows of a signal are finitely many stage rows.
LEMMA RowsOfType ==
  ASSUME Safe, Books, NEW s
  PROVE  RowsOf(s) \in SUBSET StageRow /\ IsFiniteSet(RowsOf(s))
<1>1. RowsOf(s) \in SUBSET stages /\ stages \in SUBSET StageRow /\ IsFiniteSet(stages)
  BY DEF RowsOf, Books, Safe, TypeOK, StoreTypeOK
<1> QED
  BY <1>1, FS_Subset

\* A status does not become "none" or "pending" again.
NeverUndriven ==
  \A s \in Signals : signals'[s] \in {"none", "pending"} => signals[s] \in {"none", "pending"}

LEMMA PlaysNeverUndrive == ASSUME Safe, Plays PROVE NeverUndriven
<1>1. signals \in [Signals -> States \union {"none"}]
  BY DEF Safe, TypeOK, StoreTypeOK
<1>2. CASE UNCHANGED signals
  BY <1>2 DEF NeverUndriven
<1>3. ASSUME NEW x \in Signals, NEW from, NEW to, Promise!Move(x, from, to),
             to \in {"none", "pending"} => from \in {"none", "pending"}
      PROVE  NeverUndriven
  BY <1>1, <1>3 DEF Promise!Move, NeverUndriven
<1>4. ASSUME NEW x \in Signals,
             Promise!Accept(x) \/ Promise!Commit(x) \/ Promise!Escalate(x) \/ Promise!Finish(x)
      PROVE  NeverUndriven
  BY <1>3, <1>4 DEF Promise!Accept, Promise!Commit, Promise!Escalate, Promise!Finish
<1>5. ASSUME NEW x \in Signals, NEW g \in Stages, Promise!BetOn(x, g) PROVE NeverUndriven
  BY <1>2, <1>5 DEF Promise!BetOn
<1> QED
  BY <1>2, <1>4, <1>5 DEF Plays, Promise!Play, Promise!Stage, Stages

\* A step that leaves the rows alone, and tells of no end.
LEMMA QuietTallied ==
  ASSUME Tallied, UNCHANGED stages, KeepsFinal, NeverUndriven,
         \A s \in Signals : \A dm \in told'[s] : dm.kind = "complete" => dm \in told[s],
         \A t \in Task : Tallies(t)'
  PROVE  Tallied'
<1>1. \A s : RowsOf(s)' = RowsOf(s) /\ RowsPnl(RowsOf(s))' = RowsPnl(RowsOf(s))
  BY DEF RowsOf
<1>2. \A s \in Signals : signals'[s] \in {"none", "pending"} => RowsOf(s)' = {}
  BY <1>1 DEF Tallied, NeverUndriven
<1>3. \A s \in Signals : \A dm \in told'[s] : dm.kind = "complete" => dm.about \in FinalStates
  BY DEF Tallied
<1>4. ToldTheTruth'
  <2> SUFFICES ASSUME NEW s \in Signals, NEW dm \in told'[s], dm.kind = "complete"
               PROVE  signals'[s] = dm.about /\ dm.pnl = RowsPnl(RowsOf(s))'
    BY DEF ToldTheTruth
  <2>1. dm \in told[s] /\ dm.about \in FinalStates
    BY DEF Tallied
  <2>2. signals[s] = dm.about /\ dm.pnl = RowsPnl(RowsOf(s))
    BY <2>1 DEF Tallied, ToldTheTruth
  <2> QED
    BY <1>1, <2>1, <2>2 DEF KeepsFinal
<1> QED
  BY <1>2, <1>3, <1>4 DEF Tallied

\* A task that the step does not touch, while the rows stay.
LEMMA TalliesFrame ==
  ASSUME NEW t \in Task, Tallies(t), UNCHANGED stages, pc'[t] = pc[t], st'[t] = st[t],
         bet'[t] = bet[t]
  PROVE  Tallies(t)'
BY DEF Tallies, RowsOf, BetPnl

\* A supervisor that leaves the rows alone, and tells of no end, keeps its total.
LEMMA TurnTallied ==
  ASSUME Tallied, KeepsFinal, NeverUndriven, NEW t \in Task, UNCHANGED stages,
         \A u \in Task : u # t => pc'[u] = pc[u] /\ st'[u] = st[u] /\ bet'[u] = bet[u],
         \A s \in Signals : \A dm \in told'[s] : dm.kind = "complete" => dm \in told[s],
         Tallies(t)'
  PROVE  Tallied'
<1>1. \A u \in Task : Tallies(u)'
  BY TalliesFrame DEF Tallied
<1> QED
  BY <1>1, QuietTallied

\* Moving on with the same total.
LEMMA MoveTallies ==
  ASSUME Tallied, NEW t \in Task, UNCHANGED stages, st'[t].cum = st[t].cum,
         pc[t] \in DriveLabels \ {"resultWrite"}, pc'[t] # "resultWrite"
  PROVE  Tallies(t)'
<1>1. st[t].cum = RowsPnl(RowsOf(t[1])) + 0
  BY DEF Tallied, Tallies
<1>2. RowsPnl(RowsOf(t[1]))' = RowsPnl(RowsOf(t[1]))
  BY DEF RowsOf
<1> QED
  BY <1>1, <1>2 DEF Tallies

\* A DM of another kind than "complete".
LEMMA TellOther ==
  ASSUME Safe, NEW s \in Signals, NEW kind, kind # "complete", NEW about, NEW pnl,
         Tell(s, Dm(kind, about, pnl))
  PROVE  \A x \in Signals : \A dm \in told'[x] : dm.kind = "complete" => dm \in told[x]
BY DEF Tell, Dm, Safe, TypeOK, SupervisorTypeOK

\* The steps of the cascade between its results: they leave the rows alone and
\* tell of no end, and only firing and a refused pair move the state machine.
LEMMA DriveFacts ==
  ASSUME Safe, NEW t \in Task,
         \/ ReceivedTell(t) \/ FireEvent(t) \/ FireGale(t) \/ FireWrite(t) \/ ExpiredTell(t)
         \/ PlaceOk(t) \/ PlaceUnsupported(t) \/ PairTell(t) \/ ErrorWrite(t) \/ PlacedTell(t)
         \/ StateWrite(t) \/ DailyWrite(t) \/ ResultTell(t)
  PROVE  /\ pc[t] \in DriveLabels \ {"resultWrite"} /\ UNCHANGED stages
         /\ \A u \in Task : u # t => pc'[u] = pc[u] /\ st'[u] = st[u] /\ bet'[u] = bet[u]
         /\ pc'[t] # "resultWrite"
         /\ \/ FireEvent(t) /\ st'[t] = OnFire(st[t], now)
            \/ PairTell(t) /\ st'[t] = OnResult(st[t], "error", now)
            \/ st'[t] = st[t]
         /\ \A s \in Signals : \A dm \in told'[s] : dm.kind = "complete" => dm \in told[s]
<1>1. SupervisorTypeOK /\ t[1] \in Signals
  BY TaskSignal DEF Safe, TypeOK
<1>2. /\ pc[t] \in DriveLabels \ {"resultWrite"} /\ UNCHANGED stages
      /\ \A u \in Task : u # t => pc'[u] = pc[u] /\ st'[u] = st[u] /\ bet'[u] = bet[u]
  <2>1. CASE ReceivedTell(t) \/ ExpiredTell(t) \/ PlaceOk(t) \/ PlaceUnsupported(t)
             \/ PlacedTell(t) \/ ResultTell(t)
    BY <1>1, <2>1, GotoFacts
       DEF ReceivedTell, ExpiredTell, PlaceOk, PlaceUnsupported, PlacedTell, ResultTell,
           storeVars, DriveLabels, Labels
  <2>2. CASE FireEvent(t) \/ PairTell(t)
    BY <1>1, <2>2, GotoFacts
       DEF FireEvent, Due, PairTell, storeVars, DriveLabels, Labels, SupervisorTypeOK
  <2>3. CASE FireGale(t)
    BY <1>1, <2>3, GotoFacts
       DEF FireGale, Due, OpenBet, storeVars, DriveLabels, Labels, SupervisorTypeOK
  <2>4. CASE FireWrite(t)
    BY <1>1, <2>4, GotoFacts
       DEF FireWrite, OpenBet, UpdateSignalState, DriveLabels, Labels, SupervisorTypeOK
  <2>5. CASE ErrorWrite(t) \/ StateWrite(t) \/ DailyWrite(t)
    BY <1>1, <2>5, GotoFacts
       DEF ErrorWrite, StateWrite, DailyWrite, UpdateSignalState, UpdateDailySummary,
           DriveLabels, Labels
  <2> QED
    BY <2>1, <2>2, <2>3, <2>4, <2>5
<1>3. pc'[t] # "resultWrite"
  BY <1>1
     DEF ReceivedTell, ExpiredTell, PlaceOk, PlaceUnsupported, PlacedTell, ResultTell, FireEvent,
         PairTell, FireGale, FireWrite, ErrorWrite, StateWrite, DailyWrite, Goto, SupervisorTypeOK
<1>4. \/ FireEvent(t) /\ st'[t] = OnFire(st[t], now)
      \/ PairTell(t) /\ st'[t] = OnResult(st[t], "error", now)
      \/ st'[t] = st[t]
  BY <1>1
     DEF ReceivedTell, FireEvent, FireGale, FireWrite, ExpiredTell, PlaceOk, PlaceUnsupported,
         PairTell, ErrorWrite, PlacedTell, StateWrite, DailyWrite, ResultTell, SupervisorTypeOK
<1>5. \A s \in Signals : \A dm \in told'[s] : dm.kind = "complete" => dm \in told[s]
  <2>1. CASE ReceivedTell(t) \/ ExpiredTell(t) \/ PairTell(t) \/ PlacedTell(t)
    BY <1>1, <2>1, TellOther DEF ReceivedTell, ExpiredTell, PairTell, PlacedTell
  <2>2. CASE ResultTell(t)
    BY <1>1, <2>2, TellOther DEF ResultTell
  <2>3. CASE UNCHANGED told
    BY <2>3
  <2> QED
    BY <2>1, <2>2, <2>3
       DEF FireEvent, FireGale, FireWrite, PlaceOk, PlaceUnsupported, ErrorWrite, StateWrite,
           DailyWrite
<1> QED
  BY <1>2, <1>3, <1>4, <1>5

\* They leave the total alone too.
LEMMA DriveTallied ==
  ASSUME Safe, Tallied, KeepsFinal, NeverUndriven, NEW t \in Task,
         \/ ReceivedTell(t) \/ FireEvent(t) \/ FireGale(t) \/ FireWrite(t) \/ ExpiredTell(t)
         \/ PlaceOk(t) \/ PlaceUnsupported(t) \/ PairTell(t) \/ ErrorWrite(t) \/ PlacedTell(t)
         \/ StateWrite(t) \/ DailyWrite(t) \/ ResultTell(t)
  PROVE  Tallied'
<1>1. /\ st[t] \in SignalState /\ st[t].cum \in Int /\ now \in Int
      /\ "error" \in Results /\ StagePnl(st[t].stage, "error") = 0
  BY DEF Safe, TypeOK, SupervisorTypeOK, SignalState, Results, StagePnl, Losing
<1>2. st'[t].cum = st[t].cum
  <2>1. OnFire(st[t], now).cum = st[t].cum /\ OnResult(st[t], "error", now).cum = st[t].cum
    BY <1>1, MachineAdds
  <2> QED
    BY <2>1, DriveFacts
<1>3. Tallies(t)'
  BY <1>2, DriveFacts, MoveTallies
<1> QED
  BY <1>3, DriveFacts, TurnTallied

\* A cascade starts with no rows; and a task that does not drive carries no total.
LEMMA AsideTallied ==
  ASSUME Safe, Tallied, KeepsFinal, NeverUndriven, NEW t \in Task,
         \/ CheckDailyLimit(t) \/ RejectWrite(t) \/ RejectTell(t) \/ DuplicateAtIntake(t)
         \/ StartCascade(t) \/ PlaceRaises(t) \/ DbFails(t) \/ Cancelled(t)
  PROVE  Tallied'
<1>1. SupervisorTypeOK /\ t[1] \in Signals
  BY TaskSignal DEF Safe, TypeOK
<1>2. CASE CheckDailyLimit(t) \/ RejectWrite(t)
  <2>1. /\ pc'[t] \notin DriveLabels /\ UNCHANGED <<stages, told>>
        /\ \A u \in Task : u # t => pc'[u] = pc[u] /\ st'[u] = st[u] /\ bet'[u] = bet[u]
    BY <1>1, <1>2, GotoFacts
       DEF CheckDailyLimit, RejectWrite, UpdateSignalState, storeVars, DriveLabels, Labels
  <2>2. Tallies(t)'
    BY <2>1 DEF Tallies
  <2> QED
    BY <2>1, <2>2, TurnTallied
<1>3. CASE RejectTell(t) \/ DuplicateAtIntake(t) \/ PlaceRaises(t) \/ DbFails(t) \/ Cancelled(t)
  <2>1. /\ End(t) /\ UNCHANGED stages
        /\ \A s \in Signals : \A dm \in told'[s] : dm.kind = "complete" => dm \in told[s]
    BY <1>1, <1>3, TellOther
       DEF RejectTell, DuplicateAtIntake, PlaceRaises, DbFails, Cancelled, storeVars
  <2>2. /\ pc'[t] = "free"
        /\ \A u \in Task : u # t => pc'[u] = pc[u] /\ st'[u] = st[u] /\ bet'[u] = bet[u]
    BY <1>1, <2>1, EndFacts
  <2>3. Tallies(t)'
    BY <2>2 DEF Tallies, DriveLabels
  <2> QED
    BY <2>1, <2>2, <2>3, TurnTallied
<1>4. CASE StartCascade(t)
  <2>1. /\ pc'[t] = "receivedTell" /\ UNCHANGED <<stages, told, bet>> /\ st'[t].cum = 0
        /\ \A u \in Task : u # t => pc'[u] = pc[u] /\ st'[u] = st[u]
    BY <1>1, <1>4, GotoFacts DEF StartCascade, storeVars, Labels, SupervisorTypeOK, FromSignal
  <2>2. RowsOf(t[1]) = {}
    BY <1>1, <1>4 DEF StartCascade, MayDrive, Tallied
  <2>3. RowsOf(t[1])' = {}
    BY <2>1, <2>2 DEF RowsOf
  <2>4. RowsPnl(RowsOf(t[1]))' = 0
    BY <2>3, RowsPnlEmpty
  <2>5. Tallies(t)'
    BY <2>1, <2>4 DEF Tallies
  <2> QED
    BY <2>1, <2>5, TurnTallied
<1> QED
  BY <1>2, <1>3, <1>4

\* The result of a stage is in the total before it is in the row.
LEMMA GotResultTallied ==
  ASSUME Safe, Books, Tallied, KeepsFinal, NeverUndriven, NEW t \in Task,
         WaitTimesOut(t) \/ BrokerAnswers(t)
  PROVE  Tallied'
<1>1. SupervisorTypeOK /\ t[1] \in Signals /\ st[t] \in SignalState /\ now \in Int
  BY TaskSignal DEF Safe, TypeOK, SupervisorTypeOK
<1>2. PICK r \in Results : pc[t] = "waiting" /\ GotResult(t, r)
  BY SupervisorAssumption DEF WaitTimesOut, BrokerAnswers, Results
<1>3. /\ pc'[t] = "resultWrite" /\ UNCHANGED <<stages, told>>
      /\ \A u \in Task : u # t => pc'[u] = pc[u] /\ st'[u] = st[u] /\ bet'[u] = bet[u]
      /\ st'[t] = OnResult(st[t], r, now)
      /\ bet'[t].stage = bet[t].stage /\ bet'[t].result = r
  BY <1>1, <1>2, GotoFacts DEF GotResult, storeVars, Labels, SupervisorTypeOK, Bet
<1>4. bet[t].stage = st[t].stage
  BY <1>2 DEF Safe, Agreement, TaskAgrees
<1>5. st[t].cum = RowsPnl(RowsOf(t[1]))
  <2>1. st[t].cum = RowsPnl(RowsOf(t[1])) + 0
    BY <1>2 DEF Tallied, Tallies, DriveLabels, Labels
  <2>2. RowsPnl(RowsOf(t[1])) \in Int
    BY RowsOfType, RowsPnlType
  <2> QED
    BY <2>1, <2>2
<1>6. RowsPnl(RowsOf(t[1]))' = RowsPnl(RowsOf(t[1]))
  BY <1>3 DEF RowsOf
<1>7. BetPnl(t)' = StagePnl(st[t].stage, r)
  BY <1>3, <1>4 DEF BetPnl
<1>8. st'[t].cum = st[t].cum + StagePnl(st[t].stage, r)
  BY <1>1, <1>3, MachineAdds
<1>9. Tallies(t)'
  BY <1>3, <1>5, <1>6, <1>7, <1>8 DEF Tallies
<1> QED
  BY <1>3, <1>9, TurnTallied

\* A step of a supervisor that writes the rows of its own signal, which is placed.
LEMMA RowsTallied ==
  ASSUME Safe, Books, Tallied, NEW t \in Task, pc[t] # "free", signals[t[1]] \in PlacedStates,
         UNCHANGED <<signals, told>>,
         \A u \in Task : u # t => pc'[u] = pc[u] /\ st'[u] = st[u] /\ bet'[u] = bet[u],
         \A s \in Signals : s # t[1] => RowsOf(s)' = RowsOf(s),
         Tallies(t)'
  PROVE  Tallied'
<1>1. \A s \in Signals : s # t[1] => RowsPnl(RowsOf(s))' = RowsPnl(RowsOf(s))
  OBVIOUS
<1>2. \A u \in Task : Tallies(u)'
  <2> SUFFICES ASSUME NEW u \in Task, u # t, pc[u] # "free" PROVE Tallies(u)'
    BY DEF Tallies, DriveLabels
  <2>1. u[1] # t[1] /\ u[1] \in Signals
    BY Owned DEF Safe
  <2>2. RowsPnl(RowsOf(u[1]))' = RowsPnl(RowsOf(u[1]))
    BY <1>1, <2>1
  <2>3. BetPnl(u)' = BetPnl(u)
    BY DEF BetPnl
  <2> QED
    BY <2>2, <2>3 DEF Tallied, Tallies
<1>3. signals[t[1]] \notin {"none", "pending"} /\ signals[t[1]] \notin FinalStates
  BY DEF PlacedStates, FinalStates
<1>4. \A s \in Signals : signals'[s] \in {"none", "pending"} => RowsOf(s)' = {}
  BY <1>3 DEF Tallied
<1>5. \A s \in Signals : \A dm \in told'[s] : dm.kind = "complete" => dm.about \in FinalStates
  BY DEF Tallied
<1>6. ToldTheTruth'
  <2> SUFFICES ASSUME NEW s \in Signals, NEW dm \in told[s], dm.kind = "complete"
               PROVE  signals[s] = dm.about /\ dm.pnl = RowsPnl(RowsOf(s))'
    BY DEF ToldTheTruth
  <2>1. signals[s] = dm.about /\ dm.pnl = RowsPnl(RowsOf(s)) /\ dm.about \in FinalStates
    BY DEF Tallied, ToldTheTruth
  <2>2. s # t[1]
    BY <1>3, <2>1
  <2> QED
    BY <1>1, <2>1, <2>2
<1> QED
  BY <1>2, <1>4, <1>5, <1>6 DEF Tallied

\* The row of a bet is open, and counts for nothing yet.
LEMMA StageWriteTallied ==
  ASSUME Safe, Books, Tallied, KeepsFinal, NeverUndriven, NEW t \in Task, StageWrite(t)
  PROVE  Tallied'
<1>1. /\ SupervisorTypeOK /\ t[1] \in Signals /\ pc[t] = "stageWrite"
      /\ bet[t].stage \in Stages /\ bet[t].at \in Nat /\ signals[t[1]] \in PlacedStates
  <2>1. SupervisorTypeOK /\ t[1] \in Signals /\ pc[t] = "stageWrite" /\ TaskAgrees(t)
    BY TaskSignal DEF StageWrite, Safe, TypeOK, Agreement
  <2>2. bet[t].stage \in Stages /\ signals[t[1]] = PlacedState(bet[t].stage)
    BY <2>1 DEF TaskAgrees, AtStage, InStep
  <2> QED
    BY <2>1, <2>2 DEF SupervisorTypeOK, Bet, PlacedState, PlacedStates, Stages
<1>2. CASE StageExists(t[1], bet[t].stage, bet[t].at)
  <2>1. End(t) /\ UNCHANGED <<stages, told>>
    BY <1>2 DEF StageWrite, storeVars
  <2>2. /\ pc'[t] = "free"
        /\ \A u \in Task : u # t => pc'[u] = pc[u] /\ st'[u] = st[u] /\ bet'[u] = bet[u]
    BY <1>1, <2>1, EndFacts
  <2>3. Tallies(t)'
    BY <2>2 DEF Tallies, DriveLabels
  <2> QED
    BY <2>1, <2>2, <2>3, TurnTallied
<1>3. CASE ~StageExists(t[1], bet[t].stage, bet[t].at)
  <2> DEFINE row == RowOf(t, "open")
  <2>1. /\ stages' = stages \union {row} /\ UNCHANGED <<signals, told, bet, st>>
        /\ pc'[t] = "placedTell" /\ \A u \in Task : u # t => pc'[u] = pc[u]
    BY <1>1, <1>3, GotoFacts DEF StageWrite, RecordStagePlaced, RowOf, Labels
  <2>2. row \in StageRow /\ row.sig = t[1] /\ row.result = "open" /\ row \notin stages
    BY <1>1, <1>3 DEF StageRow, RowOf, StageExists, SameTrade
  <2> HIDE DEF row
  <2>3. \A s \in Signals : s # t[1] => RowsOf(s)' = RowsOf(s)
    BY <2>1, <2>2 DEF RowsOf
  <2>4. RowsOf(t[1])' = RowsOf(t[1]) \union {row} /\ row \notin RowsOf(t[1])
    BY <2>1, <2>2 DEF RowsOf
  <2>5. RowsPnl(RowsOf(t[1])) \in Int /\ RowPnl(row) = 0
    BY <2>2, RowsOfType, RowsPnlType, RowPnlType
  <2>6. RowsPnl(RowsOf(t[1]) \union {row}) = RowsPnl(RowsOf(t[1])) + RowPnl(row)
    BY <2>2, <2>4, RowsOfType, RowsPnlAdd
  <2>7. RowsPnl(RowsOf(t[1]))' = RowsPnl(RowsOf(t[1])) + RowPnl(row)
    BY <2>4, <2>6
  <2>8. RowsPnl(RowsOf(t[1]))' = RowsPnl(RowsOf(t[1]))
    BY <2>5, <2>7
  <2>9. st[t].cum = RowsPnl(RowsOf(t[1])) + 0
    BY <1>1 DEF Tallied, Tallies, DriveLabels, Labels
  <2>10. Tallies(t)'
    BY <2>1, <2>8, <2>9 DEF Tallies
  <2> QED
    BY <1>1, <2>1, <2>3, <2>10, RowsTallied
<1> QED
  BY <1>2, <1>3

\* The row takes the result, and catches up with the total.
LEMMA ResultWriteTallied ==
  ASSUME Safe, Books, Tallied, NEW t \in Task, ResultWrite(t)
  PROVE  Tallied'
<1> DEFINE old == RowOf(t, "open")
           new == RowOf(t, bet[t].result)
<1>1. /\ SupervisorTypeOK /\ t[1] \in Signals /\ pc[t] = "resultWrite"
      /\ bet[t].stage \in Stages /\ bet[t].result \in Results /\ bet[t].at \in Nat
      /\ signals[t[1]] \in PlacedStates
  BY TaskSignal
     DEF ResultWrite, Safe, TypeOK, SupervisorTypeOK, Agreement, TaskAgrees, AtStage, Advanced,
         Bet, PlacedState, PlacedStates, Stages
<1>2. /\ pc'[t] = "stateWrite" /\ UNCHANGED <<signals, told, bet, st>>
      /\ \A u \in Task : u # t => pc'[u] = pc[u]
  BY <1>1, GotoFacts DEF ResultWrite, RecordStageResult, Labels
<1>3. old \in stages /\ new \notin stages /\ stages' = (stages \ {old}) \union {new}
  BY ResultWriteRows
<1>4. /\ old.sig = t[1] /\ old.result = "open" /\ new \in StageRow /\ new.sig = t[1]
      /\ RowPnl(new) = BetPnl(t)
  BY <1>1 DEF RowOf, StageRow, RowPnl, BetPnl
<1> HIDE DEF old, new
<1>5. \A s \in Signals : s # t[1] => RowsOf(s)' = RowsOf(s)
  BY <1>3, <1>4 DEF RowsOf
<1>6. /\ RowsOf(t[1])' = (RowsOf(t[1]) \ {old}) \union {new}
      /\ old \in RowsOf(t[1]) /\ new \notin RowsOf(t[1])
  BY <1>3, <1>4 DEF RowsOf
<1>7. RowsPnl((RowsOf(t[1]) \ {old}) \union {new}) = RowsPnl(RowsOf(t[1])) + RowPnl(new)
  BY <1>4, <1>6, RowsOfType, RowsPnlClose
<1>8. RowsPnl(RowsOf(t[1]))' = RowsPnl(RowsOf(t[1])) + BetPnl(t)
  BY <1>4, <1>6, <1>7
<1>9. st[t].cum = RowsPnl(RowsOf(t[1])) + BetPnl(t)
  BY <1>1 DEF Tallied, Tallies, DriveLabels, Labels
<1>10. st[t].cum \in Int
  BY <1>1 DEF SupervisorTypeOK, SignalState
<1>11. Tallies(t)'
  BY <1>2, <1>8, <1>9, <1>10 DEF Tallies
<1> QED
  BY <1>1, <1>2, <1>5, <1>11, RowsTallied

\* The end is told with the status and the total of the rows.
LEMMA CompleteTellTallied ==
  ASSUME Safe, Books, Tallied, NEW t \in Task, CompleteTell(t)
  PROVE  Tallied'
<1> DEFINE end == Dm("complete", st[t].state, st[t].cum)
<1>1. SupervisorTypeOK /\ t[1] \in Signals /\ pc[t] = "completeTell" /\ End(t)
  BY TaskSignal DEF CompleteTell, Safe, TypeOK
<1>2. /\ pc'[t] = "free" /\ UNCHANGED <<stages, signals>>
      /\ \A u \in Task : u # t => pc'[u] = pc[u] /\ st'[u] = st[u] /\ bet'[u] = bet[u]
  BY <1>1, EndFacts DEF CompleteTell, storeVars
<1>3. \A s : RowsOf(s)' = RowsOf(s) /\ RowsPnl(RowsOf(s))' = RowsPnl(RowsOf(s))
  BY <1>2 DEF RowsOf
<1>4. \A u \in Task : Tallies(u)'
  <2>1. Tallies(t)'
    BY <1>2 DEF Tallies, DriveLabels
  <2> QED
    BY <1>2, <2>1, TalliesFrame DEF Tallied
<1>5. signals[t[1]] = st[t].state /\ st[t].state \in FinalStates
  BY <1>1 DEF Safe, Agreement, TaskAgrees
<1>6. st[t].cum = RowsPnl(RowsOf(t[1]))
  <2>1. st[t].cum = RowsPnl(RowsOf(t[1])) + 0
    BY <1>1 DEF Tallied, Tallies, DriveLabels, Labels
  <2>2. RowsPnl(RowsOf(t[1])) \in Int
    BY RowsOfType, RowsPnlType
  <2> QED
    BY <2>1, <2>2
<1>7. end.about = st[t].state /\ end.pnl = st[t].cum
  BY DEF Dm
<1>8. \A s \in Signals : \A dm \in told'[s] : dm \in told[s] \/ (s = t[1] /\ dm = end)
  BY <1>1 DEF CompleteTell, Tell, SupervisorTypeOK
<1> HIDE DEF end
<1>9. \A s \in Signals : \A dm \in told'[s] : dm.kind = "complete" =>
        signals[s] = dm.about /\ dm.about \in FinalStates /\ dm.pnl = RowsPnl(RowsOf(s))
  BY <1>5, <1>6, <1>7, <1>8 DEF Tallied, ToldTheTruth
<1>10. \A s \in Signals : signals'[s] \in {"none", "pending"} => RowsOf(s)' = {}
  BY <1>2, <1>3 DEF Tallied
<1>11. ToldTheTruth'
  BY <1>2, <1>3, <1>9 DEF ToldTheTruth
<1> QED
  BY <1>4, <1>9, <1>10, <1>11 DEF Tallied

\* Every step of a supervisor.
LEMMA SupervisorTallied ==
  ASSUME Safe, Books, Tallied, KeepsFinal, NeverUndriven, NEW t \in Task,
         Step(t) \/ BrokerAnswers(t) \/ DbFails(t) \/ Cancelled(t)
  PROVE  Tallied'
<1>1. CASE \/ CheckDailyLimit(t) \/ RejectWrite(t) \/ RejectTell(t) \/ DuplicateAtIntake(t)
           \/ StartCascade(t) \/ PlaceRaises(t) \/ DbFails(t) \/ Cancelled(t)
  BY <1>1, AsideTallied
<1>2. CASE \/ ReceivedTell(t) \/ FireEvent(t) \/ FireGale(t) \/ FireWrite(t) \/ ExpiredTell(t)
           \/ PlaceOk(t) \/ PlaceUnsupported(t) \/ PairTell(t) \/ ErrorWrite(t)
           \/ PlacedTell(t) \/ StateWrite(t) \/ DailyWrite(t) \/ ResultTell(t)
  BY <1>2, DriveTallied
<1> QED
  BY <1>1, <1>2, GotResultTallied, StageWriteTallied, ResultWriteTallied, CompleteTellTallied
     DEF Step

\* A new supervisor has no total yet.
LEMMA SpawnTallied ==
  ASSUME Safe, Tallied, KeepsFinal, NeverUndriven, NEW t \in Task, Spawn(t),
         UNCHANGED <<stages, told>>
  PROVE  Tallied'
<1>1. pc'[t] = "limit" /\ UNCHANGED <<st, bet>> /\ \A u \in Task : u # t => pc'[u] = pc[u]
  BY GotoFacts DEF Spawn, Safe, TypeOK, Labels
<1>2. Tallies(t)'
  BY <1>1 DEF Tallies, DriveLabels
<1> QED
  BY <1>1, <1>2, TurnTallied

\* Every step of the program.
LEMMA NextTallied ==
  ASSUME Safe, Books, Tallied, [Next]_vars PROVE Tallied'
<1> KeepsFinal /\ NeverUndriven
  BY NextKeeps, NextPlays, PlaysNeverUndrive
<1>1. CASE \E t \in Task :
             SupervisorStep(t) \/ Answer(t) \/ DatabaseError(t) \/ Cancel(t)
  BY <1>1, SupervisorTallied DEF SupervisorStep, Answer, DatabaseError, Cancel
<1>2. ASSUME UNCHANGED <<pc, st, bet, stages, told>> PROVE Tallied'
  <2>1. \A t \in Task : Tallies(t)'
    BY <1>2, TalliesFrame DEF Tallied
  <2> QED
    BY <1>2, <2>1, QuietTallied
<1>3. ASSUME NEW s \in Signals,
             Deliver(s) \/ Upsert(s) \/ UpsertFails(s) \/ Put(s) \/ TimeoutRow(s)
      PROVE  Tallied'
  BY <1>2, <1>3
     DEF Deliver, Upsert, UpsertSignal, UpsertFails, Put, TimeoutRow, supervisorVars,
         storeVars, taskVars
<1>4. ASSUME NEW s \in Signals, NEW k \in Slots, AdoptRow(s, k) PROVE Tallied'
  BY <1>4, SpawnTallied DEF AdoptRow, Task, storeVars
<1>5. ASSUME NEW k \in Slots, Dequeue(k) PROVE Tallied'
  <2>1. Head(queue) \in Signals
    BY <1>5 DEF Dequeue, Safe, TypeOK
  <2> QED
    BY <1>5, <2>1, SpawnTallied DEF Dequeue, Task, storeVars
<1>6. ASSUME NEW k \in Slots, TimeoutAdopt(k) PROVE Tallied'
  <2>1. timeout.sig \in Signals
    BY <1>6 DEF TimeoutAdopt, Safe, Phases
  <2> QED
    BY <1>6, <2>1, SpawnTallied DEF TimeoutAdopt, Task, storeVars
<1>7. CASE QueryActive \/ TimeoutRead \/ TimeoutWrite \/ StartScheduler \/ Tick \/ Stop
           \/ Boot \/ UNCHANGED vars
  BY <1>2, <1>7
     DEF QueryActive, TimeoutRead, TimeoutWrite, UpdateSignalState, StartScheduler, Tick,
         Stop, Boot, vars, supervisorVars, storeVars, taskVars
<1>8. CASE Crash
  <2>1. UNCHANGED <<stages, told>> /\ \A t \in Task : pc'[t] = "free"
    BY <1>8 DEF Crash, storeVars
  <2>2. \A t \in Task : Tallies(t)'
    BY <2>1 DEF Tallies, DriveLabels
  <2> QED
    BY <2>1, <2>2, QuietTallied
<1> QED
  BY <1>1, <1>3, <1>4, <1>5, <1>6, <1>7, <1>8 DEF Next

\* Nothing is told and nothing recorded at first.
LEMMA InitTallied == ASSUME Init PROVE Tallied
<1>1. stages = {} /\ (\A t \in Task : pc[t] = "free") /\ \A s \in Signals : told[s] = {}
  BY DEF Init, StoreInit, SupervisorInit, NoTasks
<1> QED
  BY <1>1 DEF Tallied, Tallies, DriveLabels, RowsOf, ToldTheTruth

\* What the user was told at the end of a cascade - its status and its total -
\* is what the database says from then on, whatever crashes and fails.
THEOREM CompletionIsTrue == Spec => []ToldTheTruth
<1>1. Init => Tallied
  BY InitTallied
<1>2. Safe /\ Books /\ Tallied /\ [Next]_vars => Tallied'
  BY NextTallied
<1>3. Tallied => ToldTheTruth
  BY DEF Tallied
<1> QED
  BY <1>1, <1>2, <1>3, SafeInvariant, BooksInvariant, PTL DEF Spec

-----------------------------------------------------------------------------
(* What a cascade can pay and cost.                                        *)

\* What the stakes come to.
LEMMA StakesAdd ==
  /\ \A g \in Stages : LostBefore(g) \in Int
  /\ LostBefore("initial") = 0
  /\ \A g \in {"initial", "gale1"} : LostBefore(NextStage(g)) = LostBefore(g) + Amount[g]
  /\ LostAll = LostBefore("gale2") + Amount["gale2"] /\ LostAll \in Int
BY AmountAssumption DEF LostBefore, LostAll, NextStage, Stages

\* The state machine stays on the totals of a martingale.
LEMMA MachineTotals ==
  ASSUME NEW s \in SignalState, s.stage \in Stages, s.state = PlacedState(s.stage),
         MartingaleTotal(s.state, s.cum), NEW r \in Results, NEW n \in Int
  PROVE  MartingaleTotal(OnResult(s, r, n).state, OnResult(s, r, n).cum)
<1> DEFINE g == s.stage
           new == OnResult(s, r, n)
<1>1. /\ s.cum = -(100 * LostBefore(g)) /\ g \in Stages /\ Amount[g] \in Int
      /\ LostBefore(g) \in Int
  BY StakesAdd, AmountAssumption DEF MartingaleTotal, Stages
<1>2. new.cum = s.cum + StagePnl(g, r) /\ new.state \in Successors(g)
  BY MachineAdds, OnResultType
<1>3. CASE r = "win"
  <2>1. new.state = "done_win"
    <3>1. new = ToTerminal(s, "done_win", s.cum + StagePnl(g, r))
      BY <1>3 DEF OnResult, AdvanceAfterResult, Losing
    <3> QED
      BY <3>1 DEF ToTerminal, SignalState
  <2>2. new.cum = 92 * Amount[g] - 100 * LostBefore(g)
    <3>1. StagePnl(g, r) = 92 * Amount[g]
      BY <1>3 DEF StagePnl, AmountForStage
    <3> HIDE DEF new, g
    <3> QED
      BY <1>1, <1>2, <3>1
  <2> QED
    BY <1>1, <2>1, <2>2 DEF MartingaleTotal, PlacedState, Stages
<1>4. CASE r = "error"
  <2>1. new.state = "error"
    BY <1>4, OnResultType
  <2>2. new.cum = -(100 * LostBefore(g))
    <3>1. StagePnl(g, r) = 0
      BY <1>4 DEF StagePnl, Losing
    <3> HIDE DEF new, g
    <3> QED
      BY <1>1, <1>2, <3>1
  <2> QED
    BY <1>1, <2>1, <2>2 DEF MartingaleTotal, PlacedState, Stages
<1>5. CASE r \in Losing
  <2>1. new.cum = -(100 * (LostBefore(g) + Amount[g]))
    <3>1. StagePnl(g, r) = -(100 * Amount[g])
      BY <1>5 DEF StagePnl, AmountForStage, Losing
    <3> HIDE DEF new, g
    <3> QED
      BY <1>1, <1>2, <3>1
  <2>2. CASE g = "gale2"
    <3>1. new.state = "done_loss"
      <4>1. new = ToTerminal(s, "done_loss", s.cum + StagePnl(g, r))
        BY <1>5, <2>2 DEF OnResult, AdvanceAfterResult, Losing
      <4> QED
        BY <4>1 DEF ToTerminal, SignalState
    <3>2. new.cum = -(100 * LostAll)
      BY <2>1, <2>2, StakesAdd
    <3> QED
      BY <3>1, <3>2 DEF MartingaleTotal, PlacedState, Stages
  <2>3. CASE g # "gale2"
    <3> DEFINE h == NextStage(g)
    <3>1. h \in Stages /\ new.cum = -(100 * LostBefore(h))
      BY <1>1, <2>1, <2>3, StakesAdd DEF NextStage, Stages
    <3>2. new.state = "error" \/ new.state = PlacedState(h)
      <4>1. CASE n > NextTrigger(s) + Tolerance
        <5>1. new = ToError(s, "signal_expired", s.cum + StagePnl(g, r))
          BY <1>5, <2>3, <4>1 DEF OnResult, AdvanceAfterResult, Losing
        <5> QED
          BY <5>1 DEF ToError, SignalState
      <4>2. CASE ~(n > NextTrigger(s) + Tolerance)
        <5>1. new = ToPlaced(s, h, s.cum + StagePnl(g, r))
          BY <1>5, <2>3, <4>2 DEF OnResult, AdvanceAfterResult, Losing
        <5> QED
          BY <5>1 DEF ToPlaced
      <4> QED
        BY <4>1, <4>2
    <3> HIDE DEF new, h
    <3>3. \A i \in Stages : PlacedState(h) = PlacedState(i) => i = h
      BY <3>1 DEF PlacedState, Stages
    <3>4. \A i \in Stages : PlacedState(i) \notin {"pending", "done_win", "done_loss", "error"}
      BY DEF PlacedState, Stages
    <3>5. MartingaleTotal(new.state, new.cum)
      BY <3>1, <3>2, <3>3, <3>4 DEF MartingaleTotal
    <3> QED
      BY <3>5 DEF new
  <2> QED
    BY <2>2, <2>3
<1> QED
  BY <1>3, <1>4, <1>5 DEF Results, Losing

\* Firing keeps the total, which is 0.
LEMMA FiringTotals ==
  ASSUME NEW s \in SignalState, s.state = "pending", MartingaleTotal(s.state, s.cum), NEW n \in Int
  PROVE  MartingaleTotal(OnFire(s, n).state, OnFire(s, n).cum)
<1>1. OnFire(s, n).cum = 0
  BY MachineAdds DEF MartingaleTotal, Results
<1>2. OnFire(s, n).state \in {"error", "placed_initial"}
  BY DEF OnFire, ToError, SignalState
<1>3. 0 = -(100 * LostBefore("initial")) /\ "initial" \in Stages
  BY StakesAdd DEF Stages
<1> QED
  BY <1>1, <1>2, <1>3 DEF MartingaleTotal, PlacedState, Stages

\* A step after which every driving task that has changed is still on a total,
\* and no end is told.
LEMMA TotalsFrame ==
  ASSUME Totals,
         \A s \in Signals : \A dm \in told'[s] : dm.kind = "complete" =>
           dm \in told[s] \/ MartingaleTotal(dm.about, dm.pnl),
         \A t \in Task : pc'[t] \in DriveLabels =>
           \/ pc[t] \in DriveLabels /\ st'[t] = st[t]
           \/ MartingaleTotal(st'[t].state, st'[t].cum)
  PROVE  Totals'
BY DEF Totals, TotalsAreMartingales

\* Every step of a supervisor.
LEMMA SupervisorTotals ==
  ASSUME Safe, Totals, NEW t \in Task,
         Step(t) \/ BrokerAnswers(t) \/ DbFails(t) \/ Cancelled(t)
  PROVE  Totals'
<1>1. SupervisorTypeOK /\ t[1] \in Signals /\ st[t] \in SignalState /\ now \in Int
      /\ TaskAgrees(t)
  BY TaskSignal DEF Safe, TypeOK, SupervisorTypeOK, Agreement
<1>2. ASSUME \A u \in Task : u # t => pc'[u] = pc[u] /\ st'[u] = st[u],
             \A s \in Signals : \A dm \in told'[s] : dm.kind = "complete" => dm \in told[s],
             \/ pc'[t] \notin DriveLabels
             \/ pc[t] \in DriveLabels /\ st'[t] = st[t]
             \/ MartingaleTotal(st'[t].state, st'[t].cum)
      PROVE  Totals'
  BY <1>2, TotalsFrame
<1>3. CASE \/ ReceivedTell(t) \/ FireEvent(t) \/ FireGale(t) \/ FireWrite(t) \/ ExpiredTell(t)
           \/ PlaceOk(t) \/ PlaceUnsupported(t) \/ PairTell(t) \/ ErrorWrite(t)
           \/ PlacedTell(t) \/ StateWrite(t) \/ DailyWrite(t) \/ ResultTell(t)
  <2>1. MartingaleTotal(st[t].state, st[t].cum) /\ pc[t] \in DriveLabels
    BY <1>3, DriveFacts DEF Totals
  <2>2. CASE FireEvent(t) /\ st'[t] = OnFire(st[t], now)
    <3>1. MartingaleTotal(st'[t].state, st'[t].cum)
      BY <1>1, <2>1, <2>2, FiringTotals DEF FireEvent, AcceptsFire
    <3> QED
      BY <1>2, <1>3, <3>1, DriveFacts
  <2>3. CASE PairTell(t) /\ st'[t] = OnResult(st[t], "error", now)
    <3>1. st[t].stage \in Stages /\ st[t].state = PlacedState(st[t].stage)
      BY <1>1, <2>3 DEF PairTell, TaskAgrees, InStep
    <3>2. MartingaleTotal(st'[t].state, st'[t].cum)
      BY <1>1, <2>1, <2>3, <3>1, MachineTotals DEF Results
    <3> QED
      BY <1>2, <1>3, <3>2, DriveFacts
  <2>4. CASE st'[t] = st[t]
    BY <1>2, <1>3, <2>1, <2>4, DriveFacts
  <2> QED
    BY <1>3, <2>2, <2>3, <2>4, DriveFacts
<1>4. CASE CheckDailyLimit(t) \/ RejectWrite(t)
  <2>1. /\ pc'[t] \notin DriveLabels /\ UNCHANGED <<st, told>>
        /\ \A u \in Task : u # t => pc'[u] = pc[u]
    BY <1>1, <1>4, GotoFacts DEF CheckDailyLimit, RejectWrite, DriveLabels, Labels
  <2> QED
    BY <1>2, <2>1
<1>5. CASE RejectTell(t) \/ DuplicateAtIntake(t) \/ PlaceRaises(t) \/ DbFails(t) \/ Cancelled(t)
  <2>1. /\ End(t)
        /\ \A s \in Signals : \A dm \in told'[s] : dm.kind = "complete" => dm \in told[s]
    BY <1>1, <1>5, TellOther
       DEF RejectTell, DuplicateAtIntake, PlaceRaises, DbFails, Cancelled
  <2>2. pc'[t] \notin DriveLabels /\ \A u \in Task : u # t => pc'[u] = pc[u] /\ st'[u] = st[u]
    BY <1>1, <2>1, EndFacts DEF DriveLabels
  <2> QED
    BY <1>2, <2>1, <2>2
<1>6. CASE StartCascade(t)
  <2>1. /\ st'[t].state = "pending" /\ st'[t].cum = 0 /\ UNCHANGED told
        /\ \A u \in Task : u # t => pc'[u] = pc[u] /\ st'[u] = st[u]
    BY <1>1, <1>6, GotoFacts DEF StartCascade, Labels, SupervisorTypeOK, FromSignal
  <2>2. MartingaleTotal(st'[t].state, st'[t].cum)
    BY <2>1 DEF MartingaleTotal, PlacedState, Stages
  <2> QED
    BY <1>2, <2>1, <2>2
<1>7. CASE WaitTimesOut(t) \/ BrokerAnswers(t)
  <2>1. PICK r \in Results : pc[t] = "waiting" /\ GotResult(t, r)
    BY <1>7, SupervisorAssumption DEF WaitTimesOut, BrokerAnswers, Results
  <2>2. /\ st'[t] = OnResult(st[t], r, now) /\ UNCHANGED told
        /\ \A u \in Task : u # t => pc'[u] = pc[u] /\ st'[u] = st[u]
    BY <1>1, <2>1, GotoFacts DEF GotResult, Labels, SupervisorTypeOK
  <2>3. /\ st[t].stage \in Stages /\ st[t].state = PlacedState(st[t].stage)
        /\ MartingaleTotal(st[t].state, st[t].cum)
    BY <1>1, <2>1 DEF TaskAgrees, InStep, Totals, DriveLabels, Labels
  <2>4. MartingaleTotal(st'[t].state, st'[t].cum)
    BY <1>1, <2>2, <2>3, MachineTotals
  <2> QED
    BY <1>2, <2>2, <2>4
<1>8. CASE StageWrite(t) \/ ResultWrite(t)
  <2>1. /\ pc[t] \in DriveLabels /\ UNCHANGED told
        /\ \A u \in Task : u # t => pc'[u] = pc[u] /\ st'[u] = st[u]
        /\ pc'[t] \notin DriveLabels \/ st'[t] = st[t]
    BY <1>1, <1>8, GotoFacts, EndFacts DEF StageWrite, ResultWrite, DriveLabels, Labels
  <2> QED
    BY <1>2, <2>1
<1>9. CASE CompleteTell(t)
  <2> DEFINE end == Dm("complete", st[t].state, st[t].cum)
  <2>1. MartingaleTotal(end.about, end.pnl)
    BY <1>9 DEF CompleteTell, Totals, DriveLabels, Labels, Dm
  <2>2. \A s \in Signals : \A dm \in told'[s] : dm \in told[s] \/ dm = end
    BY <1>1, <1>9 DEF CompleteTell, Tell, SupervisorTypeOK
  <2>3. pc'[t] \notin DriveLabels /\ \A u \in Task : u # t => pc'[u] = pc[u] /\ st'[u] = st[u]
    BY <1>1, <1>9, EndFacts DEF CompleteTell, DriveLabels
  <2> HIDE DEF end
  <2> QED
    BY <2>1, <2>2, <2>3, TotalsFrame
<1> QED
  BY <1>3, <1>4, <1>5, <1>6, <1>7, <1>8, <1>9 DEF Step

\* Every step of the program.
LEMMA NextTotals ==
  ASSUME Safe, Totals, [Next]_vars PROVE Totals'
<1>1. CASE \E t \in Task :
             SupervisorStep(t) \/ Answer(t) \/ DatabaseError(t) \/ Cancel(t)
  BY <1>1, SupervisorTotals DEF SupervisorStep, Answer, DatabaseError, Cancel
<1>2. ASSUME UNCHANGED told,
             \A t \in Task : pc'[t] \in DriveLabels => pc[t] \in DriveLabels /\ st'[t] = st[t]
      PROVE  Totals'
  BY <1>2, TotalsFrame
<1>3. CASE \E s \in Signals :
             Deliver(s) \/ Upsert(s) \/ UpsertFails(s) \/ Put(s) \/ TimeoutRow(s)
  BY <1>2, <1>3 DEF Deliver, Upsert, UpsertFails, Put, TimeoutRow, supervisorVars, taskVars
<1>4. ASSUME NEW t \in Task, Spawn(t), UNCHANGED told PROVE Totals'
  <2>1. pc'[t] = "limit" /\ UNCHANGED st /\ \A u \in Task : u # t => pc'[u] = pc[u]
    BY <1>4, GotoFacts DEF Spawn, Safe, TypeOK, Labels
  <2> QED
    BY <1>2, <1>4, <2>1 DEF DriveLabels
<1>5. ASSUME NEW s \in Signals, NEW k \in Slots, AdoptRow(s, k) PROVE Totals'
  BY <1>4, <1>5 DEF AdoptRow, Task
<1>6. ASSUME NEW k \in Slots, Dequeue(k) PROVE Totals'
  <2>1. Head(queue) \in Signals
    BY <1>6 DEF Dequeue, Safe, TypeOK
  <2> QED
    BY <1>4, <1>6, <2>1 DEF Dequeue, Task
<1>7. ASSUME NEW k \in Slots, TimeoutAdopt(k) PROVE Totals'
  <2>1. timeout.sig \in Signals
    BY <1>7 DEF TimeoutAdopt, Safe, Phases
  <2> QED
    BY <1>4, <1>7, <2>1 DEF TimeoutAdopt, Task
<1>8. CASE QueryActive \/ TimeoutRead \/ TimeoutWrite \/ StartScheduler \/ Tick \/ Stop
           \/ Boot \/ UNCHANGED vars
  BY <1>2, <1>8
     DEF QueryActive, TimeoutRead, TimeoutWrite, StartScheduler, Tick, Stop, Boot, vars,
         supervisorVars, taskVars
<1>9. CASE Crash
  BY <1>2, <1>9 DEF Crash, DriveLabels
<1> QED
  BY <1>1, <1>3, <1>5, <1>6, <1>7, <1>8, <1>9 DEF Next

\* The total in the last DM - which is that of the recorded rows, by
\* CompletionIsTrue - is one that a martingale with the configured amounts has.
THEOREM TotalsAreOfAMartingale == Spec => []TotalsAreMartingales
<1>1. Init => Totals
  BY DEF Init, SupervisorInit, NoTasks, Totals, TotalsAreMartingales, DriveLabels
<1>2. Safe /\ Totals /\ [Next]_vars => Totals'
  BY NextTotals
<1>3. Totals => TotalsAreMartingales
  BY DEF Totals
<1> QED
  BY <1>1, <1>2, <1>3, SafeInvariant, PTL DEF Spec

\* One stage, of which there is at most one row, costs at most its amount.
LEMMA StageCosts ==
  ASSUME NEW rows \in SUBSET StageRow, IsFiniteSet(rows), NEW g \in Stages,
         \A row, other \in rows : row.stage = g /\ other.stage = g => row = other,
         NEW rest, rest = {row \in rows : row.stage # g}
  PROVE  /\ rest \in SUBSET StageRow /\ IsFiniteSet(rest)
         /\ RowsPnl(rows) \in Int /\ RowsPnl(rest) \in Int
         /\ RowsPnl(rows) >= RowsPnl(rest) - 100 * Amount[g]
<1>1. rest \in SUBSET StageRow /\ rest \in SUBSET rows
  OBVIOUS
<1>2. IsFiniteSet(rest)
  BY <1>1, FS_Subset
<1>3. RowsPnl(rows) \in Int /\ RowsPnl(rest) \in Int /\ Amount[g] \in Nat
  BY <1>1, <1>2, RowsPnlType, AmountAssumption
<1>4. CASE rest = rows
  BY <1>1, <1>2, <1>3, <1>4
<1>5. CASE rest # rows
  <2>1. PICK row \in rows : row.stage = g
    BY <1>5
  <2>2. rows = rest \union {row} /\ row \notin rest /\ row \in StageRow
    BY <2>1
  <2>3. RowPnl(row) >= -(100 * Amount[g]) /\ RowPnl(row) \in Int
    <3>1. RowPnl(row) \in {92 * Amount[g], -(100 * Amount[g]), 0}
      BY <2>1 DEF RowPnl, StagePnl, AmountForStage
    <3> QED
      BY <1>3, <3>1
  <2>4. RowsPnl(rest \union {row}) = RowsPnl(rest) + RowPnl(row)
    BY <1>1, <1>2, <2>2, RowsPnlAdd
  <2>5. RowsPnl(rows) = RowsPnl(rest) + RowPnl(row)
    BY <2>2, <2>4
  <2> QED
    BY <1>1, <1>2, <1>3, <2>3, <2>5
<1> QED
  BY <1>4, <1>5

\* By the recorded rows no signal ever costs more than the sum of its three
\* stakes, however its cascade was interrupted and repeated.
THEOREM LossIsBounded == Spec => []CostsAtMostItsStakes
<1>1. Safe /\ Books /\ RowsAreOrders => CostsAtMostItsStakes
  <2> SUFFICES ASSUME Safe, Books, RowsAreOrders, NEW s \in Signals
               PROVE  RowsPnl(RowsOf(s)) >= -(100 * LostAll)
    BY DEF CostsAtMostItsStakes
  <2>1. RowsOf(s) \in SUBSET StageRow /\ IsFiniteSet(RowsOf(s))
    BY RowsOfType
  <2>2. \A g : \A row, other \in RowsOf(s) : row.stage = g /\ other.stage = g => row = other
    BY DEF RowsOf, RowsAreOrders
  <2>3. PICK noInitial : noInitial = {row \in RowsOf(s) : row.stage # "initial"}
    OBVIOUS
  <2>4. PICK noGale1 : noGale1 = {row \in noInitial : row.stage # "gale1"}
    OBVIOUS
  <2>5. PICK noGale : noGale = {row \in noGale1 : row.stage # "gale2"}
    OBVIOUS
  <2>6. noInitial \in SUBSET RowsOf(s) /\ noGale1 \in SUBSET RowsOf(s)
    BY <2>3, <2>4
  <2>7. noGale = {}
    BY <2>1, <2>3, <2>4, <2>5 DEF StageRow, Stages
  <2>8. "initial" \in Stages /\ "gale1" \in Stages /\ "gale2" \in Stages
    BY DEF Stages
  <2>9. \A g : \A row, other \in noInitial : row.stage = g /\ other.stage = g => row = other
    BY <2>2, <2>6
  <2>10. \A g : \A row, other \in noGale1 : row.stage = g /\ other.stage = g => row = other
    BY <2>2, <2>6
  <2>11. /\ noInitial \in SUBSET StageRow /\ IsFiniteSet(noInitial)
         /\ RowsPnl(RowsOf(s)) \in Int /\ RowsPnl(noInitial) \in Int
         /\ RowsPnl(RowsOf(s)) >= RowsPnl(noInitial) - 100 * Amount["initial"]
    BY <2>1, <2>2, <2>3, <2>8, StageCosts
  <2>12. /\ noGale1 \in SUBSET StageRow /\ IsFiniteSet(noGale1) /\ RowsPnl(noGale1) \in Int
         /\ RowsPnl(noInitial) >= RowsPnl(noGale1) - 100 * Amount["gale1"]
    BY <2>4, <2>8, <2>9, <2>11, StageCosts
  <2>13. RowsPnl(noGale) \in Int /\ RowsPnl(noGale1) >= RowsPnl(noGale) - 100 * Amount["gale2"]
    BY <2>5, <2>8, <2>10, <2>12, StageCosts
  <2>14. RowsPnl(noGale) = 0
    BY <2>7, RowsPnlEmpty
  <2>15. \A g \in Stages : Amount[g] \in Nat
    BY AmountAssumption
  <2>16. LostAll = Amount["initial"] + Amount["gale1"] + Amount["gale2"]
    BY DEF LostAll, LostBefore
  <2> QED
    BY <2>8, <2>11, <2>12, <2>13, <2>14, <2>15, <2>16
<1> QED
  BY <1>1, SafeInvariant, BooksInvariant, RowsStandForOrders, PTL

-----------------------------------------------------------------------------
(* The daily summary.                                                      *)

\* The closed rows of a day with a result in R, and the tasks that have still
\* to count one.
ClosedIn(d, R) == {row \in ClosedRows(d) : row.result \in R}
WaitingIn(d, R) == {t \in Unsummarised(d) : bet[t].result \in R}

Counts(d) ==
  /\ daily[d].trades + Cardinality(WaitingIn(d, Results)) = Cardinality(ClosedIn(d, Results))
  /\ daily[d].wins + Cardinality(WaitingIn(d, {"win"})) = Cardinality(ClosedIn(d, {"win"}))
  /\ daily[d].losses + Cardinality(WaitingIn(d, Losing)) = Cardinality(ClosedIn(d, Losing))

Balanced ==
  \A d \in Dates :
    /\ IsFiniteSet(Unsummarised(d))
    /\ Counts(d)
    /\ daily[d].pnl + UnsummarisedPnl(d) = RowsPnl(ClosedRows(d))

\* What is counted is finite, and what is summed is a number.
LEMMA BalanceTypes ==
  ASSUME Safe, Books, NEW d \in Dates, IsFiniteSet(Unsummarised(d)), NEW R
  PROVE  /\ IsFiniteSet(WaitingIn(d, R)) /\ Cardinality(WaitingIn(d, R)) \in Nat
         /\ IsFiniteSet(ClosedIn(d, R)) /\ Cardinality(ClosedIn(d, R)) \in Nat
         /\ IsFiniteSet(ClosedRows(d)) /\ ClosedRows(d) \in SUBSET StageRow
         /\ RowsPnl(ClosedRows(d)) \in Int
         /\ \A t \in Unsummarised(d) : BetPnl(t) \in Int /\ bet[t].result \in Results
         /\ UnsummarisedPnl(d) \in Int
         /\ daily[d] \in Summary
<1>1. ClosedRows(d) \in SUBSET stages /\ ClosedIn(d, R) \in SUBSET stages
  BY DEF ClosedRows, ClosedIn
<1>2. IsFiniteSet(stages) /\ stages \in SUBSET StageRow /\ daily[d] \in Summary
  BY DEF Books, Safe, TypeOK, StoreTypeOK
<1>3. IsFiniteSet(ClosedRows(d)) /\ IsFiniteSet(ClosedIn(d, R)) /\ ClosedRows(d) \in SUBSET StageRow
  BY <1>1, <1>2, FS_Subset
<1>4. WaitingIn(d, R) \in SUBSET Unsummarised(d)
  BY DEF WaitingIn
<1>5. IsFiniteSet(WaitingIn(d, R))
  BY <1>4, FS_Subset
<1>6. \A t \in Unsummarised(d) : BetPnl(t) \in Int /\ bet[t].result \in Results
  <2> SUFFICES ASSUME NEW t \in Unsummarised(d)
               PROVE  BetPnl(t) \in Int /\ bet[t].result \in Results
    OBVIOUS
  <2>1. t \in Task /\ pc[t] \in ClosedLabels
    BY DEF Unsummarised, ClosedLabels
  <2>2. bet[t].result \in Results /\ RowOf(t, bet[t].result) \in StageRow
    BY <1>2, <2>1 DEF Books, Booked
  <2>3. bet[t].stage \in Stages
    BY <2>2 DEF RowOf, StageRow
  <2> QED
    BY <2>2, <2>3, StagePnlType DEF BetPnl
<1>7. UnsummarisedPnl(d) \in Int
  <2> DEFINE f == [t \in Unsummarised(d) |-> BetPnl(t)]
  <2>1. DOMAIN f = Unsummarised(d) /\ \A t \in Unsummarised(d) : f[t] \in Int
    BY <1>6
  <2> HIDE DEF f
  <2>2. SumFunction(f) \in Int
    BY <2>1, SumType DEF SumFunction
  <2> QED
    BY <2>2 DEF UnsummarisedPnl, f
<1> QED
  BY <1>2, <1>3, <1>5, <1>6, <1>7, FS_CardinalityType, RowsPnlType

\* A step that changes neither the closed rows nor the summary, nor the bet of a
\* task that has still to count one.
LEMMA QuietBalanced ==
  ASSUME Balanced, UNCHANGED daily, \A d \in Dates : ClosedRows(d)' = ClosedRows(d),
         \A t \in Task : /\ pc'[t] \in ClosedLabels <=> pc[t] \in ClosedLabels
                         /\ pc[t] \in ClosedLabels => bet'[t] = bet[t]
  PROVE  Balanced'
<1> SUFFICES ASSUME NEW d \in Dates
             PROVE  /\ IsFiniteSet(Unsummarised(d))' /\ Counts(d)'
                    /\ daily'[d].pnl + UnsummarisedPnl(d)' = RowsPnl(ClosedRows(d))'
  BY DEF Balanced
<1>1. Unsummarised(d)' = Unsummarised(d) /\ \A t \in Unsummarised(d) : bet'[t] = bet[t]
  BY DEF Unsummarised, ClosedLabels
<1>2. \A R : WaitingIn(d, R)' = WaitingIn(d, R) /\ ClosedIn(d, R)' = ClosedIn(d, R)
  BY <1>1 DEF WaitingIn, ClosedIn
<1>3. UnsummarisedPnl(d)' = UnsummarisedPnl(d)
  BY <1>1 DEF UnsummarisedPnl, BetPnl
<1>4. RowsPnl(ClosedRows(d))' = RowsPnl(ClosedRows(d))
  OBVIOUS
<1>5. Counts(d)'
  BY <1>2 DEF Balanced, Counts
<1> QED
  BY <1>1, <1>3, <1>4, <1>5 DEF Balanced

\* The same for one day of a step that changes another day's.
LEMMA OtherDayBalanced ==
  ASSUME Balanced, NEW d \in Dates, daily'[d] = daily[d], ClosedRows(d)' = ClosedRows(d),
         Unsummarised(d)' = Unsummarised(d), UNCHANGED bet
  PROVE  /\ IsFiniteSet(Unsummarised(d))' /\ Counts(d)'
         /\ daily'[d].pnl + UnsummarisedPnl(d)' = RowsPnl(ClosedRows(d))'
<1>1. \A R : WaitingIn(d, R)' = WaitingIn(d, R) /\ ClosedIn(d, R)' = ClosedIn(d, R)
  BY DEF WaitingIn, ClosedIn
<1>2. UnsummarisedPnl(d)' = UnsummarisedPnl(d)
  BY DEF UnsummarisedPnl, BetPnl
<1>3. RowsPnl(ClosedRows(d))' = RowsPnl(ClosedRows(d))
  OBVIOUS
<1>4. Counts(d)'
  BY <1>1 DEF Balanced, Counts
<1> QED
  BY <1>2, <1>3, <1>4 DEF Balanced

\* One more task that has still to count its result.
LEMMA WaitingAdd ==
  ASSUME NEW f, NEW g, NEW t, IsFiniteSet(DOMAIN f), t \notin DOMAIN f,
         DOMAIN g = DOMAIN f \union {t}, \A u \in DOMAIN f : g[u] = f[u],
         NEW R
  PROVE  Cardinality({u \in DOMAIN g : g[u] \in R})
           = Cardinality({u \in DOMAIN f : f[u] \in R}) + (IF g[t] \in R THEN 1 ELSE 0)
<1> DEFINE F == {u \in DOMAIN f : f[u] \in R}
           G == {u \in DOMAIN g : g[u] \in R}
<1>1. F \in SUBSET DOMAIN f
  OBVIOUS
<1>2. IsFiniteSet(F) /\ Cardinality(F) \in Nat /\ t \notin F
  BY <1>1, FS_Subset, FS_CardinalityType
<1>3. CASE g[t] \in R
  <2>1. G = F \union {t}
    BY <1>3
  <2> HIDE DEF F, G
  <2>2. Cardinality(G) = Cardinality(F) + 1
    BY <1>2, <2>1, FS_AddElement
  <2> QED
    BY <1>3, <2>2 DEF F, G
<1>4. CASE g[t] \notin R
  <2>1. G = F
    BY <1>4
  <2> HIDE DEF F, G
  <2>2. Cardinality(G) = Cardinality(F) + 0
    BY <1>2, <2>1
  <2> QED
    BY <1>4, <2>2 DEF F, G
<1> QED
  BY <1>3, <1>4

\* What one result more, or less, means for the tasks that have still to count:
\* less is the set before, more the set after.
LEMMA WaitingStep ==
  ASSUME Safe, Books, NEW d \in Dates, IsFiniteSet(Unsummarised(d)), NEW t \in Task,
         BetPnl(t) \in Int, t \notin Unsummarised(d),
         Unsummarised(d)' = Unsummarised(d) \union {t}, UNCHANGED bet
  PROVE  /\ IsFiniteSet(Unsummarised(d)')
         /\ \A R : Cardinality(WaitingIn(d, R)')
              = Cardinality(WaitingIn(d, R)) + (IF bet[t].result \in R THEN 1 ELSE 0)
         /\ UnsummarisedPnl(d)' = UnsummarisedPnl(d) + BetPnl(t)
<1>1. IsFiniteSet(Unsummarised(d)')
  BY FS_AddElement
<1>2. ASSUME NEW R
      PROVE  Cardinality(WaitingIn(d, R)')
               = Cardinality(WaitingIn(d, R)) + (IF bet[t].result \in R THEN 1 ELSE 0)
  <2> DEFINE f == [u \in Unsummarised(d) |-> bet[u].result]
             g == [u \in Unsummarised(d) \union {t} |-> bet[u].result]
  <2>1. WaitingIn(d, R) = {u \in DOMAIN f : f[u] \in R}
    BY DEF WaitingIn
  <2>2. WaitingIn(d, R)' = {u \in DOMAIN g : g[u] \in R}
    BY DEF WaitingIn
  <2>3. /\ IsFiniteSet(DOMAIN f) /\ t \notin DOMAIN f /\ DOMAIN g = DOMAIN f \union {t}
        /\ (\A u \in DOMAIN f : g[u] = f[u]) /\ g[t] = bet[t].result
    OBVIOUS
  <2> HIDE DEF f, g
  <2>4. Cardinality({u \in DOMAIN g : g[u] \in R})
          = Cardinality({u \in DOMAIN f : f[u] \in R}) + (IF g[t] \in R THEN 1 ELSE 0)
    BY <2>3, WaitingAdd
  <2> QED
    BY <2>1, <2>2, <2>3, <2>4
<1>3. UnsummarisedPnl(d)' = UnsummarisedPnl(d) + BetPnl(t)
  <2> DEFINE f == [u \in Unsummarised(d) |-> BetPnl(u)]
             g == [u \in Unsummarised(d) \union {t} |-> BetPnl(u)]
  <2>1. UnsummarisedPnl(d) = SumFunction(f)
    BY DEF UnsummarisedPnl
  <2>2. UnsummarisedPnl(d)' = SumFunction(g)
    BY DEF UnsummarisedPnl, BetPnl
  <2>3. \A u \in Unsummarised(d) \union {t} : BetPnl(u) \in Int
    BY BalanceTypes
  <2>4. /\ DOMAIN f = Unsummarised(d) /\ DOMAIN g = DOMAIN f \union {t}
        /\ (\A u \in DOMAIN f : g[u] = f[u]) /\ (\A u \in DOMAIN g : g[u] \in Int)
        /\ g[t] = BetPnl(t)
    BY <2>3
  <2> HIDE DEF f, g
  <2>5. SumFunction(g) = SumFunction(f) + g[t]
    BY <2>4, SumAdd
  <2> QED
    BY <2>1, <2>2, <2>4, <2>5
<1> QED
  BY <1>1, <1>2, <1>3

\* A result that is recorded is one more row, and one more task that has still
\* to count it.
LEMMA ResultWriteBalanced ==
  ASSUME Safe, Books, Balanced, NEW t \in Task, ResultWrite(t) PROVE Balanced'
<1> DEFINE old == RowOf(t, "open")
           new == RowOf(t, bet[t].result)
           e == DateOf[t[1]]
           r == bet[t].result
<1>1. /\ SupervisorTypeOK /\ t[1] \in Signals /\ pc[t] = "resultWrite" /\ e \in Dates
      /\ bet[t].stage \in Stages /\ r \in Results /\ bet[t].at \in Nat
  BY TaskSignal, SignalAssumption
     DEF ResultWrite, Safe, TypeOK, SupervisorTypeOK, Agreement, TaskAgrees, Advanced, Bet
<1>2. /\ pc'[t] = "stateWrite" /\ UNCHANGED <<daily, bet>>
      /\ \A u \in Task : u # t => pc'[u] = pc[u]
  BY <1>1, GotoFacts DEF ResultWrite, RecordStageResult, Labels
<1>3. old \in stages /\ new \notin stages /\ stages' = (stages \ {old}) \union {new}
  BY ResultWriteRows
<1>4. /\ old.result = "open" /\ new \in StageRow /\ new.sig = t[1] /\ new.result = r
      /\ r # "open" /\ RowPnl(new) = BetPnl(t) /\ BetPnl(t) \in Int
  BY <1>1, StagePnlType DEF RowOf, StageRow, RowPnl, BetPnl, Results
<1>5. \A d \in Dates : /\ ClosedRows(d)' = ClosedRows(d) \union (IF d = e THEN {new} ELSE {})
                       /\ new \notin ClosedRows(d)
  <2> HIDE DEF old, new, r
  <2> QED
    BY <1>3, <1>4 DEF ClosedRows
<1>6. \A d \in Dates : /\ Unsummarised(d)' = Unsummarised(d) \union (IF d = e THEN {t} ELSE {})
                       /\ t \notin Unsummarised(d)
  BY <1>1, <1>2 DEF Unsummarised
<1> SUFFICES ASSUME NEW d \in Dates
             PROVE  /\ IsFiniteSet(Unsummarised(d))' /\ Counts(d)'
                    /\ daily'[d].pnl + UnsummarisedPnl(d)' = RowsPnl(ClosedRows(d))'
  BY DEF Balanced
<1>7. CASE d # e
  BY <1>2, <1>5, <1>6, <1>7, OtherDayBalanced
<1>8. CASE d = e
  <2> HIDE DEF old, new, e, r
  <2>1. IsFiniteSet(Unsummarised(d)) /\ Counts(d)
        /\ daily[d].pnl + UnsummarisedPnl(d) = RowsPnl(ClosedRows(d))
    BY DEF Balanced
  <2>2. ClosedRows(d)' = ClosedRows(d) \union {new} /\ new \notin ClosedRows(d)
    BY <1>5, <1>8
  <2>3. Unsummarised(d)' = Unsummarised(d) \union {t} /\ t \notin Unsummarised(d)
    BY <1>6, <1>8
  <2>4. /\ IsFiniteSet(Unsummarised(d)')
        /\ \A R : Cardinality(WaitingIn(d, R)')
             = Cardinality(WaitingIn(d, R)) + (IF bet[t].result \in R THEN 1 ELSE 0)
        /\ UnsummarisedPnl(d)' = UnsummarisedPnl(d) + BetPnl(t)
    BY <1>2, <1>4, <2>1, <2>3, WaitingStep
  <2>5. ASSUME NEW R
        PROVE  /\ Cardinality(ClosedIn(d, R)') = Cardinality(ClosedIn(d, R)) + (IF r \in R THEN 1 ELSE 0)
               /\ Cardinality(WaitingIn(d, R)') = Cardinality(WaitingIn(d, R)) + (IF r \in R THEN 1 ELSE 0)
               /\ Cardinality(ClosedIn(d, R)) \in Nat /\ Cardinality(WaitingIn(d, R)) \in Nat
    <3>1. /\ IsFiniteSet(ClosedIn(d, R)) /\ Cardinality(ClosedIn(d, R)) \in Nat
          /\ Cardinality(WaitingIn(d, R)) \in Nat
      BY <2>1, BalanceTypes
    <3>2. CASE r \in R
      <4>1. ClosedIn(d, R)' = ClosedIn(d, R) \union {new} /\ new \notin ClosedIn(d, R)
        BY <1>4, <2>2, <3>2 DEF ClosedIn
      <4>2. Cardinality(ClosedIn(d, R) \union {new}) = Cardinality(ClosedIn(d, R)) + 1
        BY <3>1, <4>1, FS_AddElement
      <4> QED
        BY <2>4, <3>1, <3>2, <4>1, <4>2 DEF r
    <3>3. CASE r \notin R
      <4>1. ClosedIn(d, R)' = ClosedIn(d, R)
        BY <1>4, <2>2, <3>3 DEF ClosedIn
      <4> QED
        BY <2>4, <3>1, <3>3, <4>1 DEF r
    <3> QED
      BY <3>2, <3>3
  <2>6. daily[d].trades \in Nat /\ daily[d].wins \in Nat /\ daily[d].losses \in Nat
        /\ daily[d].pnl \in Int
    BY DEF Safe, TypeOK, StoreTypeOK, Summary
  <2>7. Counts(d)'
    <3>1. ASSUME NEW n \in Nat, NEW R, n + Cardinality(WaitingIn(d, R)) = Cardinality(ClosedIn(d, R))
          PROVE  n + Cardinality(WaitingIn(d, R)') = Cardinality(ClosedIn(d, R)')
      BY <2>5, <3>1
    <3>2. daily'[d].trades + Cardinality(WaitingIn(d, Results)') = Cardinality(ClosedIn(d, Results)')
      BY <1>2, <2>1, <2>6, <3>1 DEF Counts
    <3>3. daily'[d].wins + Cardinality(WaitingIn(d, {"win"})') = Cardinality(ClosedIn(d, {"win"})')
      BY <1>2, <2>1, <2>6, <3>1 DEF Counts
    <3>4. daily'[d].losses + Cardinality(WaitingIn(d, Losing)') = Cardinality(ClosedIn(d, Losing)')
      BY <1>2, <2>1, <2>6, <3>1 DEF Counts
    <3> QED
      BY <3>2, <3>3, <3>4 DEF Counts
  <2>8. daily'[d].pnl + UnsummarisedPnl(d)' = RowsPnl(ClosedRows(d))'
    <3>1. /\ RowsPnl(ClosedRows(d)) \in Int /\ UnsummarisedPnl(d) \in Int
          /\ ClosedRows(d) \in SUBSET StageRow /\ IsFiniteSet(ClosedRows(d))
      BY <2>1, BalanceTypes
    <3>2. RowsPnl(ClosedRows(d) \union {new}) = RowsPnl(ClosedRows(d)) + RowPnl(new)
      BY <1>4, <2>2, <3>1, RowsPnlAdd
    <3>3. RowsPnl(ClosedRows(d))' = RowsPnl(ClosedRows(d)) + BetPnl(t)
      BY <1>4, <2>2, <3>2
    <3>4. UnsummarisedPnl(d)' = UnsummarisedPnl(d) + BetPnl(t)
      BY <2>4
    <3> QED
      BY <1>2, <1>4, <2>1, <2>6, <3>1, <3>3, <3>4
  <2> QED
    BY <2>4, <2>7, <2>8
<1> QED
  BY <1>7, <1>8

\* What one result less means for them.
LEMMA WaitingGone ==
  ASSUME Safe, Books, NEW d \in Dates, IsFiniteSet(Unsummarised(d)), NEW t \in Unsummarised(d),
         Unsummarised(d)' = Unsummarised(d) \ {t}, UNCHANGED bet
  PROVE  /\ IsFiniteSet(Unsummarised(d)')
         /\ \A R : /\ Cardinality(WaitingIn(d, R)') \in Nat
                   /\ Cardinality(WaitingIn(d, R))
                        = Cardinality(WaitingIn(d, R)') + (IF bet[t].result \in R THEN 1 ELSE 0)
         /\ UnsummarisedPnl(d)' \in Int /\ BetPnl(t) \in Int
         /\ UnsummarisedPnl(d) = UnsummarisedPnl(d)' + BetPnl(t)
<1> DEFINE V == Unsummarised(d) \ {t}
<1>1. V \in SUBSET Unsummarised(d) /\ t \notin V /\ Unsummarised(d) = V \union {t}
  OBVIOUS
<1>2. IsFiniteSet(V)
  BY <1>1, FS_Subset
<1>3. \A u \in Unsummarised(d) : BetPnl(u) \in Int
  BY BalanceTypes
<1> HIDE DEF V
<1>4. ASSUME NEW R
      PROVE  /\ Cardinality(WaitingIn(d, R)') \in Nat
             /\ Cardinality(WaitingIn(d, R))
                  = Cardinality(WaitingIn(d, R)') + (IF bet[t].result \in R THEN 1 ELSE 0)
  <2> DEFINE f == [u \in V |-> bet[u].result]
             g == [u \in V \union {t} |-> bet[u].result]
  <2>1. WaitingIn(d, R)' = {u \in DOMAIN f : f[u] \in R}
    BY DEF WaitingIn, V
  <2>2. WaitingIn(d, R) = {u \in DOMAIN g : g[u] \in R}
    BY <1>1 DEF WaitingIn
  <2>3. /\ IsFiniteSet(DOMAIN f) /\ t \notin DOMAIN f /\ DOMAIN g = DOMAIN f \union {t}
        /\ (\A u \in DOMAIN f : g[u] = f[u]) /\ g[t] = bet[t].result
    BY <1>1, <1>2
  <2>4. {u \in DOMAIN f : f[u] \in R} \in SUBSET DOMAIN f
    OBVIOUS
  <2> HIDE DEF f, g
  <2>5. Cardinality({u \in DOMAIN g : g[u] \in R})
          = Cardinality({u \in DOMAIN f : f[u] \in R}) + (IF g[t] \in R THEN 1 ELSE 0)
    BY <2>3, WaitingAdd
  <2>6. Cardinality(WaitingIn(d, R)') \in Nat
    BY <2>1, <2>3, <2>4, FS_Subset, FS_CardinalityType
  <2> QED
    BY <2>1, <2>2, <2>3, <2>5, <2>6
<1>5. UnsummarisedPnl(d)' \in Int /\ UnsummarisedPnl(d) = UnsummarisedPnl(d)' + BetPnl(t)
  <2> DEFINE f == [u \in V |-> BetPnl(u)]
             g == [u \in V \union {t} |-> BetPnl(u)]
  <2>1. UnsummarisedPnl(d)' = SumFunction(f)
    BY DEF UnsummarisedPnl, BetPnl, V
  <2>2. UnsummarisedPnl(d) = SumFunction(g)
    BY <1>1 DEF UnsummarisedPnl
  <2>3. /\ DOMAIN f = V /\ DOMAIN g = DOMAIN f \union {t} /\ g[t] = BetPnl(t)
        /\ (\A u \in DOMAIN f : g[u] = f[u] /\ f[u] \in Int) /\ (\A u \in DOMAIN g : g[u] \in Int)
    BY <1>1, <1>3
  <2> HIDE DEF f, g
  <2>4. SumFunction(g) = SumFunction(f) + g[t]
    BY <1>1, <1>2, <2>3, SumAdd
  <2>5. SumFunction(f) \in Int
    BY <1>2, <2>3, SumType DEF SumFunction
  <2> QED
    BY <2>1, <2>2, <2>3, <2>4, <2>5
<1> QED
  BY <1>1, <1>2, <1>3, <1>4, <1>5 DEF V

\* A result that is counted has been waited for, and is waited for no more.
LEMMA DailyWriteBalanced ==
  ASSUME Safe, Books, Balanced, NEW t \in Task, DailyWrite(t) PROVE Balanced'
<1> DEFINE e == DateOf[t[1]]
           r == bet[t].result
<1>1. /\ pc[t] = "dailyWrite" /\ pc'[t] \notin ClosedLabels /\ UNCHANGED <<stages, bet>>
      /\ \A u \in Task : u # t => pc'[u] = pc[u]
  BY GotoFacts DEF DailyWrite, UpdateDailySummary, Safe, TypeOK, Labels, ClosedLabels
<1>2. \A d \in Dates : /\ ClosedRows(d)' = ClosedRows(d)
                       /\ Unsummarised(d)' = Unsummarised(d) \ (IF d = e THEN {t} ELSE {})
  BY <1>1 DEF ClosedRows, Unsummarised, ClosedLabels
<1>3. daily \in [Dates -> Summary]
      /\ daily' = [daily EXCEPT ![e] =
           [trades |-> @.trades + 1, wins |-> @.wins + (IF r = "win" THEN 1 ELSE 0),
            losses |-> @.losses + (IF r \in Losing THEN 1 ELSE 0),
            pnl |-> @.pnl + BetPnl(t)]]
  BY DEF DailyWrite, UpdateDailySummary, Safe, TypeOK, StoreTypeOK, BetPnl
<1> SUFFICES ASSUME NEW d \in Dates
             PROVE  /\ IsFiniteSet(Unsummarised(d))' /\ Counts(d)'
                    /\ daily'[d].pnl + UnsummarisedPnl(d)' = RowsPnl(ClosedRows(d))'
  BY DEF Balanced
<1>4. CASE d # e
  <2>1. daily'[d] = daily[d]
    BY <1>3, <1>4
  <2>2. Unsummarised(d)' = Unsummarised(d)
    BY <1>2, <1>4
  <2> QED
    BY <1>1, <1>2, <2>1, <2>2, OtherDayBalanced
<1>5. CASE d = e
  <2>1. t \in Unsummarised(d) /\ Unsummarised(d)' = Unsummarised(d) \ {t}
    BY <1>1, <1>2, <1>5 DEF Unsummarised
  <2>2. IsFiniteSet(Unsummarised(d)) /\ Counts(d)
        /\ daily[d].pnl + UnsummarisedPnl(d) = RowsPnl(ClosedRows(d))
    BY DEF Balanced
  <2>3. /\ IsFiniteSet(Unsummarised(d)')
        /\ \A R : /\ Cardinality(WaitingIn(d, R)') \in Nat
                  /\ Cardinality(WaitingIn(d, R))
                       = Cardinality(WaitingIn(d, R)') + (IF r \in R THEN 1 ELSE 0)
        /\ UnsummarisedPnl(d)' \in Int /\ BetPnl(t) \in Int
        /\ UnsummarisedPnl(d) = UnsummarisedPnl(d)' + BetPnl(t)
    BY <1>1, <2>1, <2>2, WaitingGone
  <2>4. \A R : ClosedIn(d, R)' = ClosedIn(d, R)
    BY <1>2 DEF ClosedIn
  <2>5. RowsPnl(ClosedRows(d))' = RowsPnl(ClosedRows(d))
    BY <1>2 DEF RowsPnl, RowPnl
  <2>6. r \in Results
    BY <2>1, <2>2, BalanceTypes
  <2>7. /\ daily[d].trades \in Nat /\ daily[d].wins \in Nat /\ daily[d].losses \in Nat
        /\ daily[d].pnl \in Int
    BY <1>3 DEF Summary
  <2>8. /\ daily'[d].trades = daily[d].trades + 1
        /\ daily'[d].wins = daily[d].wins + (IF r \in {"win"} THEN 1 ELSE 0)
        /\ daily'[d].losses = daily[d].losses + (IF r \in Losing THEN 1 ELSE 0)
        /\ daily'[d].pnl = daily[d].pnl + BetPnl(t)
    BY <1>3, <1>5
  <2> HIDE DEF e, r
  <2>9. Counts(d)'
    <3>1. daily'[d].trades + Cardinality(WaitingIn(d, Results)') = Cardinality(ClosedIn(d, Results)')
      BY <2>2, <2>3, <2>4, <2>6, <2>7, <2>8 DEF Counts
    <3>2. daily'[d].wins + Cardinality(WaitingIn(d, {"win"})') = Cardinality(ClosedIn(d, {"win"})')
      BY <2>2, <2>3, <2>4, <2>7, <2>8 DEF Counts
    <3>3. daily'[d].losses + Cardinality(WaitingIn(d, Losing)') = Cardinality(ClosedIn(d, Losing)')
      BY <2>2, <2>3, <2>4, <2>7, <2>8 DEF Counts
    <3> QED
      BY <3>1, <3>2, <3>3 DEF Counts
  <2> QED
    BY <2>2, <2>3, <2>5, <2>7, <2>8, <2>9
<1> QED
  BY <1>4, <1>5

\* A new row is open: it counts for nothing yet.
LEMMA StageWriteBalanced ==
  ASSUME Safe, Balanced, NEW t \in Task, StageWrite(t) PROVE Balanced'
<1>1. SupervisorTypeOK /\ pc[t] = "stageWrite" /\ UNCHANGED daily
  BY DEF Safe, TypeOK, StageWrite, storeVars, RecordStagePlaced
<1>2. /\ pc'[t] \in {"free", "placedTell"}
      /\ \A u \in Task : u # t => pc'[u] = pc[u] /\ bet'[u] = bet[u]
  BY <1>1, GotoFacts, EndFacts DEF StageWrite, Labels
<1>3. \/ UNCHANGED stages
      \/ \E row : row.result = "open" /\ stages' = stages \union {row}
  BY DEF StageWrite, storeVars, RecordStagePlaced
<1>4. \A d \in Dates : ClosedRows(d)' = ClosedRows(d)
  BY <1>3 DEF ClosedRows
<1> QED
  BY <1>1, <1>2, <1>4, QuietBalanced DEF ClosedLabels

\* Every step of a supervisor that is neither cancelled nor failed by the
\* database: the other steps neither record a result nor count one.
LEMMA SupervisorBalanced ==
  ASSUME Safe, Books, Balanced, NEW t \in Task, Step(t) \/ BrokerAnswers(t)
  PROVE  Balanced'
<1> USE DEF ClosedLabels
<1>1. SupervisorTypeOK
  BY DEF Safe, TypeOK
<1>2. ASSUME UNCHANGED <<stages, daily>>, pc[t] \notin ClosedLabels, pc'[t] \notin ClosedLabels,
             \A u \in Task : u # t => pc'[u] = pc[u] /\ bet'[u] = bet[u]
      PROVE  Balanced'
  BY <1>2, QuietBalanced DEF ClosedRows
<1>3. ASSUME NEW label \in Labels, Goto(t, label), UNCHANGED <<stages, daily>>,
             \A u \in Task : u # t => bet'[u] = bet[u],
             pc[t] \notin ClosedLabels, label \notin ClosedLabels
      PROVE  Balanced'
  BY <1>1, <1>2, <1>3, GotoFacts
<1>4. CASE CheckDailyLimit(t) \/ RejectWrite(t) \/ StartCascade(t) \/ ReceivedTell(t)
           \/ FireEvent(t) \/ ExpiredTell(t)
  BY <1>3, <1>4
     DEF CheckDailyLimit, RejectWrite, StartCascade, ReceivedTell, FireEvent, Due, ExpiredTell,
         UpdateSignalState, storeVars, Labels
<1>5. CASE FireGale(t) \/ FireWrite(t)
  <2>1. \A u \in Task : u # t => bet'[u] = bet[u]
    BY <1>1, <1>5 DEF FireGale, FireWrite, OpenBet, SupervisorTypeOK
  <2> QED
    BY <1>3, <1>5, <2>1 DEF FireGale, Due, FireWrite, UpdateSignalState, storeVars, Labels
<1>6. CASE \/ PlaceOk(t) \/ PlaceUnsupported(t) \/ PairTell(t) \/ ErrorWrite(t)
           \/ PlacedTell(t) \/ ResultTell(t)
  BY <1>3, <1>6
     DEF PlaceOk, PlaceUnsupported, PairTell, ErrorWrite, PlacedTell, ResultTell,
         UpdateSignalState, storeVars, Labels
<1>7. CASE RejectTell(t) \/ DuplicateAtIntake(t) \/ PlaceRaises(t) \/ CompleteTell(t)
  <2>1. End(t) /\ UNCHANGED <<stages, daily>> /\ pc[t] \notin ClosedLabels
    BY <1>7 DEF RejectTell, DuplicateAtIntake, PlaceRaises, CompleteTell, storeVars
  <2> QED
    BY <1>1, <1>2, <2>1, EndFacts
<1>8. CASE StateWrite(t)
  <2>1. /\ UNCHANGED <<bet, stages, daily>> /\ pc[t] = "stateWrite" /\ pc'[t] = "dailyWrite"
        /\ \A u \in Task : u # t => pc'[u] = pc[u]
    BY <1>1, <1>8, GotoFacts DEF StateWrite, UpdateSignalState, Labels
  <2> QED
    BY <2>1, QuietBalanced DEF ClosedRows
<1>9. CASE WaitTimesOut(t) \/ BrokerAnswers(t)
  <2>1. /\ UNCHANGED <<stages, daily>> /\ pc[t] = "waiting" /\ pc'[t] = "resultWrite"
        /\ \A u \in Task : u # t => pc'[u] = pc[u] /\ bet'[u] = bet[u]
    BY <1>1, <1>9, GotoFacts
       DEF WaitTimesOut, BrokerAnswers, GotResult, SupervisorTypeOK, storeVars, Labels
  <2> QED
    BY <1>2, <2>1
<1> QED
  BY <1>4, <1>5, <1>6, <1>7, <1>8, <1>9, StageWriteBalanced, ResultWriteBalanced,
     DailyWriteBalanced DEF Step

\* Every step of an undisturbed life.
LEMMA NextBalanced ==
  ASSUME Undisturbed, Safe, Books, Calm, Balanced, [Next]_vars PROVE Balanced'
<1>1. CASE \E t \in Task : SupervisorStep(t) \/ Answer(t)
  BY <1>1, SupervisorBalanced DEF SupervisorStep, Answer
<1>2. CASE \E t \in Task : DatabaseError(t) \/ Cancel(t)
  BY <1>2 DEF DatabaseError, DbFails, Cancel, Undisturbed, Calm, CalmProcess
<1>3. ASSUME UNCHANGED <<pc, bet, stages, daily>> PROVE Balanced'
  BY <1>3, QuietBalanced DEF ClosedRows
<1>4. CASE \E s \in Signals :
             Deliver(s) \/ Upsert(s) \/ UpsertFails(s) \/ Put(s) \/ TimeoutRow(s)
  BY <1>3, <1>4
     DEF Deliver, Upsert, UpsertSignal, UpsertFails, Put, TimeoutRow, supervisorVars,
         storeVars, taskVars
<1>5. CASE \E s \in Signals, k \in Slots : AdoptRow(s, k)
  BY <1>5 DEF AdoptRow, NextRow, Calm, CalmProcess
<1>6. ASSUME NEW k \in Slots, Dequeue(k) PROVE Balanced'
  <2> DEFINE t == <<Head(queue), k>>
  <2>1. t \in Task
    BY <1>6 DEF Dequeue, Safe, TypeOK, Task
  <2>2. Spawn(t) /\ UNCHANGED <<stages, daily, bet>>
    BY <1>6 DEF Dequeue, Spawn, storeVars
  <2> HIDE DEF t
  <2>3. pc[t] = "free" /\ pc'[t] = "limit" /\ \A u \in Task : u # t => pc'[u] = pc[u]
    BY <2>1, <2>2, GotoFacts DEF Spawn, Safe, TypeOK, Labels
  <2> QED
    BY <2>2, <2>3, QuietBalanced DEF ClosedRows, ClosedLabels
<1>7. CASE \E k \in Slots : TimeoutAdopt(k)
  BY <1>7 DEF TimeoutAdopt, Calm, CalmProcess
<1>8. CASE QueryActive \/ TimeoutRead \/ TimeoutWrite \/ StartScheduler \/ Tick
           \/ UNCHANGED vars
  BY <1>3, <1>8
     DEF QueryActive, TimeoutRead, TimeoutWrite, UpdateSignalState, StartScheduler, Tick,
         vars, supervisorVars, storeVars, taskVars
<1>9. CASE Stop \/ Crash \/ Boot
  BY <1>9 DEF Stop, Crash, Boot, Undisturbed, Calm, CalmProcess, Safe, TypeOK
<1> QED
  BY <1>1, <1>2, <1>4, <1>5, <1>6, <1>7, <1>8, <1>9 DEF Next

\* Empty tables balance.
LEMMA InitBalanced == ASSUME Init PROVE Balanced
<1> SUFFICES ASSUME NEW d \in Dates
             PROVE  /\ IsFiniteSet(Unsummarised(d)) /\ Counts(d)
                    /\ daily[d].pnl + UnsummarisedPnl(d) = RowsPnl(ClosedRows(d))
  BY DEF Balanced
<1>1. Unsummarised(d) = {} /\ ClosedRows(d) = {}
  BY DEF Init, StoreInit, SupervisorInit, NoTasks, Unsummarised, ClosedRows
<1>2. daily[d] = EmptySummary
  BY DEF Init, StoreInit
<1>3. Counts(d)
  <2>1. \A R : WaitingIn(d, R) = {} /\ ClosedIn(d, R) = {}
    BY <1>1 DEF WaitingIn, ClosedIn
  <2> QED
    BY <1>2, <2>1, FS_EmptySet DEF Counts, EmptySummary
<1>4. UnsummarisedPnl(d) = 0
  <2> DEFINE f == [t \in {} |-> BetPnl(t)]
  <2>1. UnsummarisedPnl(d) = SumFunction(f)
    BY <1>1 DEF UnsummarisedPnl
  <2>2. DOMAIN f = {}
    OBVIOUS
  <2> HIDE DEF f
  <2> QED
    BY <2>1, <2>2, SumEmpty
<1>5. RowsPnl(ClosedRows(d)) = 0
  BY <1>1, RowsPnlEmpty
<1> QED
  BY <1>1, <1>2, <1>3, <1>4, <1>5, FS_EmptySet DEF EmptySummary

\* Without crashes and database errors no interleaving of supervisors loses a
\* result from the daily summary, repeats one or miscounts its money.
THEOREM SummaryIsExact == Undisturbed => (Spec => []DailyExact)
<1> SUFFICES ASSUME Undisturbed PROVE Spec => []DailyExact
  OBVIOUS
<1>1. Init => Balanced
  BY InitBalanced
<1>2. Safe /\ Books /\ Calm /\ Balanced /\ [Next]_vars => Balanced'
  BY NextBalanced
<1>3. Safe /\ Books /\ Balanced => DailyExact
  <2> SUFFICES ASSUME Safe, Books, Balanced, NEW d \in Dates
               PROVE  /\ daily[d].trades + Cardinality(Unsummarised(d)) = Cardinality(ClosedRows(d))
                      /\ daily[d].wins + Cardinality({t \in Unsummarised(d) : bet[t].result = "win"})
                           = Cardinality({row \in ClosedRows(d) : row.result = "win"})
                      /\ daily[d].losses
                           + Cardinality({t \in Unsummarised(d) : bet[t].result \in Losing})
                           = Cardinality({row \in ClosedRows(d) : row.result \in Losing})
                      /\ daily[d].pnl + UnsummarisedPnl(d) = RowsPnl(ClosedRows(d))
    BY DEF DailyExact
  <2>1. /\ IsFiniteSet(Unsummarised(d)) /\ Counts(d)
        /\ daily[d].pnl + UnsummarisedPnl(d) = RowsPnl(ClosedRows(d))
    BY DEF Balanced
  <2>2. WaitingIn(d, Results) = Unsummarised(d)
    BY <2>1, BalanceTypes DEF WaitingIn
  <2>3. ClosedIn(d, Results) = ClosedRows(d)
    BY DEF ClosedIn, ClosedRows, Safe, TypeOK, StoreTypeOK, StageRow
  <2>4. /\ WaitingIn(d, {"win"}) = {t \in Unsummarised(d) : bet[t].result = "win"}
        /\ ClosedIn(d, {"win"}) = {row \in ClosedRows(d) : row.result = "win"}
    BY DEF WaitingIn, ClosedIn
  <2> QED
    BY <2>1, <2>2, <2>3, <2>4 DEF Counts, WaitingIn, ClosedIn
<1> QED
  BY <1>1, <1>2, <1>3, SafeInvariant, BooksInvariant, CalmInvariant, PTL DEF Spec
=============================================================================
