---------------------------- MODULE BrokersProofs ----------------------------
(***************************************************************************)
(* Mt5Broker and DryRunBroker keep the promises of base.py: proofs about   *)
(* module Brokers for any bets, any number of threads and any hung or      *)
(* failing calls.  Served relates what the pool holds of an order to what  *)
(* its caller awaits and to what the server has done.                      *)
(***************************************************************************)
EXTENDS Brokers, TLAPS

\* What the pool holds of b's order.
SendServed(b) ==
  /\ job[Send(b)] \in {"none", "queued", "running"} \union SendAnswers
  /\ job[Send(b)] = "queued" => call[b] = "placing"
  /\ job[Send(b)] = "running" => call[b] \in {"placing", "gone"}
  /\ job[Send(b)] \in SendAnswers => call[b] = "placing"
  /\ job[Send(b)] = "done" => orders[b] = 1
  /\ job[Send(b)] = "reject" => orders[b] = 0

\* Before the order is sent there is none.
NotYetSent(b) ==
  call[b] \in {"idle", "lookup"} => job[Send(b)] = "none" /\ orders[b] = 0

Served == TypeOK /\ \A b \in Bets : SendServed(b) /\ NotYetSent(b)

-----------------------------------------------------------------------------
\* Each bet's send, poll and close are jobs, all of them different.
LEMMA JobsOfBets ==
  /\ \A b \in Bets : Send(b) \in Jobs /\ Poll(b) \in Jobs /\ Close(b) \in Jobs
  /\ Shutdown \in Jobs
  /\ \A b, c \in Bets :
       /\ Send(b) # Poll(c) /\ Send(b) # Close(c) /\ Send(b) # Shutdown
       /\ Send(b) = Send(c) => b = c
BY DEF Jobs, Send, Poll, Close, Shutdown

\* What place makes of the three answers.
LEMMA Verdicts ==
  /\ Verdict("done") = "traded"
  /\ Verdict("reject") = "refused"
  /\ Verdict("failed") = "failed"
BY DEF Verdict

LEMMA ServedInit == Init => Served
PROOF
<1> SUFFICES ASSUME Init PROVE Served
  OBVIOUS
<1>1. TypeOK
  BY DEF Init, TypeOK, Calls, Signs
<1>2. ASSUME NEW b \in Bets PROVE SendServed(b) /\ NotYetSent(b)
  BY <1>2, JobsOfBets DEF Init, SendServed, NotYetSent, SendAnswers
<1>3. QED BY <1>1, <1>2 DEF Served

\* A step that moves neither the calls, nor the orders, nor the job of an order.
LEMMA ServedAside ==
  ASSUME Served, TypeOK', UNCHANGED <<call, orders>>,
         \A b \in Bets : job'[Send(b)] = job[Send(b)]
  PROVE  Served'
BY DEF Served, SendServed, NotYetSent

\* A step that moves the call of one bet, from an await that follows the order
\* to another, and no order.
LEMMA ServedLater ==
  ASSUME Served, NEW b \in Bets, NEW answer \in Calls \ {"idle", "lookup", "placing"},
         call[b] \in {"traded", "waiting"},
         Become(b, answer), TypeOK', UNCHANGED orders,
         \A c \in Bets : job'[Send(c)] = job[Send(c)]
  PROVE  Served'
BY DEF Served, TypeOK, SendServed, NotYetSent, Become, SendAnswers

-----------------------------------------------------------------------------
(* The pool and the terminal.                                              *)

LEMMA StartJobServed ==
  ASSUME Served, NEW j \in Jobs, StartJob(j) PROVE Served'
PROOF
<1>1. TypeOK'
  BY DEF Served, TypeOK, StartJob, Set, server
<1>2. ASSUME NEW b \in Bets PROVE SendServed(b)' /\ NotYetSent(b)'
  BY <1>2, JobsOfBets DEF Served, TypeOK, SendServed, NotYetSent, StartJob, Set, server,
                          SendAnswers
<1>3. QED BY <1>1, <1>2 DEF Served

LEMMA ExecuteServed ==
  ASSUME Served, NEW b \in Bets, Execute(b) PROVE Served'
PROOF
<1>1. TypeOK'
  BY DEF Served, TypeOK, Execute
<1>2. ASSUME NEW c \in Bets PROVE SendServed(c)' /\ NotYetSent(c)'
  BY <1>2, JobsOfBets DEF Served, TypeOK, SendServed, NotYetSent, Execute, SendAnswers
<1>3. QED BY <1>1, <1>2 DEF Served

LEMMA SendEndsServed ==
  ASSUME Served, NEW b \in Bets, SendEnds(b) PROVE Served'
PROOF
<1>1. PICK answer \in SendAnswers :
        /\ answer = "done" => orders[b] = 1
        /\ answer = "reject" => orders[b] = 0
        /\ Set(Send(b), IF call[b] = "placing" THEN answer ELSE "none")
  BY DEF SendEnds
<1>2. UNCHANGED <<dryRun, link, call, orders, position, profit, known>>
  BY DEF SendEnds, server
<1>3. TypeOK'
  BY <1>1, <1>2, JobsOfBets DEF Served, TypeOK, Set
<1>4. ASSUME NEW c \in Bets PROVE SendServed(c)' /\ NotYetSent(c)'
  <2>1. CASE c = b
    BY <1>1, <1>2, <2>1, JobsOfBets
       DEF Served, TypeOK, SendServed, NotYetSent, Set, SendEnds, SendAnswers
  <2>2. CASE c # b
    BY <1>1, <1>2, <2>2, JobsOfBets DEF Served, TypeOK, SendServed, NotYetSent, Set
  <2>3. QED BY <2>1, <2>2
<1>5. QED BY <1>3, <1>4 DEF Served

\* The jobs that are no orders end, and the server closes positions.
LEMMA AsideServed ==
  ASSUME Served, NEW b \in Bets, PollEnds(b) \/ ServerCloses(b) \/ CloseEnds(b)
  PROVE  Served'
PROOF
<1> USE JobsOfBets DEF Served, TypeOK, Set, server
<1>1. CASE PollEnds(b)
  BY <1>1, ServedAside DEF PollEnds
<1>2. CASE ServerCloses(b)
  BY <1>2, BrokersAssumption, ServedAside DEF ServerCloses, Signs
<1>3. CASE CloseEnds(b)
  BY <1>3, BrokersAssumption, ServedAside DEF CloseEnds, Signs
<1>4. QED BY <1>1, <1>2, <1>3

-----------------------------------------------------------------------------
(* The calls of the supervisors.                                           *)

\* A step of one bet: the other bets keep what they had.
LEMMA ServedOfOne ==
  ASSUME Served, TypeOK', NEW b \in Bets, NEW answer, Become(b, answer),
         \A c \in Bets \ {b} : orders'[c] = orders[c] /\ job'[Send(c)] = job[Send(c)],
         SendServed(b)', NotYetSent(b)'
  PROVE  Served'
PROOF
<1>1. ASSUME NEW c \in Bets \ {b} PROVE SendServed(c)' /\ NotYetSent(c)'
  <2>1. call'[c] = call[c]
    BY DEF Served, TypeOK, Become
  <2>2. QED BY <1>1, <2>1 DEF Served, SendServed, NotYetSent
<1>2. QED BY <1>1 DEF Served

LEMMA PlaceServed == ASSUME Served, NEW b \in Bets, Place(b) PROVE Served'
PROOF
<1> USE DEF Served, TypeOK, Place, Become, server
<1>1. CASE PlaceUnconnected(b)
  <2>1. TypeOK' BY <1>1 DEF PlaceUnconnected, Calls
  <2>2. SendServed(b)' /\ NotYetSent(b)'
    BY <1>1 DEF PlaceUnconnected, SendServed, NotYetSent, SendAnswers
  <2>3. QED BY <1>1, <2>1, <2>2, ServedOfOne DEF PlaceUnconnected
<1>2. CASE PlaceCached(b)
  <2>1. TypeOK' BY <1>2, JobsOfBets DEF PlaceCached, Calls, Set
  <2>2. SendServed(b)' /\ NotYetSent(b)'
    BY <1>2, JobsOfBets DEF PlaceCached, SendServed, NotYetSent, SendAnswers, Set
  <2>3. QED BY <1>2, <2>1, <2>2, JobsOfBets, ServedOfOne DEF PlaceCached, Set
<1>3. CASE PlaceUncached(b)
  <2>1. TypeOK' BY <1>3 DEF PlaceUncached, Calls
  <2>2. SendServed(b)' /\ NotYetSent(b)'
    BY <1>3 DEF PlaceUncached, SendServed, NotYetSent, SendAnswers
  <2>3. QED BY <1>3, <2>1, <2>2, ServedOfOne DEF PlaceUncached
<1>4. QED BY <1>1, <1>2, <1>3

LEMMA LookupEndsServed == ASSUME Served, NEW b \in Bets, LookupEnds(b) PROVE Served'
PROOF
<1> USE DEF Served, TypeOK, LookupEnds, Become, server
<1>1. CASE Become(b, "placing") /\ Set(Send(b), "queued")
  <2>1. TypeOK' BY <1>1, JobsOfBets DEF Calls, Set
  <2>2. SendServed(b)' /\ NotYetSent(b)'
    BY <1>1, JobsOfBets DEF SendServed, NotYetSent, SendAnswers, Set
  <2>3. QED BY <1>1, <2>1, <2>2, JobsOfBets, ServedOfOne DEF Set
<1>2. ASSUME NEW answer \in {"refused", "failed"}, Become(b, answer), UNCHANGED job
      PROVE  Served'
  <2>1. TypeOK' BY <1>2 DEF Calls
  <2>2. SendServed(b)' /\ NotYetSent(b)'
    BY <1>2 DEF SendServed, NotYetSent, SendAnswers
  <2>3. QED BY <1>2, <2>1, <2>2, ServedOfOne
<1>3. QED BY <1>1, <1>2

LEMMA PlaceReturnsServed == ASSUME Served, NEW b \in Bets, PlaceReturns(b) PROVE Served'
PROOF
<1> USE DEF Served, TypeOK, PlaceReturns, Become, Set, server
<1>1. Verdict(job[Send(b)]) \in {"traded", "refused", "failed"}
  BY Verdicts DEF SendAnswers
<1>2. TypeOK'
  BY <1>1, JobsOfBets DEF Calls, Signs
<1>3. SendServed(b)' /\ NotYetSent(b)'
  BY <1>1, JobsOfBets DEF SendServed, NotYetSent, SendAnswers
<1>4. QED BY <1>2, <1>3, JobsOfBets, ServedOfOne

\* wait_result, up to its answer.
LEMMA WaitingServed ==
  ASSUME Served, NEW b \in Bets,
         \/ Wait(b) \/ PollReturns(b) \/ TimesOut(b) \/ DryWait(b) \/ DryAnswer(b)
  PROVE  Served'
PROOF
<1> USE JobsOfBets DEF Served, TypeOK, Become, Set, server
<1>1. CASE Wait(b)
  <2>1. TypeOK' BY <1>1 DEF Wait, Calls, Results
  <2>2. CASE link = "up"
    BY <1>1, <2>1, <2>2, ServedLater DEF Wait, Calls
  <2>3. CASE link = "closed"
    BY <1>1, <2>1, <2>3, ServedLater DEF Wait, Calls, Results
  <2>4. QED BY <2>2, <2>3
<1>2. CASE PollReturns(b)
  <2>1. PICK answer \in {"waiting", "error"} \union Signs : Become(b, answer)
    BY <1>2 DEF PollReturns, PollAnswers
  <2>2. TypeOK' BY <1>2, <2>1 DEF PollReturns, Calls, Results
  <2>3. /\ answer \in Calls \ {"idle", "lookup", "placing"}
        /\ call[b] \in {"traded", "waiting"} /\ UNCHANGED orders
        /\ \A c \in Bets : job'[Send(c)] = job[Send(c)]
    BY <1>2 DEF PollReturns, Calls, Results, Signs
  <2>4. QED BY <2>1, <2>2, <2>3, ServedLater
<1>3. CASE TimesOut(b)
  <2>1. TypeOK' BY <1>3 DEF TimesOut, Leaves, Calls, Results
  <2>2. QED BY <1>3, <2>1, ServedLater DEF TimesOut, Leaves, Calls, Results
<1>4. CASE DryWait(b)
  BY <1>4, ServedLater DEF DryWait, Calls
<1>5. CASE DryAnswer(b)
  <2>1. PICK answer \in Results : Become(b, answer)
    BY <1>5 DEF DryAnswer
  <2>2. TypeOK' BY <1>5, <2>1 DEF DryAnswer, Calls
  <2>3. QED BY <1>5, <2>1, <2>2, ServedLater DEF DryAnswer, Calls, Results, Signs
<1>6. QED BY <1>1, <1>2, <1>3, <1>4, <1>5

\* Cancelled in place, a supervisor takes an order along that no thread began.
LEMMA AbandonServed == ASSUME Served, NEW b \in Bets, Abandon(b) PROVE Served'
PROOF
<1> USE JobsOfBets DEF Served, TypeOK, Abandon, Leaves, Become, Set, server
<1>1. TypeOK' BY DEF Calls
<1>2. SendServed(b)' /\ NotYetSent(b)'
  BY DEF SendServed, NotYetSent, SendAnswers
<1>3. QED BY <1>1, <1>2, ServedOfOne

LEMMA DryPlaceServed == ASSUME Served, NEW b \in Bets, DryPlace(b) PROVE Served'
PROOF
<1> USE DEF Served, TypeOK, DryPlace, Become
<1>1. TypeOK' BY DEF Calls
<1>2. SendServed(b)' /\ NotYetSent(b)'
  BY DEF SendServed, NotYetSent, SendAnswers
<1>3. QED BY <1>1, <1>2, ServedOfOne

\* close_position and close.
LEMMA ClosingServed ==
  ASSUME Served, (\E b \in Bets : ClosePosition(b)) \/ CloseBroker \/ ShutdownEnds
  PROVE  Served'
PROOF
<1> USE JobsOfBets, ServedAside DEF Served, TypeOK, Set, server
<1>1. ASSUME NEW b \in Bets, ClosePosition(b) PROVE Served'
  BY <1>1 DEF ClosePosition
<1>2. CASE CloseBroker
  BY <1>2 DEF CloseBroker
<1>3. CASE ShutdownEnds
  BY <1>3 DEF ShutdownEnds
<1>4. QED BY <1>1, <1>2, <1>3

LEMMA ServedStep == Served /\ [Next]_vars => Served'
PROOF
<1> SUFFICES ASSUME Served, [Next]_vars PROVE Served'
  OBVIOUS
<1>1. CASE \E j \in Jobs : StartJob(j)
  BY <1>1, StartJobServed
<1>2. ASSUME NEW b \in Bets, Execute(b) \/ SendEnds(b) PROVE Served'
  BY <1>2, ExecuteServed, SendEndsServed
<1>3. ASSUME NEW b \in Bets, PollEnds(b) \/ ServerCloses(b) \/ CloseEnds(b) PROVE Served'
  BY <1>3, AsideServed
<1>4. ASSUME NEW b \in Bets, Place(b) \/ LookupEnds(b) \/ PlaceReturns(b) \/ DryPlace(b)
      PROVE  Served'
  BY <1>4, PlaceServed, LookupEndsServed, PlaceReturnsServed, DryPlaceServed
<1>5. ASSUME NEW b \in Bets,
             Wait(b) \/ PollReturns(b) \/ TimesOut(b) \/ DryWait(b) \/ DryAnswer(b)
      PROVE  Served'
  BY <1>5, WaitingServed
<1>6. ASSUME NEW b \in Bets, Abandon(b) PROVE Served'
  BY <1>6, AbandonServed
<1>7. CASE (\E b \in Bets : ClosePosition(b)) \/ CloseBroker \/ ShutdownEnds
  BY <1>7, ClosingServed
<1>8. CASE UNCHANGED vars
  BY <1>8 DEF vars, Served, TypeOK, SendServed, NotYetSent
<1>9. QED BY <1>1, <1>2, <1>3, <1>4, <1>5, <1>6, <1>7, <1>8 DEF Next

LEMMA AlwaysServed == Spec => []Served
BY ServedInit, ServedStep, PTL DEF Spec

-----------------------------------------------------------------------------
(* What follows.                                                           *)

\* Type correctness of the brokers, the pool and the server.
THEOREM BrokersTyped == Spec => []TypeOK
BY AlwaysServed, PTL DEF Served

\* A supervisor cancelled in place takes an order along that no thread of the
\* pool has begun: nothing is sent for a caller that is gone.
THEOREM QueuedOrdersAwaited == Spec => []QueuedSendsAwaited
PROOF
<1>1. Served => QueuedSendsAwaited
  BY DEF Served, SendServed, QueuedSendsAwaited
<1>2. QED BY <1>1, AlwaysServed, PTL

-----------------------------------------------------------------------------
(* The contract of base.py.  To the supervisors a lookup is a part of      *)
(* place.                                                                  *)

Told(answer) == IF answer = "lookup" THEN "placing" ELSE answer

\* A step of one call is one of the contract's.
LEMMA TellsOne ==
  ASSUME Served, NEW b \in Bets, NEW answer, Become(b, answer)
  PROVE  Contract!Become(b, Told(answer))
BY DEF Served, TypeOK, Become, Contract!Become, Told

LEMMA TellsNothing ==
  ASSUME UNCHANGED <<call, orders>> PROVE UNCHANGED Contract!bcvars
BY DEF Contract!bcvars

\* place, and the execution of its order.
LEMMA PlaceKept ==
  ASSUME Served, NEW b \in Bets,
         Place(b) \/ LookupEnds(b) \/ PlaceReturns(b) \/ Execute(b) \/ DryPlace(b)
  PROVE  [Contract!Serve]_Contract!bcvars
PROOF
<1> USE DEF Contract!Serve, server
<1>1. CASE Place(b)
  <2>1. call[b] = "idle" /\ UNCHANGED orders
    BY <1>1 DEF Place
  <2>2. CASE Become(b, "failed")
    BY <2>1, <2>2, TellsOne DEF Contract!Return, Told
  <2>3. CASE Become(b, "placing") \/ Become(b, "lookup")
    BY <2>1, <2>3, TellsOne DEF Contract!Place, Told
  <2>4. QED BY <1>1, <2>2, <2>3 DEF Place, PlaceUnconnected, PlaceCached, PlaceUncached
<1>2. CASE LookupEnds(b)
  <2>1. call[b] = "lookup" /\ orders[b] = 0 /\ UNCHANGED orders
    BY <1>2 DEF LookupEnds, Served, NotYetSent
  <2>2. CASE Become(b, "placing")
    BY <2>1, <2>2 DEF Served, TypeOK, Become, Contract!bcvars
  <2>3. CASE Become(b, "refused") \/ Become(b, "failed")
    BY <2>1, <2>3, TellsOne DEF Contract!Return, Told
  <2>4. QED BY <1>2, <2>2, <2>3 DEF LookupEnds
<1>3. CASE PlaceReturns(b)
  <2>1. /\ call[b] = "placing" /\ UNCHANGED orders
        /\ Become(b, Verdict(job[Send(b)]))
        /\ job[Send(b)] \in SendAnswers
    BY <1>3 DEF PlaceReturns
  <2>2. CASE job[Send(b)] = "done"
    BY <2>1, <2>2, Verdicts, TellsOne DEF Contract!Return, Told, Served, SendServed
  <2>3. CASE job[Send(b)] = "reject"
    BY <2>1, <2>3, Verdicts, TellsOne DEF Contract!Return, Told, Served, SendServed
  <2>4. CASE job[Send(b)] = "failed"
    BY <2>1, <2>4, Verdicts, TellsOne DEF Contract!Return, Told
  <2>5. QED BY <2>1, <2>2, <2>3, <2>4 DEF SendAnswers
<1>4. CASE Execute(b)
  <2>1. call[b] \in {"placing", "gone"}
    BY <1>4 DEF Execute, Served, SendServed
  <2>2. QED
    BY <1>4, <2>1 DEF Execute, Contract!Execute, Contract!Order
<1>5. CASE DryPlace(b)
  <2>1. call[b] = "idle" /\ orders[b] = 0
    BY <1>5 DEF DryPlace, Served, NotYetSent
  <2>2. QED
    BY <1>5, <2>1, TellsOne DEF DryPlace, Contract!Deal, Contract!Order, Told
<1>6. QED BY <1>1, <1>2, <1>3, <1>4, <1>5

\* wait_result answers once, and only a bet that was placed.
LEMMA WaitKept ==
  ASSUME Served, NEW b \in Bets,
         \/ Wait(b) \/ PollReturns(b) \/ TimesOut(b) \/ DryWait(b) \/ DryAnswer(b)
  PROVE  [Contract!Serve]_Contract!bcvars
PROOF
<1> USE DEF Contract!Serve, server
<1>1. ASSUME call[b] \in {"traded", "waiting"}, UNCHANGED orders,
             NEW answer \in Results, Become(b, answer)
      PROVE  Contract!Answer(b)
  BY <1>1, TellsOne DEF Contract!Answer, Contract!BrokerResults, Told, Results, Signs
<1>2. ASSUME call[b] \in {"traded", "waiting"}, UNCHANGED orders, Become(b, "waiting")
      PROVE  Contract!Wait(b) \/ UNCHANGED Contract!bcvars
  <2>1. CASE call[b] = "traded"
    BY <1>2, <2>1, TellsOne DEF Contract!Wait, Told
  <2>2. CASE call[b] = "waiting"
    BY <1>2, <2>2, TellsNothing DEF Served, TypeOK, Become
  <2>3. QED BY <1>2, <2>1, <2>2
<1>3. CASE Wait(b)
  BY <1>1, <1>2, <1>3 DEF Wait, Results
<1>4. CASE PollReturns(b)
  <2>1. /\ call[b] = "waiting" /\ UNCHANGED orders
        /\ Become(b, "waiting") \/ \E answer \in Results : Become(b, answer)
    BY <1>4 DEF PollReturns, PollAnswers, Results, Served, TypeOK
  <2>2. QED BY <1>1, <1>2, <2>1
<1>5. CASE TimesOut(b)
  BY <1>1, <1>5 DEF TimesOut, Results
<1>6. CASE DryWait(b)
  BY <1>2, <1>6 DEF DryWait
<1>7. CASE DryAnswer(b)
  BY <1>1, <1>7 DEF DryAnswer
<1>8. QED BY <1>3, <1>4, <1>5, <1>6, <1>7

\* Both brokers do what base.py promises: one order per bet at the most, a
\* trade_id only for an executed one, a refusal only without one.
THEOREM ContractKept == Spec => ImplementsContract
PROOF
<1>1. Init => Contract!Start
  BY DEF Init, Contract!Start
<1>2. Served /\ [Next]_vars => [Contract!Serve]_Contract!bcvars
  <2> SUFFICES ASSUME Served, [Next]_vars PROVE [Contract!Serve]_Contract!bcvars
    OBVIOUS
  <2> USE DEF server
  <2>1. CASE \E j \in Jobs : StartJob(j)
    BY <2>1, TellsNothing DEF StartJob
  <2>2. ASSUME NEW b \in Bets,
               Place(b) \/ LookupEnds(b) \/ PlaceReturns(b) \/ Execute(b) \/ DryPlace(b)
        PROVE  [Contract!Serve]_Contract!bcvars
    BY <2>2, PlaceKept
  <2>3. ASSUME NEW b \in Bets,
               Wait(b) \/ PollReturns(b) \/ TimesOut(b) \/ DryWait(b) \/ DryAnswer(b)
        PROVE  [Contract!Serve]_Contract!bcvars
    BY <2>3, WaitKept
  <2>4. ASSUME NEW b \in Bets, Abandon(b)
        PROVE  [Contract!Serve]_Contract!bcvars
    BY <2>4, TellsOne DEF Abandon, Contract!Abandon, Contract!Serve, Told
  <2>5. ASSUME NEW b \in Bets,
               SendEnds(b) \/ PollEnds(b) \/ ServerCloses(b) \/ ClosePosition(b) \/ CloseEnds(b)
        PROVE  [Contract!Serve]_Contract!bcvars
    BY <2>5, TellsNothing DEF SendEnds, PollEnds, ServerCloses, ClosePosition, CloseEnds
  <2>6. CASE CloseBroker \/ ShutdownEnds
    BY <2>6, TellsNothing DEF CloseBroker, ShutdownEnds
  <2>7. CASE UNCHANGED vars
    BY <2>7, TellsNothing DEF vars
  <2>8. QED BY <2>1, <2>2, <2>3, <2>4, <2>5, <2>6, <2>7 DEF Next
<1>3. QED
  BY <1>1, <1>2, AlwaysServed, PTL DEF Spec, ImplementsContract, Contract!BCSpec
=============================================================================
