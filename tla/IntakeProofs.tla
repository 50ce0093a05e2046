---------------------------- MODULE IntakeProofs ----------------------------
(***************************************************************************)
(* The listener's handler, for any signals, any number of events, any      *)
(* length of the day and any zone: proofs about module Intake.             *)
(***************************************************************************)
EXTENDS Intake, TLAPS

-----------------------------------------------------------------------------
(* Dates and instants.                                                     *)

\* An instant has one date and one time of the day.
LEMMA OneDate ==
  ASSUME NEW d \in Int, NEW c \in Int, NEW t \in 0..(Day - 1), NEW s \in 0..(Day - 1),
         d * Day + t = c * Day + s
  PROVE  d = c /\ t = s
PROOF
<1> Day \in Nat \ {0}
  BY IntakeAssumption
<1>1. ASSUME NEW x \in Int, NEW y \in Int, NEW u \in 0..(Day - 1), NEW v \in 0..(Day - 1),
             x < y
      PROVE  x * Day + u < y * Day + v
  <2>1. PICK k \in Nat \ {0} : y = x + k
    BY <1>1, y - x \in Nat \ {0}
  <2>2. y * Day = x * Day + k * Day
    BY <2>1
  <2>3. k * Day >= Day
    <3>1. k * Day = (k - 1) * Day + Day
      BY <2>1
    <3>2. (k - 1) * Day >= 0
      BY <2>1
    <3>3. QED BY <2>1, <3>1, <3>2
  <2>4. QED BY <2>2, <2>3
<1>2. d = c
  BY <1>1
<1>3. QED BY <1>2

\* Division finds them.
LEMMA DateFound ==
  ASSUME NEW d \in Int, NEW t \in 0..(Day - 1)
  PROVE  (d * Day + t) \div Day = d /\ (d * Day + t) % Day = t
PROOF
<1> Day \in Nat \ {0}
  BY IntakeAssumption
<1> DEFINE x == d * Day + t
           q == x \div Day
           r == x % Day
<1>1. x \in Int
  OBVIOUS
<1>2. q \in Int /\ r \in 0..(Day - 1) /\ x = q * Day + r
  BY <1>1, SMT
<1>3. QED BY <1>2, OneDate

\* The clock's functions and the signal's identity have their types, and the
\* instant of a time of the day falls on the day that it was made for.
LEMMA ClockTyped ==
  /\ \A n \in Int : DateInTz(n) \in Int
  /\ \A time \in Nat, date \in Int : HhmmToUnix(time, date) \in Int
  /\ \A t \in TextType, date \in Int : SignalId(t, date) \in SignalIds
PROOF
<1>1. Day \in Nat \ {0} /\ Zone \in Int
  BY IntakeAssumption
<1>2. \A n \in Int : DateInTz(n) \in Int
  BY <1>1, SMT DEF DateInTz
<1>3. \A time \in Nat, date \in Int : HhmmToUnix(time, date) \in Int
  BY <1>1, SMT DEF HhmmToUnix
<1>4. \A t \in TextType, date \in Int : SignalId(t, date) \in SignalIds
  BY DEF SignalId, SignalIds, TextType
<1>5. QED BY <1>2, <1>3, <1>4

LEMMA DayOfInstant ==
  ASSUME NEW date \in Int, NEW time \in 0..(Day - 1)
  PROVE  /\ DateInTz(HhmmToUnix(time, date)) = date
         /\ (HhmmToUnix(time, date) + Zone) % Day = time
PROOF
<1>1. HhmmToUnix(time, date) + Zone = date * Day + time
  BY IntakeAssumption DEF HhmmToUnix
<1>2. QED BY <1>1, DateFound DEF DateInTz

LEMMA OneInstant ==
  ASSUME NEW d \in Int, NEW c \in Int, NEW t \in 0..(Day - 1), NEW s \in 0..(Day - 1),
         HhmmToUnix(t, d) = HhmmToUnix(s, c)
  PROVE  d = c /\ t = s
PROOF
<1>1. d * Day + t = c * Day + s
  BY IntakeAssumption DEF HhmmToUnix
<1>2. QED BY <1>1, OneDate

-----------------------------------------------------------------------------
(* The parser.                                                             *)

\* Its order of checks: a signal is a genuine one, and every reason is true.
LEMMA Parsed ==
  ASSUME NEW t \in TextType, t.header # "blank"
  PROVE  /\ ParseSignal(t) = "signal" <=> Genuine(t)
         /\ ParseSignal(t) # "signal" =>
              ParseSignal(t) \in Reasons /\ TrueOf(ParseSignal(t), t)
PROOF
<1> USE DEF TextType, Reasons, Genuine
<1>0. Day \in Nat BY IntakeAssumption
<1>1. CASE t.header = "missing"
  <2>1. ParseSignal(t) = "missing_header_line" BY <1>1 DEF ParseSignal
  <2>2. QED BY <1>1, <2>1 DEF TrueOf
<1>2. CASE t.header = "banned"
  <2>1. ParseSignal(t) = "expiration_not_allowed" BY <1>2 DEF ParseSignal
  <2>2. QED BY <1>2, <2>1 DEF TrueOf
<1>3. CASE t.header = "allowed" /\ t.lines = 0
  <2>1. ParseSignal(t) = "missing_signal_line" BY <1>3 DEF ParseSignal
  <2>2. QED BY <1>3, <2>1 DEF TrueOf
<1>4. CASE t.header = "allowed" /\ t.lines > 1
  <2>1. ParseSignal(t) = "multiple_signal_lines" BY <1>4 DEF ParseSignal
  <2>2. QED BY <1>4, <2>1 DEF TrueOf
<1>5. CASE t.header = "allowed" /\ t.lines = 1 /\ t.time >= Day
  <2>1. ParseSignal(t) = "bad_time_format" BY <1>5 DEF ParseSignal
  <2>2. QED BY <1>0, <1>5, <2>1 DEF TrueOf
<1>6. CASE t.header = "allowed" /\ t.lines = 1 /\ t.time < Day
  <2>1. ParseSignal(t) = "signal" BY <1>0, <1>6 DEF ParseSignal
  <2>2. QED BY <1>6, <2>1
<1>7. QED BY <1>0, <1>1, <1>2, <1>3, <1>4, <1>5, <1>6

-----------------------------------------------------------------------------
(* The inductive invariant.                                                *)

RowIds == {row.id : row \in rows}
EarlierIds == {row.id : row \in Earlier}

\* Each row's trigger is that of its id; an event of this life said so, or it was
\* there before.
RowsRead ==
  /\ Earlier \subseteq rows
  /\ \A row \in rows :
       /\ row.id.time \in 0..(Day - 1)
       /\ row.trigger = HhmmToUnix(row.id.time, row.id.date)
  /\ \A row \in rows \ Earlier : \E e \in Events :
         /\ at[e] # "idle" /\ Matches(origin[e]) /\ Genuine(text[e])
         /\ row.id.pair = text[e].pair /\ row.id.dir = text[e].dir
         /\ row.id.time = text[e].time

\* What the call at each await has learnt of its event.
CallsRead ==
  \A e \in Events :
    /\ at[e] = "dm" =>
         /\ Matches(origin[e]) /\ text[e].header # "blank"
         /\ ParseSignal(text[e]) # "signal"
    /\ at[e] \in {"upsert", "put"} => Matches(origin[e]) /\ Genuine(text[e])

\* The calls that are about to queue an id hold it alone.
PutsApart ==
  /\ \A e \in Events : at[e] = "put" => Id(e) \in RowIds \ (Queued \union EarlierIds)
  /\ \A e, d \in Events : at[e] = "put" /\ at[d] = "put" /\ Id(e) = Id(d) => e = d

\* What was told was true of the text.
ToldRead ==
  \A dm \in told :
    at[dm[1]] # "idle" /\ TrueOf(dm[2], text[dm[1]]) /\ Matches(origin[dm[1]])

IntakeInv ==
  TypeOK /\ RowsRead /\ CallsRead /\ PutsApart /\ ToldRead /\ GenuineKept /\ QueuedOnce

LEMMA IntakeInit == Init => IntakeInv
PROOF
<1> SUFFICES ASSUME Init PROVE IntakeInv
  OBVIOUS
<1>1. NoText \in TextType
  <2>1. (CHOOSE p \in Pairs : TRUE) \in Pairs
    BY IntakeAssumption
  <2>2. QED BY <2>1 DEF NoText, TextType
<1>2. TypeOK
  <2>1. now \in Start..MaxNow
    BY IntakeAssumption DEF Init
  <2>2. queue \in Seq(SignalIds)
    BY DEF Init
  <2>3. received \in [Events -> Int]
    BY IntakeAssumption DEF Init
  <2>4. QED BY <1>1, <2>1, <2>2, <2>3, EarlierAssumption DEF Init, TypeOK, RowIds
<1>3. RowsRead /\ CallsRead /\ PutsApart /\ ToldRead
  BY EarlierAssumption DEF Init, RowsRead, CallsRead, PutsApart, ToldRead
<1>4. GenuineKept /\ QueuedOnce
  BY DEF Init, GenuineKept, QueuedOnce
<1>5. QED BY <1>2, <1>3, <1>4 DEF IntakeInv, Init

\* A step of event e's call that leaves the rows and the queue alone.
LEMMA QuietStep ==
  ASSUME IntakeInv, NEW e \in Events, at[e] # "idle",
         NEW label \in {"called", "upsert", "dm", "done"},
         at' = [at EXCEPT ![e] = label],
         UNCHANGED <<now, origin, text, rows, queue>>,
         \A d \in Events \ {e} : received'[d] = received[d] /\ failed'[d] = failed[d],
         label = "dm" => Matches(origin[e]) /\ text[e].header # "blank"
                         /\ ParseSignal(text[e]) # "signal",
         label = "upsert" => Matches(origin[e]) /\ Genuine(text[e]),
         label = "done" /\ ~failed'[e] /\ Matches(origin[e]) /\ Genuine(text[e])
           /\ IsWithinWindow(Trigger(e)', received'[e]) => Id(e)' \in RowIds,
         TypeOK', ToldRead'
  PROVE  IntakeInv'
PROOF
<1>1. \A d \in Events : d # e => at'[d] = at[d] /\ Id(d)' = Id(d) /\ Trigger(d)' = Trigger(d)
  BY DEF IntakeInv, TypeOK, Id, Trigger
<1>2. at'[e] = label
  BY DEF IntakeInv, TypeOK
<1>3. RowsRead'
  <2>1. \A d \in Events : at[d] # "idle" => at'[d] # "idle"
    BY <1>1, <1>2
  <2>2. QED BY <2>1 DEF IntakeInv, RowsRead
<1>4. CallsRead'
  BY <1>1, <1>2 DEF IntakeInv, CallsRead
<1>5. PutsApart'
  BY <1>1, <1>2 DEF IntakeInv, PutsApart, RowIds, Queued
<1>6. GenuineKept'
  <2> SUFFICES ASSUME NEW d \in Events,
                      at'[d] = "done", ~failed'[d], origin[d] \in {"ours", "bare"},
                      Genuine(text[d]), IsWithinWindow(Trigger(d)', received'[d])
               PROVE  \E row \in rows : row.id = Id(d)'
    BY DEF GenuineKept
  <2>1. CASE d = e
    BY <1>2, <2>1 DEF Matches, RowIds
  <2>2. CASE d # e
    BY <1>1, <2>2 DEF IntakeInv, GenuineKept
  <2>3. QED BY <2>1, <2>2
<1>7. QueuedOnce'
  BY DEF IntakeInv, QueuedOnce
<1>8. QED BY <1>3, <1>4, <1>5, <1>6, <1>7 DEF IntakeInv

-----------------------------------------------------------------------------
(* The steps.                                                              *)

LEMMA ArriveKeeps ==
  ASSUME IntakeInv, NEW e \in Events, NEW post \in Posts, Arrive(e, post[1], post[2])
  PROVE  IntakeInv'
PROOF
<1>1. post[1] \in Origins /\ post[2] \in TextType
  BY IntakeAssumption
<1>2. TypeOK'
  BY <1>1 DEF IntakeInv, TypeOK, Arrive
<1>3. \A d \in Events : at[d] # "idle" =>
        /\ at'[d] = at[d] /\ origin'[d] = origin[d] /\ text'[d] = text[d]
        /\ Id(d)' = Id(d) /\ Trigger(d)' = Trigger(d)
  BY DEF IntakeInv, TypeOK, Arrive, Id, Trigger
<1>4. \A d \in Events : at'[d] \notin {"idle", "called"} => at[d] = at'[d]
  BY DEF IntakeInv, TypeOK, Arrive
<1>5. UNCHANGED <<received, failed, rows, queue, told>>
  BY DEF Arrive
<1>6. RowsRead'
  BY <1>3, <1>5, IntakeAssumption DEF IntakeInv, RowsRead
<1>7. CallsRead' /\ PutsApart'
  BY <1>3, <1>4, <1>5 DEF IntakeInv, CallsRead, PutsApart, RowIds, Queued
<1>8. ToldRead'
  BY <1>3, <1>5 DEF IntakeInv, ToldRead, TypeOK
<1>9. GenuineKept' /\ QueuedOnce'
  BY <1>3, <1>4, <1>5 DEF IntakeInv, GenuineKept, QueuedOnce
<1>10. QED BY <1>2, <1>6, <1>7, <1>8, <1>9 DEF IntakeInv

\* What Return leaves behind.
LEMMA Returned ==
  ASSUME IntakeInv, NEW e \in Events, at[e] # "idle", Return(e)
  PROVE  /\ call' \in [Events -> 1..2]
         /\ \E label \in {"called", "done"} : at' = [at EXCEPT ![e] = label]
PROOF
<1>1. CASE call[e] = 1
  BY <1>1 DEF IntakeInv, TypeOK, Return
<1>2. CASE call[e] # 1
  BY <1>2 DEF IntakeInv, TypeOK, Return
<1>3. QED BY <1>1, <1>2

\* Steps that tell nothing leave what was told true.
LEMMA ToldStill ==
  ASSUME IntakeInv, NEW e \in Events, NEW label, label # "idle",
         at' = [at EXCEPT ![e] = label], UNCHANGED <<origin, text, told>>
  PROVE  ToldRead'
BY DEF IntakeInv, TypeOK, ToldRead

LEMMA IgnoreKeeps == ASSUME IntakeInv, NEW e \in Events, Ignore(e) PROVE IntakeInv'
PROOF
<1>1. PICK label \in {"called", "done"} : at' = [at EXCEPT ![e] = label]
  BY Returned DEF Ignore
<1>2. TypeOK'
  BY <1>1, Returned DEF IntakeInv, TypeOK, Ignore
<1>3. ~(Matches(origin[e]) /\ Genuine(text[e]))
  BY DEF Ignore, Genuine
<1>4. \A d \in Events \ {e} : received'[d] = received[d] /\ failed'[d] = failed[d]
  BY DEF IntakeInv, TypeOK, Ignore
<1>5. QED
  BY <1>1, <1>2, <1>3, <1>4, ToldStill, QuietStep DEF Ignore

LEMMA HandleKeeps == ASSUME IntakeInv, NEW e \in Events, Handle(e) PROVE IntakeInv'
PROOF
<1>1. /\ at[e] = "called" /\ Matches(origin[e]) /\ text[e].header # "blank"
      /\ received' = [received EXCEPT ![e] = now]
      /\ failed' = [failed EXCEPT ![e] = FALSE]
      /\ UNCHANGED <<now, origin, text, rows, queue, dropped, told>>
  BY DEF Handle
<1>2. now \in Int /\ text[e] \in TextType
  BY IntakeAssumption DEF IntakeInv, TypeOK
<1>3. /\ \A d \in Events \ {e} : received'[d] = received[d] /\ failed'[d] = failed[d]
      /\ received'[e] = now /\ ~failed'[e]
      /\ received' \in [Events -> Int] /\ failed' \in [Events -> BOOLEAN]
  BY <1>1, <1>2 DEF IntakeInv, TypeOK
<1>4. CASE ParseSignal(text[e]) # "signal" /\ Goes(e, "dm")
  <2>1. TypeOK' BY <1>1, <1>3, <1>4 DEF IntakeInv, TypeOK, Goes
  <2>2. QED BY <1>1, <1>3, <1>4, <2>1, ToldStill, QuietStep DEF Goes
<1>5. CASE ParseSignal(text[e]) = "signal" /\ Goes(e, "upsert")
  <2>1. TypeOK' BY <1>1, <1>3, <1>5 DEF IntakeInv, TypeOK, Goes
  <2>2. Genuine(text[e]) BY <1>1, <1>2, <1>5, Parsed
  <2>3. QED BY <1>1, <1>3, <1>5, <2>1, <2>2, ToldStill, QuietStep DEF Goes
<1>6. CASE /\ ~IsWithinWindow(HhmmToUnix(text[e].time, DateInTz(now)), now)
           /\ Return(e)
  <2>1. PICK label \in {"called", "done"} : at' = [at EXCEPT ![e] = label]
    BY <1>1, <1>6, Returned
  <2>2. TypeOK' BY <1>1, <1>3, <1>6, <2>1, Returned DEF IntakeInv, TypeOK
  <2>3. ~IsWithinWindow(Trigger(e)', received'[e])
    BY <1>1, <1>3, <1>6 DEF Trigger
  <2>4. QED BY <1>1, <1>3, <2>1, <2>2, <2>3, ToldStill, QuietStep
<1>7. QED BY <1>4, <1>5, <1>6 DEF Handle

LEMMA TellFailureKeeps == ASSUME IntakeInv, NEW e \in Events, TellFailure(e) PROVE IntakeInv'
PROOF
<1>1. PICK label \in {"called", "done"} : at' = [at EXCEPT ![e] = label]
  BY Returned DEF TellFailure
<1>2. /\ at[e] = "dm" /\ Matches(origin[e]) /\ text[e].header # "blank"
      /\ ParseSignal(text[e]) # "signal" /\ text[e] \in TextType
  BY DEF TellFailure, IntakeInv, TypeOK, CallsRead
<1>3. /\ ParseSignal(text[e]) \in Reasons /\ TrueOf(ParseSignal(text[e]), text[e])
      /\ ~Genuine(text[e])
  BY <1>2, Parsed
<1>4. told' \subseteq told \union {<<e, ParseSignal(text[e])>>}
  BY DEF TellFailure
<1>5. TypeOK'
  <2>1. told' \subseteq Events \X Reasons
    BY <1>3, <1>4 DEF IntakeInv, TypeOK
  <2>2. QED BY <1>1, <2>1, Returned DEF IntakeInv, TypeOK, TellFailure
<1>6. ToldRead'
  BY <1>1, <1>2, <1>3, <1>4 DEF IntakeInv, TypeOK, ToldRead, TellFailure
<1>7. QED
  BY <1>1, <1>2, <1>3, <1>5, <1>6, QuietStep DEF TellFailure

LEMMA UpsertFailsKeeps == ASSUME IntakeInv, NEW e \in Events, UpsertFails(e) PROVE IntakeInv'
PROOF
<1>1. PICK label \in {"called", "done"} : at' = [at EXCEPT ![e] = label]
  BY Returned DEF UpsertFails
<1>2. TypeOK'
  BY <1>1, Returned DEF IntakeInv, TypeOK, UpsertFails, RolledBack
<1>3. /\ \A d \in Events \ {e} : received'[d] = received[d] /\ failed'[d] = failed[d]
      /\ failed'[e]
  BY DEF IntakeInv, TypeOK, UpsertFails
<1>4. QED
  BY <1>1, <1>2, <1>3, ToldStill, QuietStep DEF UpsertFails, RolledBack

\* An identity gives its bet back.
LEMMA IdRead ==
  ASSUME IntakeInv, NEW e \in Events
  PROVE  /\ Id(e) \in SignalIds /\ Trigger(e) \in Int
         /\ Id(e).pair = text[e].pair /\ Id(e).dir = text[e].dir
         /\ Id(e).time = text[e].time /\ Id(e).date = DateInTz(received[e])
         /\ Trigger(e) = HhmmToUnix(Id(e).time, Id(e).date)
PROOF
<1>1. text[e] \in TextType /\ received[e] \in Int
  BY DEF IntakeInv, TypeOK
<1>2. text[e].time \in Nat
  BY <1>1 DEF TextType
<1>3. QED BY <1>1, <1>2, ClockTyped DEF Id, Trigger, SignalId

LEMMA UpsertKeeps == ASSUME IntakeInv, NEW e \in Events, Upsert(e) PROVE IntakeInv'
PROOF
<1>1. /\ at[e] = "upsert" /\ Matches(origin[e]) /\ Genuine(text[e])
      /\ UNCHANGED <<now, origin, text, received, failed, queue, told>>
  BY DEF Upsert, IntakeInv, CallsRead
<1> DEFINE row == [id |-> Id(e), trigger |-> Trigger(e)]
<1>2. CASE Inserted(e) /\ rows' = rows \union {row} /\ Goes(e, "put") /\ UNCHANGED dropped
  <2>1. /\ at'[e] = "put" /\ call' = call
        /\ \A d \in Events : d # e => at'[d] = at[d]
        /\ \A d \in Events : Id(d)' = Id(d) /\ Trigger(d)' = Trigger(d)
    BY <1>1, <1>2 DEF IntakeInv, TypeOK, Goes, Id, Trigger
  <2>2. RowIds' = RowIds \union {Id(e)} /\ Id(e) \notin RowIds
    <3>1. row.id = Id(e)
      OBVIOUS
    <3>2. RowIds' = {r.id : r \in rows \union {row}}
      BY <1>2 DEF RowIds
    <3>3. Id(e) \notin RowIds
      BY <1>2 DEF RowIds, Inserted
    <3>4. QED
      BY <3>1, <3>2, <3>3 DEF RowIds
  <2>3. row \in [id : SignalIds, trigger : Int]
    <3>1. Id(e) \in SignalIds /\ Trigger(e) \in Int
      BY IdRead
    <3>2. QED BY <3>1
  <2>4. TypeOK'
    <3>1. dropped \subseteq RowIds'
      BY <2>2 DEF IntakeInv, TypeOK, RowIds
    <3>2. at' \in [Events -> {"idle", "called", "upsert", "put", "dm", "done"}]
      BY <1>2 DEF IntakeInv, TypeOK, Goes
    <3>3. rows' \subseteq [id : SignalIds, trigger : Int]
      BY <1>2, <2>3 DEF IntakeInv, TypeOK
    <3>4. QED BY <1>1, <1>2, <2>1, <3>1, <3>2, <3>3 DEF IntakeInv, TypeOK, RowIds
  <2>5. RowsRead'
    <3>1. /\ row.id.time \in 0..(Day - 1)
          /\ row.trigger = HhmmToUnix(row.id.time, row.id.date)
          /\ row.id.pair = text[e].pair /\ row.id.dir = text[e].dir
          /\ row.id.time = text[e].time
      BY <1>1, IdRead, IntakeAssumption DEF Genuine, IntakeInv, TypeOK, TextType
    <3>2. \A d \in Events : at[d] # "idle" => at'[d] # "idle"
      BY <2>1
    <3>3. QED BY <1>1, <1>2, <2>1, <3>1, <3>2 DEF IntakeInv, RowsRead
  <2>6. CallsRead'
    BY <1>1, <2>1 DEF IntakeInv, CallsRead
  <2>7. PutsApart'
    <3>1. Queued \union EarlierIds \subseteq RowIds
      BY DEF IntakeInv, QueuedOnce, RowsRead, Queued, RowIds, EarlierIds
    <3>2. Queued' = Queued
      BY <1>1 DEF Queued
    <3>3. QED BY <2>1, <2>2, <3>1, <3>2 DEF IntakeInv, PutsApart
  <2>8. ToldRead'
    BY <1>1, <1>2, ToldStill DEF Goes
  <2>9. GenuineKept' /\ QueuedOnce'
    BY <1>1, <1>2, <2>1 DEF IntakeInv, GenuineKept, QueuedOnce
  <2>10. QED BY <2>4, <2>5, <2>6, <2>7, <2>8, <2>9 DEF IntakeInv
<1>3. CASE /\ ~Inserted(e) /\ dropped' = dropped \union {Id(e)}
           /\ Return(e) /\ UNCHANGED rows
  <2>1. PICK label \in {"called", "done"} : at' = [at EXCEPT ![e] = label]
    BY <1>1, <1>3, Returned
  <2>2. Id(e) \in RowIds /\ Id(e)' = Id(e)
    BY <1>1, <1>3 DEF RowIds, Inserted, Id
  <2>3. TypeOK'
    BY <1>1, <1>3, <2>1, <2>2, Returned DEF IntakeInv, TypeOK, RowIds
  <2>4. QED BY <1>1, <1>3, <2>1, <2>2, <2>3, ToldStill, QuietStep
<1>4. QED BY <1>2, <1>3 DEF Upsert

LEMMA PutKeeps == ASSUME IntakeInv, NEW e \in Events, Put(e) PROVE IntakeInv'
PROOF
<1>1. /\ at[e] = "put" /\ queue' = Append(queue, Id(e)) /\ Return(e)
      /\ UNCHANGED <<now, origin, text, received, failed, rows, dropped, told>>
  BY DEF Put
<1>2. PICK label \in {"called", "done"} : at' = [at EXCEPT ![e] = label]
  BY <1>1, Returned
<1>3. /\ at'[e] = label
      /\ \A d \in Events : d # e => at'[d] = at[d]
      /\ \A d \in Events : Id(d)' = Id(d) /\ Trigger(d)' = Trigger(d)
  BY <1>1, <1>2 DEF IntakeInv, TypeOK, Id, Trigger
<1>4. /\ queue \in Seq(SignalIds) /\ Id(e) \in SignalIds
      /\ Id(e) \in RowIds \ (Queued \union EarlierIds)
  BY <1>1, IdRead DEF IntakeInv, TypeOK, PutsApart
<1>5. /\ queue' \in Seq(SignalIds) /\ Len(queue') = Len(queue) + 1
      /\ \A i \in 1..Len(queue) : queue'[i] = queue[i]
      /\ queue'[Len(queue) + 1] = Id(e)
  BY <1>1, <1>4
<1>6. Len(queue) \in Nat
  BY <1>4
<1>7. Queued' = Queued \union {Id(e)}
  BY <1>5, <1>6 DEF Queued
<1>8. TypeOK'
  BY <1>1, <1>2, <1>5, Returned DEF IntakeInv, TypeOK
<1>9. RowsRead' /\ CallsRead'
  <2>1. \A d \in Events : at[d] # "idle" => at'[d] # "idle"
    BY <1>3
  <2>2. QED BY <1>1, <1>3, <2>1 DEF IntakeInv, RowsRead, CallsRead
<1>10. PutsApart'
  <2>1. RowIds' = RowIds
    BY <1>1 DEF RowIds
  <2>2. QED BY <1>1, <1>3, <1>7, <2>1 DEF IntakeInv, PutsApart
<1>11. ToldRead'
  BY <1>1, <1>2, ToldStill
<1>12. GenuineKept'
  <2> SUFFICES ASSUME NEW d \in Events,
                      at'[d] = "done", ~failed[d], origin[d] \in {"ours", "bare"},
                      Genuine(text[d]), IsWithinWindow(Trigger(d), received[d])
               PROVE  \E row \in rows : row.id = Id(d)
    BY <1>1, <1>3 DEF GenuineKept
  <2>1. CASE d = e
    BY <1>4, <2>1 DEF RowIds
  <2>2. CASE d # e
    BY <1>3, <2>2 DEF IntakeInv, GenuineKept
  <2>3. QED BY <2>1, <2>2
<1>13. QueuedOnce'
  <2>1. \A i \in 1..Len(queue) : queue[i] \in Queued
    BY DEF Queued
  <2>2. \A i, j \in 1..Len(queue') : queue'[i] = queue'[j] => i = j
    BY <1>4, <1>5, <1>6, <2>1 DEF IntakeInv, QueuedOnce
  <2>3. \A i \in 1..Len(queue') :
          /\ \E row \in rows : row.id = queue'[i]
          /\ \A row \in Earlier : row.id # queue'[i]
    BY <1>4, <1>5, <1>6 DEF IntakeInv, QueuedOnce, RowIds, EarlierIds
  <2>4. QED BY <1>1, <2>2, <2>3 DEF QueuedOnce
<1>14. QED BY <1>8, <1>9, <1>10, <1>11, <1>12, <1>13 DEF IntakeInv

\* The clock, and the steps of no variable.
LEMMA IdleKeeps == ASSUME IntakeInv, Tick \/ UNCHANGED vars PROVE IntakeInv'
PROOF
<1>1. UNCHANGED <<handlers, rows, queue, dropped, told>>
  BY DEF Tick, vars
<1>2. TypeOK'
  BY <1>1, IntakeAssumption DEF IntakeInv, TypeOK, Tick, vars, handlers
<1>3. RowsRead' /\ CallsRead' /\ ToldRead'
  BY <1>1 DEF IntakeInv, RowsRead, CallsRead, ToldRead, handlers
<1>4. PutsApart' /\ QueuedOnce'
  BY <1>1 DEF IntakeInv, PutsApart, QueuedOnce, RowIds, Queued, Id, handlers
<1>5. GenuineKept'
  BY <1>1 DEF IntakeInv, GenuineKept, Id, Trigger, handlers
<1>6. QED BY <1>2, <1>3, <1>4, <1>5 DEF IntakeInv

LEMMA AlwaysIntake == Spec => []IntakeInv
PROOF
<1>1. IntakeInv /\ [Next]_vars => IntakeInv'
  <2> SUFFICES ASSUME IntakeInv, [Next]_vars PROVE IntakeInv'
    OBVIOUS
  <2>1. CASE \E e \in Events, post \in Posts : Arrive(e, post[1], post[2])
    BY <2>1, ArriveKeeps
  <2>2. ASSUME NEW e \in Events,
               \/ Ignore(e) \/ Handle(e) \/ TellFailure(e)
               \/ Upsert(e) \/ UpsertFails(e) \/ Put(e)
        PROVE  IntakeInv'
    BY <2>2, IgnoreKeeps, HandleKeeps, TellFailureKeeps, UpsertKeeps, UpsertFailsKeeps, PutKeeps
  <2>3. CASE Tick \/ UNCHANGED vars
    BY <2>3, IdleKeeps
  <2>4. QED BY <2>1, <2>2, <2>3 DEF Next
<1>2. QED BY <1>1, IntakeInit, PTL DEF Spec

-----------------------------------------------------------------------------
(* What follows.                                                           *)

\* Type correctness of the handler, its rows and its queue.
THEOREM IntakeTyped == Spec => []TypeOK
BY AlwaysIntake, PTL DEF IntakeInv

\* derive_signal_id and hhmm_to_unix: an id is a bet and a bet is an id,
\* whatever the length of the day, the zone and the time of reception.
THEOREM RowsAreBets == Spec => []OneRowPerBet
PROOF
<1>1. ASSUME IntakeInv PROVE OneRowPerBet
  <2>1. \A row \in rows :
          /\ row \in [id : SignalIds, trigger : Int]
          /\ row.id \in SignalIds /\ row.id.date \in Int /\ row.id.time \in 0..(Day - 1)
          /\ row.trigger = HhmmToUnix(row.id.time, row.id.date)
    BY <1>1 DEF IntakeInv, TypeOK, RowsRead, SignalIds
  <2>2. ASSUME NEW row \in rows, NEW other \in rows,
               row.id.pair = other.id.pair, row.id.dir = other.id.dir,
               row.trigger = other.trigger
        PROVE  row.id = other.id
    <3>1. row.id.date = other.id.date /\ row.id.time = other.id.time
      BY <2>1, <2>2, OneInstant
    <3>2. QED BY <2>1, <2>2, <3>1 DEF SignalIds
  <2>3. \A row, other \in rows : row.id = other.id => row.trigger = other.trigger
    BY <2>1
  <2>4. \A row \in rows : row.id.date = DateInTz(row.trigger)
    BY <2>1, DayOfInstant
  <2>5. QED BY <2>2, <2>3, <2>4 DEF OneRowPerBet
<1>2. QED BY <1>1, AlwaysIntake, PTL

\* _process_message adds nothing but genuine signals of the channel to the rows.
THEOREM RowsAreGenuine == Spec => []OnlyGenuine
PROOF
<1>1. ASSUME IntakeInv PROVE OnlyGenuine
  <2>1. \A row \in rows : row.id.date \in Int
    BY <1>1 DEF IntakeInv, TypeOK, SignalIds
  <2>2. \A row \in rows : (row.trigger + Zone) % Day = row.id.time
    BY <1>1, <2>1, DayOfInstant DEF IntakeInv, RowsRead
  <2>3. QED BY <1>1, <2>2 DEF OnlyGenuine, IntakeInv, RowsRead, Matches
<1>2. QED BY <1>1, AlwaysIntake, PTL

\* and, but for a database error, none of those is lost in it.
THEOREM GenuineAreRows == Spec => []GenuineKept
BY AlwaysIntake, PTL DEF IntakeInv

\* INSERT ... ON CONFLICT DO NOTHING lets one call in, and that call alone
\* queues.
THEOREM IdsQueuedOnce == Spec => []QueuedOnce
BY AlwaysIntake, PTL DEF IntakeInv

\* on_parse_failure's reason is one that the text gives.
THEOREM ReasonsAreTrue == Spec => []ToldWhy
PROOF
<1>1. IntakeInv => ToldWhy
  BY DEF IntakeInv, ToldRead, ToldWhy, Matches
<1>2. QED BY <1>1, AlwaysIntake, PTL
=============================================================================
