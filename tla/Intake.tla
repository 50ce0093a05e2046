------------------------------- MODULE Intake -------------------------------
(***************************************************************************)
(* From a Telegram event to the signals queue: the filter on the chat      *)
(* (telegram/channel_resolver.py), the parser and the signal's identity    *)
(* (domain/signal.py), local dates (infra/clock.py) and the handler that   *)
(* ties them together (telegram/listener.py).                              *)
(*                                                                         *)
(* Each of the listener's two handlers is registered for new messages and  *)
(* for edits, so Telethon runs the same code twice for each event, one     *)
(* call after the other, logging what a call raises.  The events have a    *)
(* task each.  Time is in units of which Day make a day; local time is     *)
(* Zone units ahead of UTC (a zone with a fixed offset).                   *)
(***************************************************************************)
EXTENDS Integers, Sequences, FiniteSets

CONSTANTS
  Day, Zone,
  PastTolerance, FutureTolerance,  \* of is_within_window
  Pairs,   \* the pairs that signals name
  Posts,   \* the events that may come: where from, and the text
  Events,  \* 1 to the bound on the events that come
  Earlier, \* the rows that an earlier life of the process left pending
  Start,   \* the time when the program starts
  MaxNow   \* bound: the last instant of the clock

\* In our channel; there, but event.chat is not available, as in every event of
\* the replay injector; there, but renamed; from elsewhere; our own message.
Origins == {"ours", "bare", "renamed", "elsewhere", "outgoing"}

\* What the parser finds in a text: its first header line, the number of its
\* signal lines, and the fields of the first of them.  (\d{2}:\d{2} also
\* matches times that no day has.)
TextType ==
  [header : {"blank", "missing", "banned", "allowed"}, lines : Nat,
   pair : Pairs, time : Nat, dir : {"up", "down"}]

\* The text of no event.
NoText == [header |-> "blank", lines |-> 0, pair |-> CHOOSE p \in Pairs : TRUE,
           time |-> 0, dir |-> "up"]

ASSUME IntakeAssumption ==
  /\ Day \in Nat \ {0} /\ Zone \in Int
  /\ PastTolerance \in Nat /\ FutureTolerance \in Nat
  /\ Pairs # {} /\ Posts \subseteq Origins \X TextType
  /\ Events \subseteq Nat
  /\ Start \in Int /\ MaxNow \in Int /\ Start <= MaxNow

VARIABLES
  now,
  origin,    \* origin[e]: where event e comes from, "none" before it comes
  text,      \* text[e]: what it says
  call,      \* call[e]: which of the two handler calls is being made
  at,        \* at[e]: the await of that call; "done" after the last one
  received,  \* received[e]: received_at_unix of the last call
  failed,    \* failed[e]: the last call was ended by a database error
  rows,      \* the table signals: the id and the trigger of each row
  queue,     \* all that was put into the signals queue, in order
  dropped,   \* the ids that a call took for duplicates
  told       \* the on_parse_failure DMs: event and reason

handlers == <<origin, text, call, at, received, failed>>
vars == <<now, handlers, rows, queue, dropped, told>>

Reasons == {"missing_header_line", "expiration_not_allowed", "missing_signal_line",
            "multiple_signal_lines", "bad_time_format"}

-----------------------------------------------------------------------------
(* The clock.                                                              *)

\* Mutant of DateInTz: the date in UTC.
DateInUtc(n) == n \div Day

DateInTz(n) == (n + Zone) \div Day
HhmmToUnix(time, date) == date * Day + time - Zone

IsWithinWindow(trigger, n) ==
  n - PastTolerance <= trigger /\ trigger <= n + FutureTolerance

-----------------------------------------------------------------------------
(* The parser.                                                             *)

\* Mutant of ParseSignal: the first of several signal lines will do.
ParseSignalFirst(t) ==
  CASE t.header = "missing"                         -> "missing_header_line"
    [] t.header = "banned"                          -> "expiration_not_allowed"
    [] t.header = "allowed" /\ t.lines = 0          -> "missing_signal_line"
    [] t.header = "allowed" /\ t.lines > 0 /\ t.time >= Day -> "bad_time_format"
    [] OTHER                                        -> "signal"

ParseSignal(t) ==
  CASE t.header = "missing"                         -> "missing_header_line"
    [] t.header = "banned"                          -> "expiration_not_allowed"
    [] t.header = "allowed" /\ t.lines = 0          -> "missing_signal_line"
    [] t.header = "allowed" /\ t.lines > 1          -> "multiple_signal_lines"
    [] t.header = "allowed" /\ t.lines = 1 /\ t.time >= Day -> "bad_time_format"
    [] OTHER                                        -> "signal"

SignalIds == [pair : Pairs, time : Nat, dir : {"up", "down"}, date : Int]

\* derive_signal_id: the hash is as good as what is hashed.
SignalId(t, date) == [pair |-> t.pair, time |-> t.time, dir |-> t.dir, date |-> date]

\* The same handler wrote them, and their queue entries died with it.
ASSUME EarlierAssumption ==
  /\ Earlier \subseteq [id : SignalIds, trigger : Int]
  /\ \A row \in Earlier :
       /\ row.id.time \in 0..(Day - 1)
       /\ row.trigger = HhmmToUnix(row.id.time, row.id.date)

-----------------------------------------------------------------------------
(* The handler.                                                            *)

TypeOK ==
  /\ now \in Start..MaxNow
  /\ origin \in [Events -> Origins \union {"none"}]
  /\ text \in [Events -> TextType]
  /\ call \in [Events -> 1..2]
  /\ at \in [Events -> {"idle", "called", "upsert", "put", "dm", "done"}]
  /\ received \in [Events -> Int]
  /\ failed \in [Events -> BOOLEAN]
  /\ rows \subseteq [id : SignalIds, trigger : Int]
  /\ queue \in Seq(SignalIds)
  /\ dropped \subseteq {row.id : row \in rows}
  /\ told \subseteq Events \X Reasons

Init ==
  /\ now = Start
  /\ origin = [e \in Events |-> "none"]
  /\ text = [e \in Events |-> NoText]
  /\ call = [e \in Events |-> 1]
  /\ at = [e \in Events |-> "idle"]
  /\ received = [e \in Events |-> Start]
  /\ failed = [e \in Events |-> FALSE]
  /\ rows = Earlier /\ queue = <<>> /\ dropped = {} /\ told = {}

\* Mutant of Matches: an event whose chat is not at hand is somebody else's.
MatchesWithTitle(from) == from = "ours"

\* message.out, and ChannelResolver.matches.
Matches(from) == from \in {"ours", "bare"}

Id(e) == SignalId(text[e], DateInTz(received[e]))
Trigger(e) == HhmmToUnix(text[e].time, DateInTz(received[e]))

\* A message, an edit or a repost arrives; or the replay injector calls the
\* handler, once, with an event of its own.
Arrive(e, from, t) ==
  /\ at[e] = "idle"
  /\ \A d \in Events : d < e => at[d] # "idle"
  /\ at' = [at EXCEPT ![e] = "called"]
  /\ origin' = [origin EXCEPT ![e] = from]
  /\ text' = [text EXCEPT ![e] = t]
  /\ \/ UNCHANGED call
     \/ from = "bare" /\ call' = [call EXCEPT ![e] = 2]
  /\ UNCHANGED <<now, received, failed, rows, queue, dropped, told>>

\* The call ends, and Telethon makes the other one.
Return(e) ==
  /\ call' = [call EXCEPT ![e] = 2]
  /\ at' = [at EXCEPT ![e] = IF call[e] = 1 THEN "called" ELSE "done"]

Goes(e, label) == at' = [at EXCEPT ![e] = label] /\ UNCHANGED call

Ignore(e) ==
  /\ at[e] = "called"
  /\ ~Matches(origin[e]) \/ text[e].header = "blank"
  /\ Return(e)
  /\ failed' = [failed EXCEPT ![e] = FALSE]
  /\ UNCHANGED <<now, origin, text, received, rows, queue, dropped, told>>

\* Up to the first await: the clock is read, the text is parsed, its time
\* becomes an instant of the present local day, and the window is checked.
Handle(e) ==
  /\ at[e] = "called"
  /\ Matches(origin[e]) /\ text[e].header # "blank"
  /\ received' = [received EXCEPT ![e] = now]
  /\ failed' = [failed EXCEPT ![e] = FALSE]
  /\ \/ ParseSignal(text[e]) # "signal" /\ Goes(e, "dm")
     \/ /\ ParseSignal(text[e]) = "signal"
        /\ IsWithinWindow(HhmmToUnix(text[e].time, DateInTz(now)), now)
        /\ Goes(e, "upsert")
     \/ /\ ParseSignal(text[e]) = "signal"
        /\ ~IsWithinWindow(HhmmToUnix(text[e].time, DateInTz(now)), now)
        /\ Return(e)
  /\ UNCHANGED <<now, origin, text, rows, queue, dropped, told>>

\* on_parse_failure, which swallows a DM that fails.
TellFailure(e) ==
  /\ at[e] = "dm"
  /\ \/ told' = told \union {<<e, ParseSignal(text[e])>>}
     \/ UNCHANGED told
  /\ Return(e)
  /\ UNCHANGED <<now, origin, text, received, failed, rows, queue, dropped>>

\* Mutant of Inserted: the key takes in the time of reception.
InsertedAnew(e) == [id |-> Id(e), trigger |-> received[e]] \notin rows

\* ON CONFLICT (signal_id) DO NOTHING.
Inserted(e) == \A row \in rows : row.id # Id(e)

Upsert(e) ==
  /\ at[e] = "upsert"
  /\ \/ /\ Inserted(e)
        /\ rows' = rows \union {[id |-> Id(e), trigger |-> Trigger(e)]}
        /\ Goes(e, "put")
        /\ UNCHANGED dropped
     \/ /\ ~Inserted(e)
        /\ dropped' = dropped \union {Id(e)}
        /\ Return(e)
        /\ UNCHANGED rows
  /\ UNCHANGED <<now, origin, text, received, failed, queue, told>>

\* Mutant of RolledBack: the row stays.
NotRolledBack(e) == rows' = rows \union {[id |-> Id(e), trigger |-> Trigger(e)]}

\* conn.transaction() undoes what it has not committed.
RolledBack(e) == UNCHANGED rows

\* Mutant of UpsertFails: whatever the database raises is a duplicate.
UpsertFailsDropped(e) ==
  /\ at[e] = "upsert"
  /\ Return(e)
  /\ dropped' = dropped \union {Id(e)}
  /\ UNCHANGED <<now, origin, text, received, failed, rows, queue, told>>

UpsertFails(e) ==
  /\ at[e] = "upsert"
  /\ RolledBack(e)
  /\ Return(e)
  /\ failed' = [failed EXCEPT ![e] = TRUE]
  /\ UNCHANGED <<now, origin, text, received, queue, dropped, told>>

Put(e) ==
  /\ at[e] = "put"
  /\ queue' = Append(queue, Id(e))
  /\ Return(e)
  /\ UNCHANGED <<now, origin, text, received, failed, rows, dropped, told>>

Tick ==
  /\ now < MaxNow
  /\ now' = now + 1
  /\ UNCHANGED <<handlers, rows, queue, dropped, told>>

Next ==
  \/ \E e \in Events, post \in Posts : Arrive(e, post[1], post[2])
  \/ \E e \in Events :
       Ignore(e) \/ Handle(e) \/ TellFailure(e) \/ Upsert(e) \/ UpsertFails(e) \/ Put(e)
  \/ Tick

Spec == Init /\ [][Next]_vars

\* The awaits of a handler end: statements have a command_timeout, and _send
\* swallows what Telegram raises.
FairSpec ==
  /\ Spec
  /\ \A e \in Events :
       WF_vars(Ignore(e) \/ Handle(e) \/ TellFailure(e) \/ Upsert(e) \/ Put(e))

-----------------------------------------------------------------------------
(* Properties.                                                             *)

\* What a genuine signal is, said without an order of checks.
Genuine(t) == t.header = "allowed" /\ t.lines = 1 /\ t.time < Day

\* Two rows never stand for one bet - a pair, a direction and an instant - nor
\* one id for two, on whichever sides of a midnight, local or UTC, their
\* messages came; and the day in the id is the day the bet is booked on.
OneRowPerBet ==
  /\ \A row, other \in rows :
       row.id = other.id <=>
         /\ row.id.pair = other.id.pair /\ row.id.dir = other.id.dir
         /\ row.trigger = other.trigger
  /\ \A row \in rows : row.id.date = DateInTz(row.trigger)

\* Every row of this life goes back to a genuine signal of our channel, for an
\* instant that its window allowed when it was read.
OnlyGenuine ==
  \A row \in rows \ Earlier : \E e \in Events :
    /\ origin[e] \in {"ours", "bare"} /\ Genuine(text[e])
    /\ row.id.pair = text[e].pair /\ row.id.dir = text[e].dir
    /\ (row.trigger + Zone) % Day = text[e].time

\* And no such signal is lost by the way: once its calls are over it has its
\* row, unless the last of them met a database error.
GenuineKept ==
  \A e \in Events :
    /\ at[e] = "done" /\ ~failed[e]
    /\ origin[e] \in {"ours", "bare"} /\ Genuine(text[e])
    /\ IsWithinWindow(Trigger(e), received[e])
    => \E row \in rows : row.id = Id(e)

\* However many calls, edits and reposts overlap, an id is queued once at most,
\* and only when its row is there for the scheduler and of this life: what an
\* earlier one may have bet on is never queued again.
QueuedOnce ==
  /\ \A i, j \in 1..Len(queue) : queue[i] = queue[j] => i = j
  /\ \A i \in 1..Len(queue) :
       /\ \E row \in rows : row.id = queue[i]
       /\ \A row \in Earlier : row.id # queue[i]

\* The reason that the user is given is true of the text; and nobody is told of
\* messages that are none of ours.
TrueOf(reason, t) ==
  CASE reason = "missing_header_line"    -> t.header = "missing"
    [] reason = "expiration_not_allowed" -> t.header = "banned"
    [] reason = "missing_signal_line"    -> t.lines = 0
    [] reason = "multiple_signal_lines"  -> t.lines > 1
    [] reason = "bad_time_format"        -> t.lines = 1 /\ t.time >= Day
ToldWhy ==
  \A dm \in told : TrueOf(dm[2], text[dm[1]]) /\ origin[dm[1]] \in {"ours", "bare"}

\* A message dropped as a duplicate of a row of this life is a signal that another
\* call brings to the scheduler.  Of a row of an earlier life it is not: see
\* RepostsCaught.
Queued == {queue[i] : i \in 1..Len(queue)}
DuplicateQueued == []<>(dropped \subseteq Queued \union {row.id : row \in Earlier})

-----------------------------------------------------------------------------
(* A statement of the repository that the code does not meet.              *)

\* recovery.py:10-12, of pending rows: "The listener's `MessageEdited`
\* subscription (FR-1.5) catches re-posts".  It catches them, and drops them as
\* duplicates of the very row that recovery does not load.
RepostsCaught == \A row \in Earlier : row.id \in dropped ~> row.id \in Queued
=============================================================================
