------------------------------- MODULE BusLog -------------------------------
(***************************************************************************)
(* The logbook throttle of the bus inputs: class BusLog of bus_feed.py.    *)
(*                                                                         *)
(* A log keeps, per bus input, the value it logged last and when, a value  *)
(* that waits for the throttle, and the timer that will log it.  The       *)
(* methods of the class are operators on that record, so the bus feeder    *)
(* (module BusFeed) can call several of them in one step.  The             *)
(* specification below calls them in any order a feeder could.             *)
(*                                                                         *)
(* Time is counted in ticks.  A time stamp is kept as its age, which stops *)
(* at RewriteInterval: the code only asks whether that much has passed.    *)
(***************************************************************************)
EXTENDS Integers

CONSTANTS
  Inputs,           \* the bus inputs that are fed
  Values,           \* the values a bus input can be sent
  NoValue,          \* "no value" (None, or a key that is absent)
  RewriteInterval   \* BUS_REWRITE_INTERVAL

ASSUME NoValueAssumption == NoValue \notin Values
ASSUME RewriteIntervalAssumption == RewriteInterval \in Nat \ {0}

VARIABLES
  log,              \* log[i]: what the BusLog keeps for input i
  open              \* the feeder that owns the log is not stopped

vars == <<log, open>>

-----------------------------------------------------------------------------
Off == -1           \* a timer that is not armed

\* The first four fields are the attributes of the class.  The last three are
\* history: what a reader of the logbook has seen of the input.
LogState ==
  [logged    : Values \union {NoValue},      \* _logged
   age       : 0 .. RewriteInterval,         \* now - _logged_at
   pending   : Values \union {NoValue},      \* _pending
   timer     : {Off} \union 0 .. RewriteInterval,  \* _timers
   latest    : Values \union {NoValue},      \* the value sent last
   shown     : Values \union {NoValue},      \* the value of the last entry
   recent    : 0 .. 2]       \* entries of the last RewriteInterval, up to 2

\* A log that never logged is like one that logged long ago (last is None).
NewLog ==
  [logged |-> NoValue, age |-> RewriteInterval, pending |-> NoValue,
   timer |-> Off, latest |-> NoValue, shown |-> NoValue, recent |-> 0]

\* An entry is made now: the throttle starts over.
LogSent(l, v) ==
  [l EXCEPT !.logged = v, !.age = 0, !.pending = NoValue, !.timer = Off,
            !.shown = v, !.recent = IF @ = 2 THEN 2 ELSE @ + 1]

\* Mutant of Throttled: the last tick of the interval does not count.
ThrottledTooShort(l) == l.age + 1 < RewriteInterval

\* Less than RewriteInterval has passed since the last entry.
Throttled(l) == l.age < RewriteInterval

\* Mutant of Postpone: the operands of the subtraction are swapped.
PostponeSwapped(l, v) ==
  [l EXCEPT !.pending = v,
            !.timer = IF @ = Off THEN l.age - RewriteInterval ELSE @]

\* Mutant of Postpone: the timer runs for a whole interval from now.
PostponeAnew(l, v) ==
  [l EXCEPT !.pending = v, !.timer = IF @ = Off THEN RewriteInterval ELSE @]

\* The entry waits; a timer that runs already is due at the right time.
Postpone(l, v) ==
  [l EXCEPT !.pending = v,
            !.timer = IF @ = Off THEN RewriteInterval - l.age ELSE @]

\* Mutant of Sent: a value that waits already is not replaced.
SentKeepsFirst(l, v) ==
  LET s == [l EXCEPT !.latest = v]
  IN  IF l.logged = v THEN [s EXCEPT !.pending = NoValue]
      ELSE IF l.pending # NoValue THEN s
      ELSE IF Throttled(l) THEN Postpone(s, v)
      ELSE LogSent(s, v)

Sent(l, v) ==
  LET s == [l EXCEPT !.latest = v]
  IN  IF l.logged = v THEN [s EXCEPT !.pending = NoValue]
      ELSE IF Throttled(l) THEN Postpone(s, v)
      ELSE LogSent(s, v)

\* The value was "skipped": the logbook says so, the next value is news.
Forget(l) == [l EXCEPT !.logged = NoValue]

\* The timer fires.
Flush(l) ==
  LET s == [l EXCEPT !.timer = Off]
  IN  IF l.pending = NoValue THEN s ELSE LogSent(s, l.pending)

\* Mutant of StopLog: the timer is not cancelled.
StopLogKeepsTimer(l) == [l EXCEPT !.pending = NoValue, !.latest = NoValue]

\* Nothing is logged after the stop, so no value is owed to the reader.
StopLog(l) ==
  [l EXCEPT !.timer = Off, !.pending = NoValue, !.latest = NoValue]

\* One tick passes.
Older(l) ==
  LET age == IF l.age < RewriteInterval THEN l.age + 1 ELSE l.age
  IN  [l EXCEPT !.age = age,
                !.timer = IF @ > 0 THEN @ - 1 ELSE @,
                !.recent = IF age = RewriteInterval THEN 0 ELSE @]

Due(l) == l.timer = 0

-----------------------------------------------------------------------------
Init == /\ log = [i \in Inputs |-> NewLog]
        /\ open \in BOOLEAN

Set(i, l) == /\ log' = [log EXCEPT ![i] = l]
             /\ UNCHANGED open

SentStep(i, v) == open /\ Set(i, Sent(log[i], v))

\* The interval handler may find several inputs skipped.
ForgetStep(S) ==
  /\ open
  /\ log' = [i \in Inputs |-> IF i \in S THEN Forget(log[i]) ELSE log[i]]
  /\ UNCHANGED open

FlushStep(i) == Due(log[i]) /\ Set(i, Flush(log[i]))

StopStep == /\ open
            /\ open' = FALSE
            /\ log' = [i \in Inputs |-> StopLog(log[i])]

\* The entry is set up again: a new BusLog.
NewStep == /\ ~open
           /\ open' = TRUE
           /\ log' = [i \in Inputs |-> NewLog]

\* Timers are prompt: time does not pass one that is due.
Tick == /\ \A i \in Inputs : ~Due(log[i])
        /\ log' = [i \in Inputs |-> Older(log[i])]
        /\ UNCHANGED open

\* What the owner of the log does to it in one step, and time.
Next ==
  \/ \E i \in Inputs : \/ \E v \in Values : SentStep(i, v)
                       \/ FlushStep(i)
  \/ \E S \in SUBSET Inputs : ForgetStep(S)
  \/ StopStep
  \/ NewStep
  \/ Tick

Spec == Init /\ [][Next]_vars

\* The event loop runs timers that are due, and time passes.
FairSpec == Spec /\ WF_vars(Tick) /\ \A i \in Inputs : WF_vars(FlushStep(i))

-----------------------------------------------------------------------------
TypeOK == /\ log \in [Inputs -> LogState]
          /\ open \in BOOLEAN

\* The entry for the latest value is there, or a timer will make it exactly
\* when the throttle of the entry before it ends.
ShownOrWaiting(l) ==
  l.latest # NoValue =>
    \/ l.shown = l.latest
    \/ l.pending = l.latest /\ l.timer = RewriteInterval - l.age

(***************************************************************************)
(* The logbook never loses the latest value: BusLog.sent either logs it,   *)
(* finds it logged, or leaves it to a timer that is armed and on time,     *)
(* whatever changes back and forth, refreshes and skips came between.      *)
(***************************************************************************)
LatestIsShownOrWaits == \A i \in Inputs : ShownOrWaiting(log[i])

(***************************************************************************)
(* "At most once per BUS_REWRITE_INTERVAL and input" (BusLog): two sent    *)
(* entries of an input are never closer than the interval, whether made    *)
(* at once, by the timer, or after a skip.                                 *)
(***************************************************************************)
AtMostOneEntryPerInterval == \A i \in Inputs : log[i].recent <= 1

(***************************************************************************)
(* A value that stays the latest one is in the logbook eventually, unless  *)
(* the log is stopped first.                                               *)
(***************************************************************************)
LatestIsShownEventually ==
  \A i \in Inputs, v \in Values :
    log[i].latest = v ~> log[i].shown = v \/ log[i].latest # v
=============================================================================
