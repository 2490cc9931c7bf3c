---------------------------- MODULE BusLogProofs ----------------------------
(***************************************************************************)
(* Proofs about module BusLog, for any inputs, values and interval.        *)
(*                                                                         *)
(* The invariants of the log speak of one input at a time, so each method  *)
(* has a lemma about the record it returns.  BusFeedProofs cites them for  *)
(* the feeder, which applies the same operators.                           *)
(***************************************************************************)
EXTENDS BusLog, TLAPS

(***************************************************************************)
(* The inductive invariant of one log.  What was logged last is what the   *)
(* reader saw last; a value that waits is the latest one and has a timer;  *)
(* a timer that runs ends with the throttle, so the timer never logs too   *)
(* early; and the throttle runs exactly while there is a recent entry.     *)
(***************************************************************************)
LogInv(l) ==
  /\ l \in LogState
  /\ ShownOrWaiting(l)
  /\ l.logged \in {NoValue, l.shown}
  /\ l.pending # NoValue => l.pending = l.latest /\ l.timer # Off
  /\ l.timer # Off => l.timer = RewriteInterval - l.age
  /\ l.recent = IF Throttled(l) THEN 1 ELSE 0

IInv == open \in BOOLEAN /\ log \in [Inputs -> LogState]
        /\ \A i \in Inputs : LogInv(log[i])

\* A new log satisfies the invariant: there is nothing to show.
LEMMA NewLogInv == LogInv(NewLog)
  BY NoValueAssumption, RewriteIntervalAssumption
  DEF LogInv, NewLog, LogState, ShownOrWaiting, Throttled, Off

\* An entry made when the throttle is over keeps the invariant, if it shows
\* the latest value (or no value is owed).
LEMMA LogSentInv ==
  ASSUME NEW l \in LogState, NEW v \in Values,
         l.recent = 0, l.latest \in {v, NoValue}
  PROVE  LogInv(LogSent(l, v))
<1> DEFINE e == LogSent(l, v)
<1>1. e \in LogState
  <2>1. 0 \in 0 .. RewriteInterval /\ 1 \in 0 .. 2
    BY RewriteIntervalAssumption
  <2>2. e = [l EXCEPT !.logged = v, !.age = 0, !.pending = NoValue,
                      !.timer = Off, !.shown = v, !.recent = 1]
    BY DEF LogSent, LogState
  <2>3. QED
    BY <2>1, <2>2 DEF LogState
<1>2. /\ e.logged = v /\ e.age = 0 /\ e.pending = NoValue /\ e.timer = Off
      /\ e.latest = l.latest /\ e.shown = v /\ e.recent = 1
  BY DEF LogSent, LogState
<1>3. QED
  BY <1>1, <1>2, RewriteIntervalAssumption
  DEF LogInv, ShownOrWaiting, Throttled

\* BusLog.sent keeps the invariant.
LEMMA SentInv ==
  ASSUME NEW l, LogInv(l), NEW v \in Values
  PROVE  LogInv(Sent(l, v))
<1> DEFINE s == [l EXCEPT !.latest = v]
<1>1. s \in LogState /\ s.recent = l.recent /\ s.latest = v
  BY DEF LogInv, LogState
<1>2. CASE l.logged = v
  BY <1>2, NoValueAssumption, RewriteIntervalAssumption
  DEF LogInv, Sent, LogState, ShownOrWaiting, Throttled, Off
<1>3. CASE l.logged # v /\ Throttled(l)
  <2> DEFINE p == Postpone(s, v)
             t == IF l.timer = Off THEN RewriteInterval - l.age ELSE l.timer
  <2>1. Sent(l, v) = p
    BY <1>3 DEF Sent
  <2>2. t = RewriteInterval - l.age /\ t \in 0 .. RewriteInterval
    BY <1>3, RewriteIntervalAssumption DEF LogInv, LogState
  <2>3. p = [s EXCEPT !.pending = v, !.timer = t]
    BY DEF Postpone, LogInv, LogState
  <2>4. p \in LogState
    BY <1>1, <2>2, <2>3 DEF LogState
  <2>5. /\ p.logged = l.logged /\ p.age = l.age /\ p.pending = v
        /\ p.timer = t /\ p.latest = v /\ p.shown = l.shown
        /\ p.recent = l.recent
    BY <2>3 DEF LogInv, LogState
  <2>6. t # Off
    BY <2>2 DEF Off
  <2>7. QED
    BY <2>1, <2>2, <2>4, <2>5, <2>6 DEF LogInv, ShownOrWaiting, Throttled
<1>4. CASE l.logged # v /\ ~Throttled(l)
  <2>1. Sent(l, v) = LogSent(s, v)
    BY <1>4 DEF Sent
  <2>2. s.recent = 0
    BY <1>1, <1>4 DEF LogInv
  <2>3. QED
    BY <1>1, <2>1, <2>2, LogSentInv
<1>5. QED
  BY <1>2, <1>3, <1>4

\* BusLog.forget keeps the invariant: the value that waits still is the
\* latest one, and nothing is taken for logged.
LEMMA ForgetInv ==
  ASSUME NEW l, LogInv(l)
  PROVE  LogInv(Forget(l))
  BY DEF LogInv, Forget, LogState, ShownOrWaiting, Throttled

\* The timer of BusLog keeps the invariant: when it fires the throttle is over.
LEMMA FlushInv ==
  ASSUME NEW l, LogInv(l), Due(l)
  PROVE  LogInv(Flush(l))
<1> DEFINE s == [l EXCEPT !.timer = Off]
<1>1. /\ s \in LogState /\ s.recent = l.recent /\ s.latest = l.latest
      /\ s.pending = l.pending
  BY DEF LogInv, LogState
<1>2. l.age = RewriteInterval /\ l.recent = 0
  BY RewriteIntervalAssumption DEF LogInv, Due, LogState, Throttled, Off
<1>3. CASE l.pending = NoValue
  BY <1>2, <1>3 DEF LogInv, Flush, LogState, ShownOrWaiting, Throttled
<1>4. CASE l.pending # NoValue
  <2>1. l.pending \in Values /\ l.pending = l.latest
    BY <1>4 DEF LogInv, LogState
  <2>2. Flush(l) = LogSent(s, l.pending)
    BY <1>4 DEF Flush
  <2>3. QED
    BY <1>1, <1>2, <2>1, <2>2, LogSentInv
<1>5. QED
  BY <1>3, <1>4

\* BusLog.stop keeps the invariant.
LEMMA StopLogInv ==
  ASSUME NEW l, LogInv(l)
  PROVE  LogInv(StopLog(l))
  BY DEF LogInv, StopLog, LogState, ShownOrWaiting, Throttled, Off

\* Time keeps the invariant as long as it does not pass a timer that is due.
LEMMA OlderLogInv ==
  ASSUME NEW l, LogInv(l), ~Due(l)
  PROVE  LogInv(Older(l))
<1> DEFINE o == Older(l)
           age == IF l.age < RewriteInterval THEN l.age + 1 ELSE l.age
           timer == IF l.timer > 0 THEN l.timer - 1 ELSE l.timer
           recent == IF age = RewriteInterval THEN 0 ELSE l.recent
<1>1. /\ age \in 0 .. RewriteInterval
      /\ timer \in {Off} \union 0 .. RewriteInterval
      /\ recent \in 0 .. 2
  BY RewriteIntervalAssumption DEF LogInv, LogState, Off
<1>2. o = [l EXCEPT !.age = age, !.timer = timer, !.recent = recent]
  BY DEF Older, LogInv, LogState
<1>3. o \in LogState
  BY <1>1, <1>2 DEF LogInv, LogState
<1>4. /\ o.logged = l.logged /\ o.age = age /\ o.pending = l.pending
      /\ o.timer = timer /\ o.latest = l.latest /\ o.shown = l.shown
      /\ o.recent = recent
  BY <1>2 DEF LogInv, LogState
<1>5. timer = Off <=> l.timer = Off
  BY DEF LogInv, LogState, Due, Off
<1>6. timer # Off => timer = RewriteInterval - age
  BY RewriteIntervalAssumption DEF LogInv, LogState, Due, Off
<1>7. recent = IF age < RewriteInterval THEN 1 ELSE 0
  BY RewriteIntervalAssumption DEF LogInv, LogState, Throttled
<1>8. ShownOrWaiting(o)
  BY <1>4, <1>5, <1>6 DEF LogInv, LogState, ShownOrWaiting
<1>9. QED
  BY <1>3, <1>4, <1>5, <1>6, <1>7, <1>8 DEF LogInv, Throttled

-----------------------------------------------------------------------------
(***************************************************************************)
(* The invariant of all logs is inductive.                                 *)
(***************************************************************************)
THEOREM LogInvariant == Spec => []IInv
<1>1. Init => IInv
  BY NewLogInv DEF Init, IInv, LogInv
<1>2. IInv /\ [Next]_vars => IInv'
  <2> SUFFICES ASSUME IInv, [Next]_vars PROVE IInv'
    OBVIOUS
  <2> USE DEF IInv
  <2>1. ASSUME NEW i \in Inputs, NEW l, LogInv(l), Set(i, l)
        PROVE  IInv'
    BY <2>1 DEF Set, LogInv
  <2>2. ASSUME NEW i \in Inputs, NEW v \in Values, SentStep(i, v)
        PROVE  IInv'
    BY <2>1, <2>2, SentInv DEF SentStep
  <2>3. ASSUME NEW S \in SUBSET Inputs, ForgetStep(S)
        PROVE  IInv'
    <3>1. \A i \in Inputs : LogInv(Forget(log[i]))
      BY ForgetInv
    <3>2. QED
      BY <2>3, <3>1 DEF ForgetStep, LogInv
  <2>4. ASSUME NEW i \in Inputs, FlushStep(i)
        PROVE  IInv'
    BY <2>1, <2>4, FlushInv DEF FlushStep
  <2>5. CASE StopStep
    <3>1. \A i \in Inputs : LogInv(StopLog(log[i]))
      BY StopLogInv
    <3>2. QED
      BY <2>5, <3>1 DEF StopStep, LogInv
  <2>6. CASE NewStep
    BY <2>6, NewLogInv DEF NewStep, LogInv
  <2>7. CASE Tick
    <3>1. \A i \in Inputs : LogInv(Older(log[i]))
      BY <2>7, OlderLogInv DEF Tick
    <3>2. QED
      BY <2>7, <3>1 DEF Tick, LogInv
  <2>8. CASE UNCHANGED vars
    BY <2>8 DEF vars
  <2>9. QED
    BY <2>2, <2>3, <2>4, <2>5, <2>6, <2>7, <2>8 DEF Next
<1>3. QED
  BY <1>1, <1>2, PTL DEF Spec

\* Every log has the type of its record.
THEOREM LogTypeCorrect == Spec => []TypeOK
<1>1. IInv => TypeOK
  BY DEF IInv, TypeOK
<1>2. QED
  BY <1>1, LogInvariant, PTL

\* The logbook shows the latest value or is about to, for any interval.
THEOREM LatestIsNeverLost == Spec => []LatestIsShownOrWaits
<1>1. IInv => LatestIsShownOrWaits
  BY DEF IInv, LogInv, LatestIsShownOrWaits
<1>2. QED
  BY <1>1, LogInvariant, PTL

\* Two sent entries of an input are never closer than the interval.
THEOREM ThrottleHolds == Spec => []AtMostOneEntryPerInterval
<1>1. ASSUME NEW l, LogInv(l) PROVE l.recent <= 1
  <2>1. l.recent = 1 \/ l.recent = 0
    BY <1>1 DEF LogInv
  <2>2. QED
    BY <2>1
<1>2. IInv => AtMostOneEntryPerInterval
  BY <1>1 DEF IInv, AtMostOneEntryPerInterval
<1>3. QED
  BY <1>2, LogInvariant, PTL
=============================================================================
