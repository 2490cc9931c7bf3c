----------------------------- MODULE BusDelivery -----------------------------
(***************************************************************************)
(* The delivery of a bus input: class BusDelivery of bus_feed.py.  After a *)
(* failed write it asks for another one every RetryInterval until one      *)
(* succeeds, and once no write has succeeded for ValueValid it keeps a     *)
(* repair issue until the next success.                                    *)
(*                                                                         *)
(* The methods are operators on the record of one delivery; the feeder     *)
(* (module BusFeed) applies them, the specification below lets any write   *)
(* succeed or fail at any time.                                            *)
(***************************************************************************)
EXTENDS Integers

CONSTANTS
  Inputs,           \* the bus inputs that are fed
  RetryInterval,    \* BUS_RETRY_INTERVAL
  ValueValid,       \* BUS_VALUE_VALID
  AgeLimit          \* bound: ages stop counting here

ASSUME RetryIntervalAssumption == RetryInterval \in Nat \ {0}
ASSUME ValueValidAssumption ==
  /\ ValueValid \in Nat \ {0}
  /\ AgeLimit \in Nat
  /\ AgeLimit >= ValueValid

VARIABLES
  delivery,         \* delivery[i]: the BusDelivery of input i
  open              \* the feeder that owns the deliveries is not stopped

vars == <<delivery, open>>

-----------------------------------------------------------------------------
Off == -1           \* the timer is not armed (_retry_unsub is None)

\* The kinds of logbook entries about an outage, and none yet.
OutageEntries == {"none", "failed", "expired", "recovered"}

DeliveryState ==
  [age     : 0 .. AgeLimit,        \* now - _last_success
   retryIn : {Off} \union 0 .. RetryInterval,   \* _retry_unsub
   failing : BOOLEAN,              \* _failing
   expired : BOOLEAN,              \* _expired
   issue   : BOOLEAN,              \* the issue "not delivered" exists
   entry   : OutageEntries,        \* history: the last entry of the logbook
   repeats : BOOLEAN]              \* history: an entry was made twice in a row

\* A new delivery counts from its creation: _last_success = utcnow().
NewDelivery ==
  [age |-> 0, retryIn |-> Off, failing |-> FALSE, expired |-> FALSE,
   issue |-> FALSE, entry |-> "none", repeats |-> FALSE]

Fire(d, kind) ==
  [d EXCEPT !.entry = kind, !.repeats = @ \/ d.entry = kind]

Succeeded(d) ==
  LET s == IF d.failing THEN Fire(d, "recovered") ELSE d
  IN  [s EXCEPT !.age = 0, !.retryIn = Off, !.issue = FALSE,
                !.expired = FALSE, !.failing = FALSE]

\* The last success is too old: the unit uses its own sensor by now.
Outdated(d) == d.age >= ValueValid

\* Mutant of Failed: the retry comes after the wrong duration.
FailedArmsLate(d) ==
  LET f == IF d.failing THEN d ELSE Fire(d, "failed")
      e == IF Outdated(d) /\ ~d.expired THEN Fire(f, "expired") ELSE f
  IN  [e EXCEPT !.failing = TRUE,
                !.expired = @ \/ Outdated(d),
                !.issue = @ \/ Outdated(d),
                !.retryIn = IF @ = Off THEN ValueValid ELSE @]

\* Mutant of Failed: every failure is logged.
FailedRepeats(d) ==
  LET f == Fire(d, "failed")
      e == IF Outdated(d) /\ ~d.expired THEN Fire(f, "expired") ELSE f
  IN  [e EXCEPT !.failing = TRUE,
                !.expired = @ \/ Outdated(d),
                !.issue = @ \/ Outdated(d),
                !.retryIn = IF @ = Off THEN RetryInterval ELSE @]

\* Mutant of Failed: only the first failure of an outage arms a retry.
FailedArmsOnce(d) ==
  LET f == IF d.failing THEN d ELSE Fire(d, "failed")
      e == IF Outdated(d) /\ ~d.expired THEN Fire(f, "expired") ELSE f
  IN  [e EXCEPT !.failing = TRUE,
                !.expired = @ \/ Outdated(d),
                !.issue = @ \/ Outdated(d),
                !.retryIn = IF d.failing THEN @ ELSE RetryInterval]

\* Mutant of Failed: a failure within an outage is not looked at any further.
FailedReturnsEarly(d) ==
  IF d.failing
  THEN [d EXCEPT !.retryIn = IF @ = Off THEN RetryInterval ELSE @]
  ELSE LET e == IF Outdated(d) THEN Fire(d, "expired") ELSE Fire(d, "failed")
       IN  [e EXCEPT !.failing = TRUE, !.expired = Outdated(d),
                     !.issue = Outdated(d), !.retryIn = RetryInterval]

\* A lasting outage is logged once; a retry that is armed stays as it is.
Failed(d) ==
  LET f == IF d.failing THEN d ELSE Fire(d, "failed")
      e == IF Outdated(d) /\ ~d.expired THEN Fire(f, "expired") ELSE f
  IN  [e EXCEPT !.failing = TRUE,
                !.expired = @ \/ Outdated(d),
                !.issue = @ \/ Outdated(d),
                !.retryIn = IF @ = Off THEN RetryInterval ELSE @]

\* The timer fires; the caller then tries to write.
RetryFired(d) == [d EXCEPT !.retryIn = Off]

\* Mutant of StopDelivery: the issue stays.
StopDeliveryKeepsIssue(d) == [d EXCEPT !.retryIn = Off]

StopDelivery(d) == [d EXCEPT !.retryIn = Off, !.issue = FALSE]

\* One tick passes.
Older(d) ==
  [d EXCEPT !.age = IF @ < AgeLimit THEN @ + 1 ELSE @,
            !.retryIn = IF @ > 0 THEN @ - 1 ELSE @]

Due(d) == d.retryIn = 0

-----------------------------------------------------------------------------
Init == /\ delivery = [i \in Inputs |-> NewDelivery]
        /\ open \in BOOLEAN

Set(i, d) == /\ open
             /\ delivery' = [delivery EXCEPT ![i] = d]
             /\ UNCHANGED open

SucceededStep(i) == Set(i, Succeeded(delivery[i]))

\* The identity check fails several writes in one handler.
FailedStep(S) ==
  /\ open
  /\ delivery' = [i \in Inputs |->
                    IF i \in S THEN Failed(delivery[i]) ELSE delivery[i]]
  /\ UNCHANGED open

\* The retry either sends a request, whose outcome comes later, or fails at
\* once, or does not write because the source gives nothing.
RetryStep(i) == /\ Due(delivery[i])
                /\ \/ Set(i, RetryFired(delivery[i]))
                   \/ Set(i, Failed(RetryFired(delivery[i])))

StopStep == /\ open
            /\ open' = FALSE
            /\ delivery' = [i \in Inputs |-> StopDelivery(delivery[i])]

NewStep == /\ ~open
           /\ open' = TRUE
           /\ delivery' = [i \in Inputs |-> NewDelivery]

\* Timers are prompt: time does not pass one that is due.
Tick == /\ \A i \in Inputs : ~Due(delivery[i])
        /\ delivery' = [i \in Inputs |-> Older(delivery[i])]
        /\ UNCHANGED open

Next == \/ \E i \in Inputs : SucceededStep(i) \/ RetryStep(i)
        \/ \E S \in SUBSET Inputs : FailedStep(S)
        \/ StopStep
        \/ NewStep
        \/ Tick

Spec == Init /\ [][Next]_vars

-----------------------------------------------------------------------------
TypeOK == /\ delivery \in [Inputs -> DeliveryState]
          /\ open \in BOOLEAN

(***************************************************************************)
(* The issue "not delivered" says that the unit has no valid value: it is  *)
(* shown exactly from the failure that finds the last success ValueValid   *)
(* old until the next success, and never by a delivery that is stopped.    *)
(***************************************************************************)
IssueIsJustified ==
  \A i \in Inputs :
    /\ delivery[i].issue => open /\ delivery[i].failing /\ Outdated(delivery[i])
    /\ open => (delivery[i].issue <=> delivery[i].expired)

(***************************************************************************)
(* "The start and end of an outage go to the logbook" (BusDelivery), once  *)
(* each: the last outage entry tells the state of the delivery, and no     *)
(* entry is repeated however many retries fail.                            *)
(***************************************************************************)
LogbookTellsTheOutage ==
  \A i \in Inputs :
    LET d == delivery[i]
    IN  /\ d.entry = "expired" <=> d.expired
        /\ d.entry = "failed" <=> d.failing /\ ~d.expired
        /\ ~d.repeats
=============================================================================
