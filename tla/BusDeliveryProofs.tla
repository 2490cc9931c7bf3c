-------------------------- MODULE BusDeliveryProofs --------------------------
(***************************************************************************)
(* Proofs about module BusDelivery, for any inputs and durations: a lemma  *)
(* for each method about the record it returns, and the invariance.        *)
(***************************************************************************)
EXTENDS BusDelivery, TLAPS

(***************************************************************************)
(* The inductive invariant of one delivery, without its issue: an outage   *)
(* that is declared expired is a failing one that is old enough, and the   *)
(* last entry of the logbook tells which state the outage is in.           *)
(***************************************************************************)
DeliveryInv(d) ==
  /\ d \in DeliveryState
  /\ d.expired => d.failing /\ Outdated(d)
  /\ d.entry = "expired" <=> d.expired
  /\ d.entry = "failed" <=> d.failing /\ ~d.expired
  /\ ~d.repeats

IInv ==
  /\ open \in BOOLEAN
  /\ delivery \in [Inputs -> DeliveryState]
  /\ \A i \in Inputs : /\ DeliveryInv(delivery[i])
                       /\ delivery[i].issue <=> open /\ delivery[i].expired

\* A new delivery has no outage.
LEMMA NewDeliveryInv ==
  DeliveryInv(NewDelivery) /\ ~NewDelivery.issue /\ ~NewDelivery.expired
  BY ValueValidAssumption
  DEF DeliveryInv, NewDelivery, DeliveryState, OutageEntries, Off, Outdated

\* BusDelivery.succeeded ends the outage, its issue and its retries.
LEMMA SucceededInv ==
  ASSUME NEW d, DeliveryInv(d)
  PROVE  LET s == Succeeded(d)
         IN  /\ DeliveryInv(s) /\ s.age = 0 /\ s.retryIn = Off
             /\ ~s.issue /\ ~s.expired /\ ~s.failing
<1> DEFINE s == Succeeded(d)
           entry == IF d.failing THEN "recovered" ELSE d.entry
<1>1. d.failing \in BOOLEAN /\ d.entry \in OutageEntries
  BY DEF DeliveryInv, DeliveryState
<1>2. d.failing => d.entry # "recovered"
  BY DEF DeliveryInv, DeliveryState
<1>3. entry \in OutageEntries /\ 0 \in 0 .. AgeLimit
  BY <1>1, ValueValidAssumption DEF OutageEntries
<1>4. s = [d EXCEPT !.entry = entry, !.repeats = FALSE, !.age = 0,
                    !.retryIn = Off, !.issue = FALSE, !.expired = FALSE,
                    !.failing = FALSE]
  <2>1. CASE d.failing
    BY <1>2, <2>1 DEF Succeeded, Fire, DeliveryInv, DeliveryState
  <2>2. CASE ~d.failing
    BY <2>2 DEF Succeeded, DeliveryInv, DeliveryState
  <2>3. QED
    BY <2>1, <2>2
<1>5. s \in DeliveryState
  BY <1>3, <1>4 DEF DeliveryInv, DeliveryState
<1>6. /\ s.age = 0 /\ s.retryIn = Off /\ ~s.issue /\ ~s.expired /\ ~s.failing
      /\ s.entry = entry /\ ~s.repeats
  BY <1>4 DEF DeliveryInv, DeliveryState
<1>7. entry # "expired" /\ entry # "failed"
  BY <1>1 DEF DeliveryInv
<1>8. QED
  BY <1>5, <1>6, <1>7 DEF DeliveryInv

\* BusDelivery.failed starts an outage or goes on with it; the issue appears
\* with the entry that the value has expired, and a retry is armed.
LEMMA FailedInv ==
  ASSUME NEW d, DeliveryInv(d)
  PROVE  LET f == Failed(d)
         IN  /\ DeliveryInv(f) /\ f.age = d.age /\ f.failing
             /\ f.retryIn = IF d.retryIn = Off THEN RetryInterval ELSE d.retryIn
             /\ f.expired <=> d.expired \/ Outdated(d)
             /\ f.issue <=> d.issue \/ Outdated(d)
<1> DEFINE f == Failed(d)
           old == Outdated(d)
           entry == IF old \/ d.expired THEN "expired" ELSE "failed"
           retryIn == IF d.retryIn = Off THEN RetryInterval ELSE d.retryIn
<1>1. /\ d.failing \in BOOLEAN /\ d.expired \in BOOLEAN /\ d.issue \in BOOLEAN
      /\ old \in BOOLEAN /\ d.entry \in OutageEntries
      /\ d.age \in 0 .. AgeLimit
  BY DEF DeliveryInv, DeliveryState, Outdated
<1>2. /\ d.expired => d.failing /\ old
      /\ d.entry = "expired" <=> d.expired
      /\ d.entry = "failed" <=> d.failing /\ ~d.expired
      /\ ~d.repeats
  BY DEF DeliveryInv
<1>3. /\ entry \in OutageEntries
      /\ retryIn \in {Off} \union 0 .. RetryInterval
  BY RetryIntervalAssumption DEF OutageEntries, DeliveryInv, DeliveryState
<1>4. f = [d EXCEPT !.entry = entry, !.repeats = FALSE, !.failing = TRUE,
                    !.expired = d.expired \/ old, !.issue = d.issue \/ old,
                    !.retryIn = retryIn]
  <2>1. CASE d.failing /\ (d.expired \/ ~old)
    BY <1>1, <1>2, <2>1 DEF Failed, Fire, DeliveryInv, DeliveryState
  <2>2. CASE d.failing /\ ~d.expired /\ old
    BY <1>1, <1>2, <2>2 DEF Failed, Fire, DeliveryInv, DeliveryState
  <2>3. CASE ~d.failing /\ old
    BY <1>1, <1>2, <2>3 DEF Failed, Fire, DeliveryInv, DeliveryState, Outdated
  <2>4. CASE ~d.failing /\ ~old
    BY <1>1, <1>2, <2>4 DEF Failed, Fire, DeliveryInv, DeliveryState, Outdated
  <2>5. QED
    BY <1>1, <2>1, <2>2, <2>3, <2>4
<1>5. f \in DeliveryState
  BY <1>1, <1>3, <1>4 DEF DeliveryInv, DeliveryState
<1>6. /\ f.age = d.age /\ f.retryIn = retryIn /\ f.failing = TRUE
      /\ f.expired = (d.expired \/ old) /\ f.issue = (d.issue \/ old)
      /\ f.entry = entry /\ f.repeats = FALSE
  BY <1>4 DEF DeliveryInv, DeliveryState
<1>7. Outdated(f) = old
  BY <1>6 DEF Outdated
<1>8. QED
  BY <1>1, <1>2, <1>5, <1>6, <1>7 DEF DeliveryInv

\* The timer and the stop of a delivery leave its outage alone.
LEMMA RetryFiredInv ==
  ASSUME NEW d, DeliveryInv(d)
  PROVE  LET r == RetryFired(d)
         IN  /\ DeliveryInv(r) /\ r.retryIn = Off /\ r.issue = d.issue
             /\ r.expired = d.expired /\ r.failing = d.failing
             /\ r.age = d.age
  BY DEF DeliveryInv, DeliveryState, RetryFired, Outdated

LEMMA StopDeliveryInv ==
  ASSUME NEW d, DeliveryInv(d)
  PROVE  LET s == StopDelivery(d)
         IN  /\ DeliveryInv(s) /\ s.retryIn = Off /\ ~s.issue
             /\ s.expired = d.expired
  BY DEF DeliveryInv, DeliveryState, StopDelivery, Outdated

\* Time leaves the outage alone: what is too old stays too old.
LEMMA OlderDeliveryInv ==
  ASSUME NEW d, DeliveryInv(d)
  PROVE  LET o == Older(d)
         IN  /\ DeliveryInv(o) /\ o.issue = d.issue
             /\ o.expired = d.expired /\ o.failing = d.failing
             /\ o.age = IF d.age < AgeLimit THEN d.age + 1 ELSE d.age
             /\ o.retryIn = Off <=> d.retryIn = Off
<1> DEFINE o == Older(d)
           age == IF d.age < AgeLimit THEN d.age + 1 ELSE d.age
           retryIn == IF d.retryIn > 0 THEN d.retryIn - 1 ELSE d.retryIn
<1>1. /\ age \in 0 .. AgeLimit
      /\ retryIn \in {Off} \union 0 .. RetryInterval
      /\ retryIn = Off <=> d.retryIn = Off
  BY RetryIntervalAssumption, ValueValidAssumption
  DEF DeliveryInv, DeliveryState, Off
<1>2. o = [d EXCEPT !.age = age, !.retryIn = retryIn]
  BY DEF Older, DeliveryInv, DeliveryState
<1>3. o \in DeliveryState
  BY <1>1, <1>2 DEF DeliveryInv, DeliveryState
<1>4. /\ o.age = age /\ o.retryIn = retryIn /\ o.issue = d.issue
      /\ o.expired = d.expired /\ o.failing = d.failing
      /\ o.entry = d.entry /\ o.repeats = d.repeats
  BY <1>2 DEF DeliveryInv, DeliveryState
<1>5. Outdated(d) => Outdated(o)
  BY <1>4, ValueValidAssumption DEF Outdated, DeliveryInv, DeliveryState
<1>6. QED
  BY <1>1, <1>3, <1>4, <1>5 DEF DeliveryInv

-----------------------------------------------------------------------------
(***************************************************************************)
(* The invariant of all deliveries is inductive.                           *)
(***************************************************************************)
THEOREM DeliveryInvariant == Spec => []IInv
<1> USE DEF IInv
<1>1. Init => IInv
  BY NewDeliveryInv DEF Init, DeliveryInv
<1>2. IInv /\ [Next]_vars => IInv'
  <2> SUFFICES ASSUME IInv, [Next]_vars PROVE IInv'
    OBVIOUS
  <2>1. ASSUME NEW i \in Inputs, NEW d, DeliveryInv(d), Set(i, d),
               d.issue <=> d.expired
        PROVE  IInv'
    BY <2>1 DEF Set, DeliveryInv
  <2>2. ASSUME NEW i \in Inputs, SucceededStep(i)
        PROVE  IInv'
    BY <2>1, <2>2, SucceededInv DEF SucceededStep
  <2>3. ASSUME NEW d, DeliveryInv(d), d.issue <=> d.expired
        PROVE  /\ DeliveryInv(Failed(d))
               /\ Failed(d).issue <=> Failed(d).expired
    BY <2>3, FailedInv
  <2>4. ASSUME NEW S \in SUBSET Inputs, FailedStep(S)
        PROVE  IInv'
    <3>1. ASSUME NEW i \in Inputs
          PROVE  LET d == IF i \in S THEN Failed(delivery[i]) ELSE delivery[i]
                 IN  DeliveryInv(d) /\ (d.issue <=> d.expired)
      BY <2>3, <2>4 DEF FailedStep
    <3>2. QED
      BY <2>4, <3>1 DEF FailedStep, DeliveryInv
  <2>5. ASSUME NEW i \in Inputs, RetryStep(i)
        PROVE  IInv'
    <3>1. open
      BY <2>5 DEF RetryStep, Set
    <3>2. /\ DeliveryInv(RetryFired(delivery[i]))
          /\ RetryFired(delivery[i]).issue <=> RetryFired(delivery[i]).expired
      BY <3>1, RetryFiredInv
    <3>3. QED
      BY <2>1, <2>3, <2>5, <3>2 DEF RetryStep
  <2>6. CASE StopStep
    <3>1. \A i \in Inputs : /\ DeliveryInv(StopDelivery(delivery[i]))
                            /\ ~StopDelivery(delivery[i]).issue
      BY StopDeliveryInv
    <3>2. QED
      BY <2>6, <3>1 DEF StopStep, DeliveryInv
  <2>7. CASE NewStep
    BY <2>7, NewDeliveryInv DEF NewStep, DeliveryInv
  <2>8. CASE Tick
    <3>1. \A i \in Inputs :
            /\ DeliveryInv(Older(delivery[i]))
            /\ Older(delivery[i]).issue = delivery[i].issue
            /\ Older(delivery[i]).expired = delivery[i].expired
      BY OlderDeliveryInv
    <3>2. QED
      BY <2>8, <3>1 DEF Tick, DeliveryInv
  <2>9. CASE UNCHANGED vars
    BY <2>9 DEF vars
  <2>10. QED
    BY <2>2, <2>4, <2>5, <2>6, <2>7, <2>8, <2>9 DEF Next
<1>3. QED
  BY <1>1, <1>2, PTL DEF Spec

\* Every delivery has the type of its record.
THEOREM DeliveryTypeCorrect == Spec => []TypeOK
<1>1. IInv => TypeOK
  BY DEF IInv, TypeOK
<1>2. QED
  BY <1>1, DeliveryInvariant, PTL

\* The issue "not delivered" is shown for an expired outage and only then.
THEOREM IssueIsAlwaysJustified == Spec => []IssueIsJustified
<1>1. IInv => IssueIsJustified
  BY DEF IInv, DeliveryInv, IssueIsJustified
<1>2. QED
  BY <1>1, DeliveryInvariant, PTL

\* The logbook tells the start, the expiry and the end of an outage once each.
THEOREM LogbookAlwaysTells == Spec => []LogbookTellsTheOutage
<1>1. IInv => LogbookTellsTheOutage
  BY DEF IInv, DeliveryInv, LogbookTellsTheOutage
<1>2. QED
  BY <1>1, DeliveryInvariant, PTL
=============================================================================
