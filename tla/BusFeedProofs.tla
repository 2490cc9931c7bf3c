---------------------------- MODULE BusFeedProofs ----------------------------
(***************************************************************************)
(* Proofs about module BusFeed, for any inputs, durations and bounds: its  *)
(* safety invariants, and that the feeder uses its logs and deliveries as  *)
(* modules BusLog and BusDelivery specify, so that what is proved of them  *)
(* holds of the feeder; last, how long an input can be without a success.  *)
(* Every invariant is proved of one step at a time, in states where the    *)
(* type invariant TInv of BusFeedTypes holds.                              *)
(***************************************************************************)
EXTENDS BusFeedTypes, FiniteSetTheorems

\* A timer that is off is not due.
LEMMA TimersOff ==
  ASSUME NEW i \in Inputs
  PROVE  /\ delivery[i].retryIn = Off => ~Delivery!Due(delivery[i])
         /\ log[i].timer = Off => ~Log!Due(log[i])
  BY DEF Delivery!Due, Log!Due, Off

\* Nothing of a stopped feeder comes back by itself: every handler needs a
\* timer, a request or the running phase.
LEMMA Stopped == TInv /\ StoppedIsQuiet /\ [Next]_vars => StoppedIsQuiet'
<1> SUFFICES ASSUME TInv, StoppedIsQuiet, [Next]_vars, phase' = "stopped"
             PROVE  StoppedIsQuiet'
  BY DEF StoppedIsQuiet
<1>1. CASE Stop
  BY <1>1, LogOps, DeliveryOps DEF Stop, StoppedIsQuiet, TInv
<1>2. CASE phase # "stopped" /\ ~Stop
  <2>1. Next \/ UNCHANGED vars
    OBVIOUS
  <2>2. phase' # "stopped"
    BY <1>2, <2>1
    DEF vars, Next, Start, Listen, Refresh, StartNext, Retry, Flush,
        RegistryChange, WriteSucceeds, WriteFails, Served, SourceReport,
        CoreStarted, PollResult, ConnectionChange, unchangedFeeder, Tick,
        startVars
  <2>3. QED
    BY <2>2
<1>3. CASE phase = "stopped"
  <2>1. /\ refreshIn = Off
        /\ \A i \in Inputs :
             /\ inflight[i] = <<>>
             /\ delivery[i].retryIn = Off /\ log[i].timer = Off
             /\ ~missing[i] /\ ~noData[i] /\ ~delivery[i].issue
             /\ ~Delivery!Due(delivery[i]) /\ ~Log!Due(log[i])
    BY <1>3, TimersOff DEF StoppedIsQuiet
  <2> DEFINE quiet == /\ refreshIn' = refreshIn /\ inflight' = inflight
                      /\ noData' = noData
                      /\ \A i \in Inputs :
                           /\ missing'[i] = missing[i]
                           /\ log'[i].timer = Off
                           /\ delivery'[i].retryIn = Off /\ ~delivery'[i].issue
  <2>2. ASSUME NEW i \in Inputs, NEW s \in SourceStates, SourceReport(i, s)
        PROVE  quiet
    BY <1>3, <2>1, <2>2 DEF SourceReport, sourceVars
  <2>3. ASSUME NEW i \in Inputs, RegistryChange(i)
        PROVE  quiet
    BY <1>3, <2>1, <2>3 DEF RegistryChange, TInv, TypeOK
  <2>4. ASSUME CoreStarted \/ PollResult \/ ConnectionChange \/ UNCHANGED vars
        PROVE  quiet
    <3>1. UNCHANGED <<refreshIn, inflight, missing, noData, log, delivery>>
      BY <2>4 DEF CoreStarted, PollResult, ConnectionChange,
                  unchangedFeeder, sourceVars, vars
    <3>2. QED
      BY <2>1, <3>1
  <2>5. ASSUME Tick PROVE quiet
    <3>1. refreshIn' = refreshIn
      BY <2>1, <2>5 DEF Tick
    <3>2. \A i \in Inputs : /\ log'[i].timer = Off
                            /\ delivery'[i].retryIn = Off
                            /\ ~delivery'[i].issue
      BY <2>1, <2>5, LogOps, DeliveryOps DEF Tick, TInv
    <3>3. UNCHANGED <<inflight, missing, noData>>
      BY <2>5 DEF Tick
    <3>4. QED
      BY <3>1, <3>2, <3>3
  <2>6. ~Start
    BY DEF Start
  <2>7. ~Listen /\ ~Stop
    BY <1>3 DEF Listen, Stop
  <2>8. ~Refresh
    BY <2>1 DEF Refresh, Off
  <2>9. \A i \in Inputs : ~StartNext(i) /\ ~Retry(i) /\ ~Flush(i)
    BY <1>3, <2>1 DEF StartNext, Retry, Flush
  <2>10. \A i \in Inputs : ~WriteSucceeds(i) /\ ~WriteFails(i)
    BY <2>1 DEF WriteSucceeds, WriteFails, Served
  <2> HIDE DEF quiet
  <2>11. quiet
    BY <2>2, <2>3, <2>4, <2>5, <2>6, <2>7, <2>8, <2>9, <2>10 DEF Next
  <2>12. QED
    BY <2>1, <2>11 DEF StoppedIsQuiet, quiet
<1>4. QED
  BY <1>1, <1>2, <1>3

(***************************************************************************)
(* No timer, request or issue outlives async_stop, for any inputs and      *)
(* durations and whenever the entry is unloaded.                           *)
(***************************************************************************)
THEOREM StoppedFeederIsQuiet == Spec => []StoppedIsQuiet
<1>1. Init => StoppedIsQuiet
  BY DEF Init, StoppedIsQuiet, Log!NewLog, Delivery!NewDelivery, Log!Off,
         Delivery!Off, Off
<1>2. QED
  BY <1>1, TypeInit, TypeStep, Stopped, PTL DEF Spec

-----------------------------------------------------------------------------
\* Only the running feeder has issues and a timer that makes them.
NoDataInv ==
  /\ NoDataMeansUnusable
  /\ phase # "running" => refreshIn = Off /\ \A i \in Inputs : ~noData[i]

\* Every step keeps NoDataInv: whatever makes a source usable is heard by the
\* running feeder, and only then can the issue exist.
LEMMA NoDataStep == TInv /\ NoDataInv /\ [Next]_vars => NoDataInv'
<1> SUFFICES ASSUME TInv, NoDataInv, [Next]_vars PROVE NoDataInv'
  OBVIOUS
<1> USE DEF NoDataInv, NoDataMeansUnusable
<1>1. ASSUME NEW S, NEW d, Forced(S, d, missing, noData),
             UNCHANGED <<source, phase, refreshIn>>
      PROVE  NoDataInv'
  <2>1. \A i \in Inputs : noData'[i] => noData[i]
    BY <1>1, ForcedIssues
  <2>2. QED
    BY <1>1, <2>1
<1>2. ASSUME NEW i \in Inputs, StartNext(i) PROVE NoDataInv'
  BY <1>1, <1>2 DEF StartNext, Forced, haVars
<1>3. ASSUME NEW i \in Inputs, Retry(i) PROVE NoDataInv'
  BY <1>1, <1>3 DEF Retry, Forced, haVars, startVars
<1>4. ASSUME NEW i \in Inputs, NEW s \in SourceStates, SourceReport(i, s)
      PROVE  NoDataInv'
  <2>1. /\ source' \in [Inputs -> SourceStates]
        /\ source' = [source EXCEPT ![i] = s]
        /\ UNCHANGED <<phase, refreshIn>>
    BY <1>4 DEF SourceReport, startVars, TInv, TypeOK
  <2>2. CASE phase = "running"
    <3>1. Changed(i)
      BY <1>4, <2>2 DEF SourceReport, Changed
    <3>2. \A j \in Inputs :
            noData'[j] <=> noData[j] /\ ~(i = j /\ Usable(source'[j]))
      BY <3>1, ChangedIssues
    <3>3. QED
      BY <2>1, <2>2, <3>2 DEF TInv, TypeOK
  <2>3. CASE phase # "running"
    BY <1>4, <2>1, <2>3 DEF SourceReport, sourceVars
  <2>4. QED
    BY <2>2, <2>3
<1>5. CASE Refresh
  <2> DEFINE m == [i \in Inputs |-> IF coreRunning THEN Gone(i)
                                    ELSE missing[i]]
             n == [i \in Inputs |-> IF coreRunning THEN ~Gone(i) /\ Stale(i)
                                    ELSE noData[i]]
  <2>1. /\ Forced(Inputs, delivery, m, n)
        /\ UNCHANGED <<source, phase>> /\ refreshIn = 0
    BY <1>5 DEF Refresh, Forced, haVars, startVars
  <2> HIDE DEF m, n
  <2>2. \A i \in Inputs :
          noData'[i] <=> n[i] /\ ~(i \in Inputs /\ Usable(source[i]))
    BY <2>1, ForcedIssues
  <2>3. phase = "running"
    BY <2>1 DEF Off
  <2>4. QED
    BY <2>1, <2>2, <2>3
<1>6. CASE Start
  BY <1>6 DEF Start
<1>7. CASE Listen
  BY <1>7 DEF Listen, haVars, sourceVars
<1>8. CASE Stop
  BY <1>8 DEF Stop, haVars
<1>9. ASSUME NEW i \in Inputs,
             \/ RegistryChange(i) \/ Flush(i)
             \/ WriteSucceeds(i) \/ WriteFails(i)
      PROVE  NoDataInv'
  BY <1>9 DEF RegistryChange, Flush, WriteSucceeds, WriteFails, Served, haVars,
              startVars, sourceVars
<1>10. CASE CoreStarted \/ PollResult \/ ConnectionChange \/ UNCHANGED vars
  BY <1>10 DEF CoreStarted, PollResult, ConnectionChange, unchangedFeeder,
               haVars, startVars, sourceVars, vars
<1>11. CASE Tick
  BY <1>11 DEF Tick, haVars, startVars
<1>12. QED
  BY <1>2, <1>3, <1>4, <1>5, <1>6, <1>7, <1>8, <1>9, <1>10, <1>11 DEF Next

(***************************************************************************)
(* The issue "no data" never exists for a source whose present state can   *)
(* be sent: _check_sources and the attempt that follows it in              *)
(* _handle_interval, and every report the feeder hears, agree.             *)
(***************************************************************************)
THEOREM NoDataIsHonest == Spec => []NoDataMeansUnusable
<1>1. Init => NoDataInv
  BY DEF Init, NoDataInv, NoDataMeansUnusable
<1>2. NoDataInv => NoDataMeansUnusable
  BY DEF NoDataInv
<1>3. QED
  BY <1>1, <1>2, TypeInit, TypeStep, NoDataStep, PTL DEF Spec

-----------------------------------------------------------------------------
\* Every step keeps SentValueIsHonest: the unit, its age and the delivery
\* change together or the delivery fails.
LEMMA SentStep ==
  TInv /\ SentValueIsHonest /\ [Next]_vars => SentValueIsHonest'
<1> SUFFICES ASSUME TInv, SentValueIsHonest, [Next]_vars
             PROVE  SentValueIsHonest'
  OBVIOUS
<1> USE DEF SentValueIsHonest
<1>1. ASSUME NEW d, UNCHANGED <<phase, unitVars, written>>,
             \A i \in Inputs :
               /\ d[i].age = delivery[i].age
               /\ d[i].failing = delivery[i].failing
               /\ DP!DeliveryInv(d[i])
               /\ delivery'[i] = d[i] \/ delivery'[i] = Delivery!Failed(d[i])
      PROVE  SentValueIsHonest'
  <2>1. \A i \in Inputs : /\ delivery'[i].age = delivery[i].age
                          /\ delivery[i].failing => delivery'[i].failing
    BY <1>1, DeliveryOps
  <2>2. QED
    BY <1>1, <2>1 DEF unitVars
<1>2. \A i \in Inputs : DP!DeliveryInv(delivery[i])
  BY DEF TInv
<1>3. ASSUME NEW S, NEW m, NEW n, Forced(S, delivery, m, n),
             UNCHANGED <<phase, unitVars, written>>
      PROVE  SentValueIsHonest'
  <2>1. \A i \in Inputs : \/ delivery'[i] = delivery[i]
                          \/ delivery'[i] = Delivery!Failed(delivery[i])
    BY <1>3, ForcedRequests
  <2>2. QED
    BY <1>1, <1>2, <1>3, <2>1
<1>4. ASSUME NEW i \in Inputs, StartNext(i) PROVE SentValueIsHonest'
  BY <1>3, <1>4 DEF StartNext, Forced
<1>5. CASE Refresh
  BY <1>3, <1>5 DEF Refresh, Forced, startVars
<1>6. ASSUME NEW i \in Inputs, Retry(i) PROVE SentValueIsHonest'
  <2> DEFINE d == [delivery EXCEPT ![i] = Delivery!RetryFired(@)]
  <2>1. \A j \in Inputs : /\ d[j].age = delivery[j].age
                          /\ d[j].failing = delivery[j].failing
                          /\ DP!DeliveryInv(d[j])
    BY <1>2, DeliveryOps DEF TInv, TypeOK
  <2>2. /\ Forced({i}, d, missing, noData)
        /\ UNCHANGED <<phase, unitVars, written>>
    BY <1>6 DEF Retry, Forced, startVars
  <2> HIDE DEF d
  <2>3. \A j \in Inputs : delivery'[j] = d[j]
                          \/ delivery'[j] = Delivery!Failed(d[j])
    BY <2>2, ForcedRequests
  <2>4. QED
    BY <1>1, <2>1, <2>2, <2>3
<1>7. ASSUME NEW i \in Inputs, NEW s \in SourceStates, SourceReport(i, s)
      PROVE  SentValueIsHonest'
  <2>1. UNCHANGED <<phase, unitVars, written>>
    BY <1>7 DEF SourceReport, startVars
  <2>2. CASE Changed(i)
    <3>1. \A j \in Inputs : \/ delivery'[j] = delivery[j]
                            \/ delivery'[j] = Delivery!Failed(delivery[j])
      BY <2>2, ChangedRequests
    <3>2. QED
      BY <1>1, <1>2, <2>1, <3>1
  <2>3. CASE delivery' = delivery
    BY <1>1, <1>2, <2>1, <2>3
  <2>4. QED
    BY <1>7, <2>2, <2>3 DEF SourceReport, Changed
<1>8. CASE Start
  BY <1>8 DEF Start
<1>9. CASE Stop
  BY <1>9 DEF Stop
<1>10. CASE Listen
  BY <1>10 DEF Listen, unitVars, TInv
<1>11. ASSUME NEW i \in Inputs, RegistryChange(i) \/ Flush(i)
       PROVE  SentValueIsHonest'
  BY <1>11 DEF RegistryChange, Flush, unitVars, startVars
<1>12. ASSUME NEW i \in Inputs, WriteSucceeds(i) PROVE SentValueIsHonest'
  <2> DEFINE v == Head(inflight[i])
  <2>1. /\ unit' = [unit EXCEPT ![i] = v]
        /\ unitAge' = [unitAge EXCEPT ![i] = 0]
        /\ written' = [written EXCEPT ![i] = v]
        /\ delivery' = [delivery EXCEPT ![i] = Delivery!Succeeded(@)]
        /\ phase' = phase
    BY <1>12 DEF WriteSucceeds, Received, Served
  <2>2. Delivery!Succeeded(delivery[i]).age = 0
    BY <1>2, DeliveryOps
  <2>3. QED
    BY <2>1, <2>2 DEF TInv, TypeOK
<1>13. ASSUME NEW i \in Inputs, WriteFails(i) PROVE SentValueIsHonest'
  <2> DEFINE f == Delivery!Failed(delivery[i])
  <2>1. /\ \/ UNCHANGED unitVars
           \/ /\ unit' = [unit EXCEPT ![i] = Head(inflight[i])]
              /\ unitAge' = [unitAge EXCEPT ![i] = 0]
        /\ delivery' = [delivery EXCEPT ![i] = f]
        /\ UNCHANGED <<phase, written>>
    BY <1>13 DEF WriteFails, Received, Served
  <2>2. f.age = delivery[i].age /\ f.failing /\ f.age \in Nat
    BY <1>2, DeliveryOps, DurationAssumption
    DEF TInv, TypeOK, Delivery!DeliveryState
  <2> HIDE DEF f
  <2>3. QED
    BY <2>1, <2>2 DEF unitVars, TInv, TypeOK
<1>14. CASE CoreStarted \/ PollResult \/ ConnectionChange \/ UNCHANGED vars
  BY <1>14 DEF CoreStarted, PollResult, ConnectionChange, unchangedFeeder,
               unitVars, startVars, vars
<1>15. CASE Tick
  <2>1. ASSUME NEW i \in Inputs
        PROVE  /\ delivery'[i].failing = delivery[i].failing
               /\ delivery'[i].age = IF delivery[i].age < AgeLimit
                                     THEN delivery[i].age + 1
                                     ELSE delivery[i].age
               /\ unitAge'[i] = IF unitAge[i] < ValueValid
                                THEN unitAge[i] + 1 ELSE unitAge[i]
    BY <1>2, <1>15, DeliveryOps DEF Tick, Older
  <2>2. UNCHANGED <<phase, written, unit>>
    BY <1>15 DEF Tick, startVars
  <2>3. \A i \in Inputs : /\ delivery[i].age \in 0 .. AgeLimit
                          /\ unitAge[i] \in 0 .. ValueValid
    BY DEF TInv, TypeOK, Delivery!DeliveryState
  <2>4. QED
    BY <2>1, <2>2, <2>3, DurationAssumption
<1>16. QED
  BY <1>4, <1>5, <1>6, <1>7, <1>8, <1>9, <1>10, <1>11, <1>12, <1>13, <1>14,
     <1>15 DEF Next

(***************************************************************************)
(* What the feeder takes for the last value of the unit (_written) is what *)
(* the unit holds unless a write failed since, however requests, answers,  *)
(* retries and reports interleave.                                         *)
(***************************************************************************)
THEOREM SentValueIsAlwaysHonest == Spec => []SentValueIsHonest
<1>1. Init => SentValueIsHonest
  BY DEF Init, SentValueIsHonest
<1>2. QED
  BY <1>1, TypeInit, TypeStep, SentStep, PTL DEF Spec

-----------------------------------------------------------------------------
\* A steady source is usable now: the history variable follows the source.
RetriedInv ==
  /\ SteadySourceIsRetried
  /\ \A i \in Inputs : steady[i] => Usable(source[i])

\* Every step keeps RetriedInv: a retry timer that fires reads a steady source,
\* so it ends in a request or arms the timer again.
LEMMA RetriedStep == TInv /\ RetriedInv /\ [Next]_vars => RetriedInv'
<1> SUFFICES ASSUME TInv, RetriedInv, [Next]_vars PROVE RetriedInv'
  OBVIOUS
<1> USE DEF RetriedInv, SteadySourceIsRetried
<1>1. \A i \in Inputs : /\ DP!DeliveryInv(delivery[i])
                        /\ inflight[i] \in Seq(Values)
  BY DEF TInv, TypeOK
<1>2. \A s \in Seq(Values), v \in Values : Append(s, v) # <<>>
  OBVIOUS
<1>3. ASSUME NEW S, NEW d, NEW m, NEW n, Forced(S, d, m, n),
             UNCHANGED <<source, steady>>,
             phase' = phase,
             \A i \in Inputs : /\ DP!DeliveryInv(d[i])
                               /\ d[i] = delivery[i] \/ i \in S
      PROVE  RetriedInv'
  <2>1. ASSUME NEW i \in Inputs, phase # "stopped", steady[i],
               delivery'[i].failing
        PROVE  delivery'[i].retryIn # Off \/ inflight'[i] # <<>>
    <3>1. Usable(source[i])
      BY <2>1
    <3>2. CASE i \in S /\ ~problem
      <4>1. inflight'[i] = Append(inflight[i], source[i])
        BY <1>3, <3>1, <3>2, ForcedRequests
      <4>2. QED
        BY <1>1, <1>2, <3>1, <4>1 DEF Usable
    <3>3. CASE i \in S /\ problem
      <4>1. delivery'[i] = Delivery!Failed(d[i])
        BY <1>3, <3>1, <3>3, ForcedRequests
      <4>2. QED
        BY <1>3, <4>1, DeliveryOps
    <3>4. CASE i \notin S
      <4>1. delivery'[i] = delivery[i] /\ inflight'[i] = inflight[i]
        BY <1>3, <3>4, ForcedRequests
      <4>2. QED
        BY <2>1, <4>1
    <3>5. QED
      BY <3>2, <3>3, <3>4
  <2>2. QED
    BY <1>3, <2>1
<1>4. ASSUME NEW i \in Inputs, StartNext(i) PROVE RetriedInv'
  BY <1>1, <1>3, <1>4 DEF StartNext, Forced, haVars
<1>5. CASE Refresh
  BY <1>1, <1>3, <1>5 DEF Refresh, Forced, haVars, startVars
<1>6. ASSUME NEW i \in Inputs, Retry(i) PROVE RetriedInv'
  <2> DEFINE d == [delivery EXCEPT ![i] = Delivery!RetryFired(@)]
  <2>1. \A j \in Inputs : /\ DP!DeliveryInv(d[j])
                          /\ d[j] = delivery[j] \/ j \in {i}
    BY <1>1, DeliveryOps DEF TInv, TypeOK
  <2>2. /\ Forced({i}, d, missing, noData)
        /\ UNCHANGED <<source, steady>>
        /\ phase' = phase
    BY <1>6 DEF Retry, Forced, haVars, startVars
  <2> HIDE DEF d
  <2>3. QED
    BY <1>3, <2>1, <2>2
<1>7. ASSUME NEW i \in Inputs, NEW s \in SourceStates, SourceReport(i, s)
      PROVE  RetriedInv'
  <2>1. /\ \A j \in Inputs : steady'[j] => steady[j] /\ Usable(source'[j])
        /\ phase' = phase
    BY <1>7 DEF SourceReport, startVars, TInv, TypeOK
  <2>2. CASE Changed(i)
    <3>1. ASSUME NEW j \in Inputs, phase # "stopped", steady'[j],
                 delivery'[j].failing
          PROVE  delivery'[j].retryIn # Off \/ inflight'[j] # <<>>
      <4>1. CASE delivery'[j] = Delivery!Failed(delivery[j])
        BY <1>1, <4>1, DeliveryOps
      <4>2. CASE /\ delivery'[j] = delivery[j]
                 /\ \/ inflight'[j] = inflight[j]
                    \/ /\ inflight'[j] = Append(inflight[j], source'[j])
                       /\ Usable(source'[j])
        BY <1>1, <1>2, <2>1, <3>1, <4>2 DEF Usable
      <4>3. QED
        BY <2>2, <4>1, <4>2, ChangedRequests DEF Wanted
    <3>2. QED
      BY <2>1, <3>1
  <2>3. CASE delivery' = delivery /\ inflight' = inflight
    BY <2>1, <2>3
  <2>4. QED
    BY <1>7, <2>2, <2>3 DEF SourceReport, Changed
<1>8. CASE Start
  <2>1. /\ \A i \in Inputs : /\ steady'[i] = Usable(source[i])
                             /\ ~delivery'[i].failing
        /\ source' = source
    BY <1>8, NewDeliveryOps DEF Start
  <2>2. QED
    BY <2>1
<1>9. CASE Stop
  BY <1>9 DEF Stop, haVars, historyVars
<1>10. CASE Listen
  BY <1>10 DEF Listen, haVars, historyVars
<1>11. ASSUME NEW i \in Inputs, RegistryChange(i) \/ Flush(i)
       PROVE  RetriedInv'
  BY <1>11 DEF RegistryChange, Flush, haVars, startVars, historyVars
<1>12. ASSUME NEW i \in Inputs, WriteSucceeds(i) PROVE RetriedInv'
  <2>1. /\ delivery' = [delivery EXCEPT ![i] = Delivery!Succeeded(@)]
        /\ steady' = [steady EXCEPT ![i] = Usable(source[i])]
        /\ inflight' = [inflight EXCEPT ![i] = Tail(@)]
        /\ UNCHANGED <<phase, source>>
    BY <1>12 DEF WriteSucceeds, Served, haVars
  <2>2. ~Delivery!Succeeded(delivery[i]).failing
    BY <1>1, DeliveryOps
  <2>3. QED
    BY <2>1, <2>2 DEF TInv, TypeOK
<1>13. ASSUME NEW i \in Inputs, WriteFails(i) PROVE RetriedInv'
  <2>1. /\ delivery' = [delivery EXCEPT ![i] = Delivery!Failed(@)]
        /\ inflight' = [inflight EXCEPT ![i] = Tail(@)]
        /\ UNCHANGED <<phase, source, steady>>
    BY <1>13 DEF WriteFails, Served, haVars
  <2>2. Delivery!Failed(delivery[i]).retryIn # Off
    BY <1>1, DeliveryOps
  <2>3. QED
    BY <2>1, <2>2 DEF TInv, TypeOK
<1>14. CASE CoreStarted \/ PollResult \/ ConnectionChange \/ UNCHANGED vars
  BY <1>14 DEF CoreStarted, PollResult, ConnectionChange, unchangedFeeder,
               haVars, startVars, historyVars, vars
<1>15. CASE Tick
  <2>1. \A i \in Inputs :
          /\ delivery'[i].failing = delivery[i].failing
          /\ delivery'[i].retryIn = Off <=> delivery[i].retryIn = Off
    BY <1>1, <1>15, DeliveryOps DEF Tick
  <2>2. UNCHANGED <<phase, source, steady, inflight>>
    BY <1>15 DEF Tick, haVars, startVars, historyVars
  <2>3. QED
    BY <2>1, <2>2
<1>16. QED
  BY <1>4, <1>5, <1>6, <1>7, <1>8, <1>9, <1>10, <1>11, <1>12, <1>13, <1>14,
     <1>15 DEF Next

(***************************************************************************)
(* After a failed write of a source that stays usable, a retry is armed or *)
(* a request is under way, in every state of a feeder that is not stopped. *)
(***************************************************************************)
THEOREM SteadySourceIsAlwaysRetried == Spec => []SteadySourceIsRetried
<1>1. Init => RetriedInv
  BY DEF Init, RetriedInv, SteadySourceIsRetried
<1>2. RetriedInv => SteadySourceIsRetried
  BY DEF RetriedInv
<1>3. QED
  BY <1>1, <1>2, TypeInit, TypeStep, RetriedStep, PTL DEF Spec

-----------------------------------------------------------------------------
\* The last request in flight carries the present state of the source, if a
\* forced write read it; with none in flight, the unit holds it or the write
\* failed.
SettleInv ==
  \A i \in Inputs :
    phase # "stopped" /\ reading[i] = "forced" /\ Usable(source[i]) =>
      /\ inflight[i] = <<>> => delivery[i].failing \/ unit[i] = source[i]
      /\ inflight[i] # <<>> => inflight[i][Len(inflight[i])] = source[i]

\* The last element of a sequence that is appended to is the new one.
LEMMA AppendLast ==
  ASSUME NEW s \in Seq(Values), NEW v \in Values
  PROVE  Append(s, v) # <<>> /\ Append(s, v)[Len(Append(s, v))] = v
  OBVIOUS

\* The last element of a tail is that of the sequence; with one element it is
\* the head.
LEMMA TailLast ==
  ASSUME NEW s \in Seq(Values), s # <<>>
  PROVE  /\ Tail(s) = <<>> => Head(s) = s[Len(s)]
         /\ Tail(s) # <<>> => Tail(s)[Len(Tail(s))] = s[Len(s)]
<1> DEFINE t == Tail(s)
<1>1. /\ t \in Seq(Values) /\ Len(t) = Len(s) - 1
      /\ \A k \in 1 .. Len(s) - 1 : t[k] = s[k + 1]
      /\ Len(s) \in Nat \ {0} /\ Head(s) = s[1]
  OBVIOUS
<1> HIDE DEF t
<1>2. t = <<>> <=> Len(t) = 0
  BY <1>1
<1>3. CASE t = <<>>
  <2>1. Len(s) = 1
    BY <1>1, <1>2, <1>3
  <2>2. QED
    BY <1>1, <1>3, <2>1 DEF t
<1>4. CASE t # <<>>
  <2>1. Len(t) \in 1 .. Len(s) - 1
    BY <1>1, <1>2, <1>4
  <2>2. t[Len(t)] = s[Len(s)]
    BY <1>1, <2>1
  <2>3. QED
    BY <1>4, <2>2 DEF t
<1>5. QED
  BY <1>3, <1>4

\* Every step keeps SettleInv: the last request in flight carries the present
\* state, and once it is served that state is in the unit or the delivery
\* fails.
LEMMA SettleStep == TInv /\ SettleInv /\ [Next]_vars => SettleInv'
<1> SUFFICES ASSUME TInv, SettleInv, [Next]_vars PROVE SettleInv'
  OBVIOUS
<1>1. \A i \in Inputs : /\ DP!DeliveryInv(delivery[i])
                        /\ inflight[i] \in Seq(Values)
  BY DEF TInv, TypeOK
<1>2. ASSUME NEW S, NEW d, NEW m, NEW n, Forced(S, d, m, n),
             ForcedReading(S), UNCHANGED <<source, unit>>,
             phase' = phase,
             \A i \in Inputs : /\ DP!DeliveryInv(d[i])
                               /\ d[i] = delivery[i] \/ i \in S
      PROVE  SettleInv'
  <2>1. ASSUME NEW i \in Inputs, phase # "stopped", reading'[i] = "forced",
               Usable(source[i])
        PROVE  /\ inflight'[i] = <<>> => \/ delivery'[i].failing
                                         \/ unit[i] = source[i]
               /\ inflight'[i] # <<>> =>
                    inflight'[i][Len(inflight'[i])] = source[i]
    <3>1. CASE i \in S /\ ~problem
      <4>1. inflight'[i] = Append(inflight[i], source[i])
        BY <1>2, <2>1, <3>1, ForcedRequests
      <4>2. QED
        BY <1>1, <2>1, <4>1, AppendLast DEF Usable
    <3>2. CASE i \in S /\ problem
      <4>1. /\ delivery'[i] = Delivery!Failed(d[i])
            /\ inflight'[i] = inflight[i]
        BY <1>2, <2>1, <3>2, ForcedRequests
      <4>2. delivery'[i].failing
        BY <1>2, <4>1, DeliveryOps
      <4>3. reading[i] = "forced"
        BY <1>2, <2>1, <3>2 DEF ForcedReading
      <4>4. QED
        BY <2>1, <4>1, <4>2, <4>3 DEF SettleInv
    <3>3. CASE i \notin S
      <4>1. delivery'[i] = delivery[i] /\ inflight'[i] = inflight[i]
        BY <1>2, <3>3, ForcedRequests
      <4>2. reading[i] = "forced"
        BY <1>2, <2>1, <3>3 DEF ForcedReading
      <4>3. QED
        BY <2>1, <4>1, <4>2 DEF SettleInv
    <3>4. QED
      BY <3>1, <3>2, <3>3
  <2>2. QED
    BY <1>2, <2>1 DEF SettleInv
<1>3. ASSUME NEW i \in Inputs, StartNext(i) PROVE SettleInv'
  BY <1>1, <1>2, <1>3 DEF StartNext, Forced, haVars, unitVars
<1>4. CASE Refresh
  BY <1>1, <1>2, <1>4 DEF Refresh, Forced, haVars, unitVars, startVars
<1>5. ASSUME NEW i \in Inputs, Retry(i) PROVE SettleInv'
  <2> DEFINE d == [delivery EXCEPT ![i] = Delivery!RetryFired(@)]
  <2>1. \A j \in Inputs : /\ DP!DeliveryInv(d[j])
                          /\ d[j] = delivery[j] \/ j \in {i}
    BY <1>1, DeliveryOps DEF TInv, TypeOK
  <2>2. /\ Forced({i}, d, missing, noData) /\ ForcedReading({i})
        /\ UNCHANGED <<source, unit>>
        /\ phase' = phase
    BY <1>5 DEF Retry, Forced, haVars, startVars, unitVars
  <2> HIDE DEF d
  <2>3. QED
    BY <1>2, <2>1, <2>2
<1>6. ASSUME NEW i \in Inputs, NEW s \in SourceStates, SourceReport(i, s)
      PROVE  SettleInv'
  <2>1. phase' = phase /\ unit' = unit /\ source' = [source EXCEPT ![i] = s]
    BY <1>6 DEF SourceReport, unitVars, startVars
  <2>2. \A j \in Inputs : reading'[j] = "forced" =>
                            reading[j] = "forced" /\ source'[j] = source[j]
    BY <1>6 DEF SourceReport, Heard, TInv, TypeOK
  <2>3. CASE Changed(i)
    <3>1. ASSUME NEW j \in Inputs, phase # "stopped", reading[j] = "forced",
                 Usable(source[j]), source'[j] = source[j]
          PROVE  /\ inflight'[j] = <<>> => \/ delivery'[j].failing
                                           \/ unit[j] = source[j]
                 /\ inflight'[j] # <<>> =>
                      inflight'[j][Len(inflight'[j])] = source[j]
      <4>1. CASE inflight'[j] = Append(inflight[j], source'[j])
        BY <1>1, <3>1, <4>1, AppendLast DEF Usable
      <4>2. CASE /\ inflight'[j] = inflight[j]
                 /\ \/ delivery'[j] = delivery[j]
                    \/ delivery'[j] = Delivery!Failed(delivery[j])
        BY <1>1, <3>1, <4>2, DeliveryOps DEF SettleInv
      <4>3. QED
        BY <2>3, <4>1, <4>2, ChangedRequests
    <3>2. QED
      BY <2>1, <2>2, <3>1 DEF SettleInv
  <2>4. CASE delivery' = delivery /\ inflight' = inflight
    BY <2>1, <2>2, <2>4 DEF SettleInv
  <2>5. QED
    BY <1>6, <2>3, <2>4 DEF SourceReport, Changed
<1>7. CASE Start
  BY <1>7 DEF Start, SettleInv
<1>8. CASE Stop
  BY <1>8 DEF Stop, SettleInv
<1>9. CASE Listen
  BY <1>9 DEF Listen, SettleInv, haVars, unitVars, historyVars
<1>10. ASSUME NEW i \in Inputs, RegistryChange(i) \/ Flush(i)
       PROVE  SettleInv'
  BY <1>10 DEF RegistryChange, Flush, SettleInv, haVars, unitVars, startVars,
               historyVars
<1>11. ASSUME NEW i \in Inputs, Served(i),
              \/ Received(i, Head(inflight[i]))
              \/ delivery'[i].failing /\ UNCHANGED unit,
              \A j \in Inputs : j # i => delivery'[j] = delivery[j]
       PROVE  SettleInv'
  <2>1. /\ inflight[i] # <<>>
        /\ inflight' = [inflight EXCEPT ![i] = Tail(@)]
        /\ UNCHANGED <<phase, source, reading>>
    BY <1>11 DEF Served, haVars
  <2>2. ASSUME NEW j \in Inputs, j # i
        PROVE  /\ inflight'[j] = inflight[j] /\ delivery'[j] = delivery[j]
               /\ unit'[j] = unit[j]
    BY <1>11, <2>1, <2>2 DEF Received, TInv, TypeOK
  <2>3. /\ inflight'[i] = <<>> => \/ delivery'[i].failing
                                  \/ unit'[i] = inflight[i][Len(inflight[i])]
        /\ inflight'[i] # <<>> => inflight'[i][Len(inflight'[i])]
                                  = inflight[i][Len(inflight[i])]
    <3>1. inflight'[i] = Tail(inflight[i])
      BY <2>1 DEF TInv, TypeOK
    <3>2. delivery'[i].failing \/ unit'[i] = Head(inflight[i])
      BY <1>11 DEF Received, TInv, TypeOK
    <3>3. QED
      BY <1>1, <2>1, <3>1, <3>2, TailLast
  <2>4. QED
    BY <2>1, <2>2, <2>3 DEF SettleInv
<1>12. ASSUME NEW i \in Inputs, WriteSucceeds(i) PROVE SettleInv'
  BY <1>11, <1>12 DEF WriteSucceeds, TInv, TypeOK
<1>13. ASSUME NEW i \in Inputs, WriteFails(i) PROVE SettleInv'
  <2>1. delivery' = [delivery EXCEPT ![i] = Delivery!Failed(@)]
    BY <1>13 DEF WriteFails
  <2>2. delivery'[i].failing /\ \A j \in Inputs : j # i =>
                                  delivery'[j] = delivery[j]
    BY <1>1, <2>1, DeliveryOps DEF TInv, TypeOK
  <2>3. QED
    BY <1>11, <1>13, <2>2 DEF WriteFails, unitVars
<1>14. CASE CoreStarted \/ PollResult \/ ConnectionChange \/ UNCHANGED vars
  BY <1>14 DEF CoreStarted, PollResult, ConnectionChange, unchangedFeeder,
               SettleInv, haVars, unitVars, startVars, historyVars, vars
<1>15. CASE Tick
  <2>1. \A i \in Inputs : delivery'[i].failing = delivery[i].failing
    BY <1>1, <1>15, DeliveryOps DEF Tick
  <2>2. UNCHANGED <<phase, source, unit, inflight, reading>>
    BY <1>15 DEF Tick, haVars, startVars, historyVars
  <2>3. QED
    BY <2>1, <2>2 DEF SettleInv
<1>16. QED
  BY <1>3, <1>4, <1>5, <1>6, <1>7, <1>8, <1>9, <1>10, <1>12, <1>13, <1>14,
     <1>15 DEF Next

(***************************************************************************)
(* Once a forced write has read the present state of a source and nothing  *)
(* is in flight or failing, the unit holds that state, however many        *)
(* requests overtook each other before.                                    *)
(***************************************************************************)
THEOREM ForcedWriteAlwaysSettles == Spec => []ForcedWriteSettles
<1>1. Init => SettleInv
  BY DEF Init, SettleInv
<1>2. SettleInv => ForcedWriteSettles
  BY DEF SettleInv, ForcedWriteSettles
<1>3. QED
  BY <1>1, <1>2, TypeInit, TypeStep, SettleStep, PTL DEF Spec

-----------------------------------------------------------------------------
\* The refresh timer runs exactly while the feeder runs, and the start is no
\* check.
GapInv ==
  /\ LongGapIsReported
  /\ phase = "running" => refreshIn \in 0 .. RewriteInterval
  /\ phase # "running" => refreshIn = Off
  /\ phase = "starting" => ~checked

\* Every step keeps GapInv: the age of the last usable state grows with the
\* time since the last refresh, which reported the age it had then.
LEMMA GapStep == TInv /\ GapInv /\ [Next]_vars => GapInv'
<1> SUFFICES ASSUME TInv, GapInv, [Next]_vars PROVE GapInv'
  OBVIOUS
<1> USE DEF GapInv, LongGapIsReported
<1>1. ASSUME UNCHANGED <<phase, refreshIn, checked>>,
             \A i \in Inputs :
               \/ usableAge'[i] = 0
               \/ /\ usableAge'[i] = usableAge[i]
                  /\ noData[i] => noData'[i]
                  /\ missing[i] => missing'[i]
      PROVE  GapInv'
  BY <1>1, DurationAssumption
<1>2. ASSUME NEW S, NEW d, Forced(S, d, missing, noData),
             UNCHANGED <<phase, refreshIn, checked>>
      PROVE  GapInv'
  <2>1. \A i \in Inputs :
               \/ usableAge'[i] = 0
               \/ /\ usableAge'[i] = usableAge[i]
                  /\ noData[i] => noData'[i]
                  /\ missing[i] => missing'[i]
    BY <1>2, ForcedIssues
  <2>2. QED
    BY <1>1, <1>2, <2>1
<1>3. ASSUME NEW i \in Inputs, StartNext(i) PROVE GapInv'
  BY <1>2, <1>3 DEF StartNext, Forced
<1>4. ASSUME NEW i \in Inputs, Retry(i) PROVE GapInv'
  BY <1>2, <1>4 DEF Retry, Forced, startVars
<1>5. ASSUME NEW i \in Inputs, NEW s \in SourceStates, SourceReport(i, s)
      PROVE  GapInv'
  <2>1. UNCHANGED <<phase, refreshIn, checked>>
    BY <1>5 DEF SourceReport, startVars
  <2>2. CASE Changed(i)
    <3>1. \A j \in Inputs :
               \/ usableAge'[j] = 0
               \/ /\ usableAge'[j] = usableAge[j]
                  /\ noData[j] => noData'[j]
                  /\ missing[j] => missing'[j]
      BY <2>2, ChangedIssues
    <3>2. QED
      BY <1>1, <2>1, <3>1
  <2>3. CASE UNCHANGED sourceVars
    BY <1>1, <2>1, <2>3 DEF sourceVars
  <2>4. QED
    BY <1>5, <2>2, <2>3 DEF SourceReport, Changed
<1>6. CASE Refresh
  <2> DEFINE m == [i \in Inputs |-> IF coreRunning THEN Gone(i)
                                    ELSE missing[i]]
             n == [i \in Inputs |-> IF coreRunning THEN ~Gone(i) /\ Stale(i)
                                    ELSE noData[i]]
  <2>1. /\ Forced(Inputs, delivery, m, n)
        /\ refreshIn' = RewriteInterval
        /\ checked' = coreRunning
        /\ phase' = phase
    BY <1>6 DEF Refresh, Forced, startVars
  <2>2. coreRunning => \A i \in Inputs :
          (m[i] <=> Gone(i)) /\ (n[i] <=> ~Gone(i) /\ Stale(i))
    OBVIOUS
  <2> HIDE DEF m, n
  <2>3. phase = "running"
    BY <1>6 DEF Refresh, Off
  <2>4. \A i \in Inputs :
           /\ missing'[i] <=> m[i] /\ ~(i \in Inputs /\ Usable(source[i]))
           /\ noData'[i] <=> n[i] /\ ~(i \in Inputs /\ Usable(source[i]))
           /\ usableAge'[i] = IF i \in Inputs /\ Usable(source[i])
                              THEN 0 ELSE usableAge[i]
    BY <2>1, ForcedIssues
  <2>5. ASSUME NEW i \in Inputs, checked',
               usableAge'[i] > NoDataAfter + (RewriteInterval - refreshIn')
        PROVE  noData'[i] \/ missing'[i]
    <3>1. usableAge[i] > NoDataAfter /\ ~Usable(source[i])
      BY <2>1, <2>4, <2>5, DurationAssumption
    <3>2. Gone(i) \/ Stale(i)
      BY <3>1 DEF Stale
    <3>3. QED
      BY <2>1, <2>2, <2>3, <2>4, <2>5, <3>1, <3>2
  <2>6. QED
    BY <2>1, <2>3, <2>5, DurationAssumption
<1>7. CASE Start
  BY <1>7 DEF Start, historyVars
<1>8. CASE Stop
  BY <1>8 DEF Stop
<1>9. CASE Listen
  BY <1>9, DurationAssumption DEF Listen, historyVars
<1>10. ASSUME NEW i \in Inputs, RegistryChange(i) PROVE GapInv'
  <2>1. /\ UNCHANGED <<phase, refreshIn, checked, usableAge, noData>>
        /\ \A j \in Inputs : missing[j] => missing'[j]
    BY <1>10 DEF RegistryChange, startVars, historyVars, TInv, TypeOK
  <2>2. QED
    BY <1>1, <2>1
<1>11. ASSUME NEW i \in Inputs, Flush(i) \/ WriteSucceeds(i) \/ WriteFails(i)
       PROVE  GapInv'
  <2>1. UNCHANGED <<phase, refreshIn, checked, usableAge, noData, missing>>
    BY <1>11 DEF Flush, WriteSucceeds, WriteFails, Served, startVars,
                 sourceVars, historyVars
  <2>2. QED
    BY <1>1, <2>1
<1>12. CASE CoreStarted \/ PollResult \/ ConnectionChange \/ UNCHANGED vars
  <2>1. UNCHANGED <<phase, refreshIn, checked, usableAge, noData, missing>>
    BY <1>12 DEF CoreStarted, PollResult, ConnectionChange, unchangedFeeder,
                 startVars, sourceVars, historyVars, vars
  <2>2. QED
    BY <1>1, <2>1
<1>13. CASE Tick
  <2>1. UNCHANGED <<phase, checked, noData, missing>>
    BY <1>13 DEF Tick, startVars, historyVars
  <2>2. /\ refreshIn # 0
        /\ refreshIn' = IF refreshIn = Off THEN Off ELSE refreshIn - 1
        /\ \A i \in Inputs : usableAge'[i] = IF usableAge[i] < UsableAgeLimit
                                             THEN usableAge[i] + 1
                                             ELSE usableAge[i]
    BY <1>13 DEF Tick, Older
  <2>3. \A i \in Inputs : usableAge[i] \in 0 .. UsableAgeLimit
    BY DEF TInv, TypeOK
  <2>4. QED
    BY <2>1, <2>2, <2>3, DurationAssumption DEF UsableAgeLimit, Off
<1>14. QED
  BY <1>3, <1>4, <1>5, <1>6, <1>7, <1>8, <1>9, <1>10, <1>11, <1>12, <1>13
  DEF Next

(***************************************************************************)
(* A source that gave nothing for NoDataAfter has an issue from the next   *)
(* check on, for every NoDataAfter and RewriteInterval.                    *)
(***************************************************************************)
THEOREM LongGapIsAlwaysReported == Spec => []LongGapIsReported
<1>1. Init => GapInv
  BY DEF Init, GapInv, LongGapIsReported
<1>2. GapInv => LongGapIsReported
  BY DEF GapInv
<1>3. QED
  BY <1>1, <1>2, TypeInit, TypeStep, GapStep, PTL DEF Spec

-----------------------------------------------------------------------------
\* A forced attempt fails some of the deliveries it was given and forgets in
\* some of the logs.
LEMMA ForcedHistory ==
  ASSUME NEW S, NEW d, NEW m, NEW n, Forced(S, d, m, n)
  PROVE  /\ \E F \in SUBSET Inputs :
              F \subseteq S /\
              delivery' = [i \in Inputs |->
                             IF i \in F THEN Delivery!Failed(d[i]) ELSE d[i]]
         /\ \E F \in SUBSET Inputs :
              log' = [i \in Inputs |->
                        IF i \in F THEN Log!Forget(log[i]) ELSE log[i]]
<1> DEFINE held == {i \in Inputs : /\ i \in S /\ Wanted(i, source[i], TRUE)
                                   /\ problem}
           skips == {i \in Inputs : /\ i \in S /\ source[i] = Unsuitable
                                    /\ ~skipped[i]}
<1>1. delivery' = [i \in Inputs |->
                     IF i \in held THEN Delivery!Failed(d[i]) ELSE d[i]]
  BY DEF Forced, Attempt
<1>2. log' = [i \in Inputs |->
                IF i \in skips THEN Log!Forget(log[i]) ELSE log[i]]
  BY DEF Forced, Attempt
<1>3. held \in SUBSET Inputs /\ held \subseteq S /\ skips \in SUBSET Inputs
  OBVIOUS
<1> HIDE DEF held, skips
<1>4. QED
  BY <1>1, <1>2, <1>3

\* The attempt after a change does so to those of its input.
LEMMA ChangedHistory ==
  ASSUME NEW i \in Inputs, Changed(i)
  PROVE  /\ \E F \in SUBSET Inputs :
              delivery' = [j \in Inputs |-> IF j \in F
                                            THEN Delivery!Failed(delivery[j])
                                            ELSE delivery[j]]
         /\ \E F \in SUBSET Inputs :
              log' = [j \in Inputs |->
                        IF j \in F THEN Log!Forget(log[j]) ELSE log[j]]
<1> DEFINE held == {j \in Inputs : /\ j = i /\ Wanted(j, source'[j], FALSE)
                                   /\ problem}
           skips == {j \in Inputs : /\ j = i /\ source'[j] = Unsuitable
                                    /\ ~skipped[j]}
<1>1. delivery' = [j \in Inputs |-> IF j \in held
                                    THEN Delivery!Failed(delivery[j])
                                    ELSE delivery[j]]
  BY DEF Changed, Attempt
<1>2. log' = [j \in Inputs |->
                IF j \in skips THEN Log!Forget(log[j]) ELSE log[j]]
  BY DEF Changed, Attempt
<1>3. held \in SUBSET Inputs /\ skips \in SUBSET Inputs
  OBVIOUS
<1> HIDE DEF held, skips
<1>4. QED
  BY <1>1, <1>2, <1>3

\* Every step of the feeder is a step of BusDelivery, or leaves it alone.
LEMMA DeliveryStep ==
  TInv /\ StoppedIsQuiet /\ [Next]_vars => [Delivery!Next]_(Delivery!vars)
<1> SUFFICES ASSUME TInv, StoppedIsQuiet, [Next]_vars
             PROVE  [Delivery!Next]_(Delivery!vars)
  OBVIOUS
<1> DEFINE open == phase # "stopped"
           FailedStep == \E F \in SUBSET Inputs :
                           delivery' = [i \in Inputs |-> IF i \in F
                                           THEN Delivery!Failed(delivery[i])
                                           ELSE delivery[i]]
<1>1. /\ refreshIn = 0 => open
      /\ \A i \in Inputs : /\ inflight[i] # <<>> => open
                           /\ Delivery!Due(delivery[i]) => open
  BY TimersOff DEF StoppedIsQuiet, Off
<1>2. ASSUME FailedStep, open, phase' = phase
      PROVE  [Delivery!Next]_(Delivery!vars)
  BY <1>2 DEF Delivery!Next, Delivery!FailedStep
<1>3. ASSUME UNCHANGED delivery, open <=> phase' # "stopped"
      PROVE  [Delivery!Next]_(Delivery!vars)
  BY <1>3 DEF Delivery!vars
<1>4. ASSUME NEW i \in Inputs, StartNext(i)
      PROVE  [Delivery!Next]_(Delivery!vars)
  <2>1. Forced({i}, delivery, missing, noData) /\ open /\ phase' = phase
    BY <1>4 DEF StartNext, Forced
  <2>2. FailedStep
    BY <2>1, ForcedHistory
  <2>3. QED
    BY <1>2, <2>1, <2>2
<1>5. CASE Refresh
  <2>1. /\ \E m, n : Forced(Inputs, delivery, m, n)
        /\ open /\ phase' = phase
    BY <1>1, <1>5 DEF Refresh, Forced, startVars
  <2>2. FailedStep
    BY <2>1, ForcedHistory
  <2>3. QED
    BY <1>2, <2>1, <2>2
<1>6. ASSUME NEW i \in Inputs, NEW s \in SourceStates, SourceReport(i, s)
      PROVE  [Delivery!Next]_(Delivery!vars)
  <2>1. phase' = phase
    BY <1>6 DEF SourceReport, startVars
  <2>2. CASE phase = "running" /\ Changed(i)
    <3>1. FailedStep
      BY <2>2, ChangedHistory
    <3>2. QED
      BY <1>2, <2>1, <2>2, <3>1
  <2>3. CASE delivery' = delivery
    BY <1>3, <2>1, <2>3
  <2>4. QED
    BY <1>6, <2>2, <2>3 DEF SourceReport, Changed
<1>7. ASSUME NEW i \in Inputs, Retry(i)
      PROVE  [Delivery!Next]_(Delivery!vars)
  <2> DEFINE r == Delivery!RetryFired(delivery[i])
             d == [delivery EXCEPT ![i] = r]
  <2>1. /\ Delivery!Due(delivery[i])
        /\ Forced({i}, d, missing, noData)
        /\ phase' = phase
    BY <1>7 DEF Retry, Forced, startVars
  <2>2. d[i] = r /\ d \in [Inputs -> {d[j] : j \in Inputs}]
    BY DEF TInv, TypeOK
  <2>3. PICK F \in SUBSET Inputs :
          /\ F \subseteq {i}
          /\ delivery' = [j \in Inputs |->
                            IF j \in F THEN Delivery!Failed(d[j]) ELSE d[j]]
    <3> HIDE DEF d
    <3>1. QED
      BY <2>1, ForcedHistory
  <2>4. CASE i \in F
    <3>1. delivery' = [delivery EXCEPT ![i] = Delivery!Failed(r)]
      BY <2>3, <2>4 DEF TInv, TypeOK
    <3>2. QED
      BY <1>1, <2>1, <3>1
      DEF Delivery!Next, Delivery!RetryStep, Delivery!Set
  <2>5. CASE i \notin F
    <3>1. delivery' = [delivery EXCEPT ![i] = r]
      BY <2>3, <2>5 DEF TInv, TypeOK
    <3>2. QED
      BY <1>1, <2>1, <3>1
      DEF Delivery!Next, Delivery!RetryStep, Delivery!Set
  <2>6. QED
    BY <2>4, <2>5
<1>8. CASE Start
  BY <1>8 DEF Start, Delivery!Next, Delivery!NewStep
<1>9. CASE Stop
  BY <1>9 DEF Stop, Delivery!Next, Delivery!StopStep
<1>10. CASE Listen
  BY <1>3, <1>10 DEF Listen
<1>11. ASSUME NEW i \in Inputs, RegistryChange(i) \/ Flush(i)
       PROVE  [Delivery!Next]_(Delivery!vars)
  BY <1>3, <1>11 DEF RegistryChange, Flush, startVars
<1>12. ASSUME NEW i \in Inputs, WriteSucceeds(i)
       PROVE  [Delivery!Next]_(Delivery!vars)
  <2>1. /\ open /\ phase' = phase
        /\ delivery' = [delivery EXCEPT ![i] =
                          Delivery!Succeeded(delivery[i])]
    BY <1>1, <1>12 DEF WriteSucceeds, Served
  <2>2. QED
    BY <2>1 DEF Delivery!Next, Delivery!SucceededStep, Delivery!Set
<1>13. ASSUME NEW i \in Inputs, WriteFails(i)
       PROVE  [Delivery!Next]_(Delivery!vars)
  <2>1. /\ open /\ phase' = phase
        /\ delivery' = [delivery EXCEPT ![i] = Delivery!Failed(delivery[i])]
    BY <1>1, <1>13 DEF WriteFails, Served
  <2>2. delivery' = [j \in Inputs |-> IF j \in {i}
                                      THEN Delivery!Failed(delivery[j])
                                      ELSE delivery[j]]
    BY <2>1 DEF TInv, TypeOK
  <2>3. FailedStep
    BY <2>2
  <2>4. QED
    BY <1>2, <2>1, <2>3
<1>14. CASE CoreStarted \/ PollResult \/ ConnectionChange \/ UNCHANGED vars
  BY <1>3, <1>14 DEF CoreStarted, PollResult, ConnectionChange,
                     unchangedFeeder, startVars, vars
<1>15. CASE Tick
  BY <1>15 DEF Tick, startVars, Delivery!Next, Delivery!Tick
<1>16. QED
  BY <1>4, <1>5, <1>6, <1>7, <1>8, <1>9, <1>10, <1>11, <1>12, <1>13, <1>14,
     <1>15 DEF Next

(***************************************************************************)
(* The deliveries of a feeder behave as module BusDelivery says: the       *)
(* feeder calls their methods one at a time, never for a stopped feeder,   *)
(* and runs their timers when they are due.                                *)
(***************************************************************************)
THEOREM FeederImplementsDelivery == Spec => DeliverySpec
<1>1. Init => Delivery!Init
  BY DEF Init, Delivery!Init
<1>2. Init => StoppedIsQuiet
  BY DEF Init, StoppedIsQuiet, Log!NewLog, Delivery!NewDelivery, Log!Off,
         Delivery!Off, Off
<1>3. QED
  BY <1>1, <1>2, TypeInit, TypeStep, Stopped, DeliveryStep, PTL
  DEF Spec, DeliverySpec, Delivery!Spec

-----------------------------------------------------------------------------
\* Every step of the feeder is a step of BusLog, or leaves it alone.
LEMMA LogStep ==
  TInv /\ StoppedIsQuiet /\ [Next]_vars => [Log!Next]_(Log!vars)
<1> SUFFICES ASSUME TInv, StoppedIsQuiet, [Next]_vars
             PROVE  [Log!Next]_(Log!vars)
  OBVIOUS
<1> DEFINE open == phase # "stopped"
           ForgetStep == \E F \in SUBSET Inputs :
                           log' = [i \in Inputs |-> IF i \in F
                                                    THEN Log!Forget(log[i])
                                                    ELSE log[i]]
<1>1. /\ refreshIn = 0 => open
      /\ \A i \in Inputs : /\ inflight[i] # <<>> => open
                           /\ Delivery!Due(delivery[i]) => open
  BY TimersOff DEF StoppedIsQuiet, Off
<1>2. ASSUME ForgetStep, open, phase' = phase
      PROVE  [Log!Next]_(Log!vars)
  BY <1>2 DEF Log!Next, Log!ForgetStep
<1>3. ASSUME UNCHANGED log, open <=> phase' # "stopped"
      PROVE  [Log!Next]_(Log!vars)
  BY <1>3 DEF Log!vars
<1>4. ASSUME NEW S, NEW d, NEW m, NEW n, Forced(S, d, m, n),
             open, phase' = phase
      PROVE  [Log!Next]_(Log!vars)
  <2>1. ForgetStep
    BY <1>4, ForcedHistory
  <2>2. QED
    BY <1>2, <1>4, <2>1
<1>5. ASSUME NEW i \in Inputs, StartNext(i)
      PROVE  [Log!Next]_(Log!vars)
  BY <1>4, <1>5 DEF StartNext, Forced
<1>6. CASE Refresh
  BY <1>1, <1>4, <1>6 DEF Refresh, Forced, startVars
<1>7. ASSUME NEW i \in Inputs, Retry(i)
      PROVE  [Log!Next]_(Log!vars)
  BY <1>1, <1>4, <1>7 DEF Retry, Forced, startVars
<1>8. ASSUME NEW i \in Inputs, NEW s \in SourceStates, SourceReport(i, s)
      PROVE  [Log!Next]_(Log!vars)
  <2>1. phase' = phase
    BY <1>8 DEF SourceReport, startVars
  <2>2. CASE phase = "running" /\ Changed(i)
    <3>1. ForgetStep
      BY <2>2, ChangedHistory
    <3>2. QED
      BY <1>2, <2>1, <2>2, <3>1
  <2>3. CASE log' = log
    BY <1>3, <2>1, <2>3
  <2>4. QED
    BY <1>8, <2>2, <2>3 DEF SourceReport, Changed
<1>9. CASE Start
  BY <1>9 DEF Start, Log!Next, Log!NewStep
<1>10. CASE Stop
  BY <1>10 DEF Stop, Log!Next, Log!StopStep
<1>11. CASE Listen
  BY <1>3, <1>11 DEF Listen
<1>12. ASSUME NEW i \in Inputs, Flush(i)
       PROVE  [Log!Next]_(Log!vars)
  BY <1>12 DEF Flush, startVars, Log!Next, Log!FlushStep, Log!Set
<1>13. ASSUME NEW i \in Inputs, RegistryChange(i) \/ WriteFails(i)
       PROVE  [Log!Next]_(Log!vars)
  BY <1>3, <1>13 DEF RegistryChange, WriteFails, Served, startVars
<1>14. ASSUME NEW i \in Inputs, WriteSucceeds(i)
       PROVE  [Log!Next]_(Log!vars)
  <2> DEFINE v == Head(inflight[i])
  <2>1. /\ open /\ phase' = phase
        /\ log' = [log EXCEPT ![i] = Log!Sent(log[i], v)]
    BY <1>1, <1>14 DEF WriteSucceeds, Served
  <2>2. v \in Values
    BY <1>14, ServedType DEF WriteSucceeds
  <2> HIDE DEF v
  <2>3. QED
    BY <2>1, <2>2 DEF Log!Next, Log!SentStep, Log!Set
<1>15. CASE CoreStarted \/ PollResult \/ ConnectionChange \/ UNCHANGED vars
  BY <1>3, <1>15 DEF CoreStarted, PollResult, ConnectionChange,
                     unchangedFeeder, startVars, vars
<1>16. CASE Tick
  BY <1>16 DEF Tick, startVars, Log!Next, Log!Tick
<1>17. QED
  BY <1>5, <1>6, <1>7, <1>8, <1>9, <1>10, <1>11, <1>12, <1>13, <1>14, <1>15,
     <1>16 DEF Next

(***************************************************************************)
(* The logs of a feeder behave as module BusLog says.                      *)
(***************************************************************************)
THEOREM FeederImplementsLog == Spec => LogSpec
<1>1. Init => Log!Init
  BY DEF Init, Log!Init
<1>2. Init => StoppedIsQuiet
  BY DEF Init, StoppedIsQuiet, Log!NewLog, Delivery!NewDelivery, Log!Off,
         Delivery!Off, Off
<1>3. QED
  BY <1>1, <1>2, TypeInit, TypeStep, Stopped, LogStep, PTL
  DEF Spec, LogSpec, Log!Spec

-----------------------------------------------------------------------------
\* The two instances of BusDelivery take the same steps.
LEMMA SameDeliverySteps ==
  /\ Delivery!Init => DP!Init
  /\ [Delivery!Next]_(Delivery!vars) => [DP!Next]_(DP!vars)
<1>1. Delivery!Init => DP!Init
  BY SameDelivery DEF Delivery!Init, DP!Init
<1>2. ASSUME Delivery!Next PROVE DP!Next
  BY <1>2, SameDelivery
  DEF Delivery!Next, Delivery!SucceededStep, Delivery!RetryStep,
      Delivery!FailedStep, Delivery!StopStep, Delivery!NewStep, Delivery!Tick,
      Delivery!Set, DP!Next, DP!SucceededStep, DP!RetryStep, DP!FailedStep,
      DP!StopStep, DP!NewStep, DP!Tick, DP!Set
<1>3. QED
  BY <1>1, <1>2 DEF Delivery!vars, DP!vars

\* The two instances of BusLog take the same steps.
LEMMA SameLogSteps ==
  /\ Log!Init => LP!Init
  /\ [Log!Next]_(Log!vars) => [LP!Next]_(LP!vars)
<1>1. Log!Init => LP!Init
  BY SameLog DEF Log!Init, LP!Init
<1>2. ASSUME Log!Next PROVE LP!Next
  BY <1>2, SameLog
  DEF Log!Next, Log!SentStep, Log!ForgetStep, Log!FlushStep, Log!StopStep,
      Log!NewStep, Log!Tick, Log!Set, LP!Next, LP!SentStep, LP!ForgetStep,
      LP!FlushStep, LP!StopStep, LP!NewStep, LP!Tick, LP!Set
<1>3. QED
  BY <1>1, <1>2 DEF Log!vars, LP!vars

\* The feeder behaves as the specification that BusDeliveryProofs is about.
LEMMA DeliveryTheorems == Spec => DP!Spec
  BY FeederImplementsDelivery, SameDeliverySteps, PTL
  DEF DeliverySpec, Delivery!Spec, DP!Spec

\* The feeder behaves as the specification that BusLogProofs is about.
LEMMA LogTheorems == Spec => LP!Spec
  BY FeederImplementsLog, SameLogSteps, PTL DEF LogSpec, Log!Spec, LP!Spec

(***************************************************************************)
(* The issue "not delivered" of a feeder exists only while it runs and its *)
(* last success is ValueValid old (from BusDeliveryProofs).                *)
(***************************************************************************)
THEOREM FeederIssueIsJustified == Spec => []Delivery!IssueIsJustified
<1>1. DP!Spec => []DP!IssueIsJustified
  BY DP!IssueIsAlwaysJustified, DurationAssumption
<1>2. DP!IssueIsJustified => Delivery!IssueIsJustified
  BY SameDelivery DEF DP!IssueIsJustified, Delivery!IssueIsJustified
<1>3. QED
  BY <1>1, <1>2, DeliveryTheorems, PTL

(***************************************************************************)
(* The logbook entries of a feeder tell the state of the outage, once each *)
(* (from BusDeliveryProofs).                                               *)
(***************************************************************************)
THEOREM FeederLogbookTellsTheOutage ==
  Spec => []Delivery!LogbookTellsTheOutage
<1>1. DP!Spec => []DP!LogbookTellsTheOutage
  BY DP!LogbookAlwaysTells, DurationAssumption
<1>2. DP!LogbookTellsTheOutage => Delivery!LogbookTellsTheOutage
  BY DEF DP!LogbookTellsTheOutage, Delivery!LogbookTellsTheOutage
<1>3. QED
  BY <1>1, <1>2, DeliveryTheorems, PTL

(***************************************************************************)
(* The latest value sent by a feeder is in the logbook or waits for a      *)
(* timer that is on time (from BusLogProofs).                              *)
(***************************************************************************)
THEOREM FeederNeverLosesTheLatest == Spec => []Log!LatestIsShownOrWaits
<1>1. LP!Spec => []LP!LatestIsShownOrWaits
  BY LP!LatestIsNeverLost, SourceAssumption, DurationAssumption
<1>2. LP!LatestIsShownOrWaits => Log!LatestIsShownOrWaits
  BY DEF LP!LatestIsShownOrWaits, Log!LatestIsShownOrWaits,
         LP!ShownOrWaiting, Log!ShownOrWaiting
<1>3. QED
  BY <1>1, <1>2, LogTheorems, PTL

(***************************************************************************)
(* A feeder logs at most one sent value per input and interval (from       *)
(* BusLogProofs).                                                          *)
(***************************************************************************)
THEOREM FeederIsThrottled == Spec => []Log!AtMostOneEntryPerInterval
<1>1. LP!Spec => []LP!AtMostOneEntryPerInterval
  BY LP!ThrottleHolds, SourceAssumption, DurationAssumption
<1>2. LP!AtMostOneEntryPerInterval => Log!AtMostOneEntryPerInterval
  BY DEF LP!AtMostOneEntryPerInterval, Log!AtMostOneEntryPerInterval
<1>3. QED
  BY <1>1, <1>2, LogTheorems, PTL

-----------------------------------------------------------------------------
\* The methods of a delivery that set or read its timer, with what they do to
\* the time of the next retry and to the issue.
LEMMA DeliveryTimes ==
  ASSUME NEW d, DP!DeliveryInv(d)
  PROVE  /\ LET f == Delivery!Failed(d)
            IN  /\ f.retryIn = IF d.retryIn = Off THEN RetryInterval
                               ELSE d.retryIn
                /\ f.issue <=> d.issue \/ d.age >= ValueValid
         /\ Delivery!RetryFired(d).retryIn = Off
         /\ Delivery!Older(d).retryIn = IF d.retryIn > 0 THEN d.retryIn - 1
                                        ELSE d.retryIn
         /\ /\ d.age \in 0 .. AgeLimit
            /\ d.retryIn \in {Off} \union 0 .. RetryInterval
<1>1. /\ Delivery!Failed(d).retryIn = IF d.retryIn = Off THEN RetryInterval
                                      ELSE d.retryIn
      /\ Delivery!Failed(d).issue <=> d.issue \/ DP!Outdated(d)
  BY SameDelivery, DP!FailedInv, DurationAssumption DEF DP!Off, Off
<1>2. DP!Outdated(d) <=> d.age >= ValueValid
  BY DEF DP!Outdated
<1>3. Delivery!RetryFired(d).retryIn = Off
  BY SameDelivery, DP!RetryFiredInv, DurationAssumption DEF DP!Off, Off
<1>4. d \in Delivery!DeliveryState
  BY DeliveryOps
<1>5. Delivery!Older(d).retryIn = IF d.retryIn > 0 THEN d.retryIn - 1
                                  ELSE d.retryIn
  BY <1>4 DEF Delivery!Older, Delivery!DeliveryState
<1>6. /\ d.age \in 0 .. AgeLimit
      /\ d.retryIn \in {Off} \union 0 .. RetryInterval
  BY <1>4 DEF Delivery!DeliveryState, Delivery!Off, Off
<1>7. QED
  BY <1>1, <1>2, <1>3, <1>5, <1>6

-----------------------------------------------------------------------------
\* The longest time of n requests that wait for one another.
Writes(n) == n * RequestTimeout

\* One more request takes RequestTimeout more.
LEMMA OneMoreWrite ==
  ASSUME NEW n \in Int
  PROVE  /\ Writes(n) \in Int /\ Writes(n + 1) = Writes(n) + RequestTimeout
         /\ n >= 0 => Writes(n) >= 0
  BY DurationAssumption DEF Writes

\* The inputs besides one.
Others == Cardinality(Inputs) - 1

\* The writes of async_start that others had to wait for, and the time since
\* the first of them was done.
Earlier ==
  Others - Cardinality(todo) - (IF awaited = NoInput THEN 0 ELSE 1)
StartTime ==
  Writes(Earlier) + (IF awaited = NoInput THEN 0 ELSE waited[awaited])

\* What is left of a finite set of inputs when async_start takes one more.
LEMMA TodoSizes ==
  ASSUME IsFiniteSet(Inputs), NEW T \in SUBSET Inputs
  PROVE  /\ Cardinality(T) \in Nat /\ Cardinality({}) = 0
         /\ Others \in Int
         /\ \A i \in Inputs : i \notin T => Cardinality(T) <= Others
         /\ \A i, j \in Inputs : i # j /\ i \notin T /\ j \notin T
                                 => Cardinality(T) <= Others - 1
         /\ \A i \in T : Cardinality(T \ {i}) = Cardinality(T) - 1
<1>1. IsFiniteSet(T) /\ Cardinality(T) \in Nat /\ Others \in Int
  BY FS_Subset, FS_CardinalityType DEF Others
<1>2. \A i \in T : Cardinality(T \ {i}) = Cardinality(T) - 1
  BY <1>1, FS_RemoveElement
<1>3. ASSUME NEW U \in SUBSET Inputs PROVE Cardinality(U) <= Others + 1
  BY <1>3, FS_Subset, FS_CardinalityType DEF Others
<1>4. ASSUME NEW i \in Inputs, i \notin T
      PROVE  /\ IsFiniteSet(T \union {i})
             /\ Cardinality(T \union {i}) = Cardinality(T) + 1
  BY <1>1, <1>4, FS_AddElement
<1>5. ASSUME NEW i \in Inputs, i \notin T PROVE Cardinality(T) <= Others
  <2>1. Cardinality(T \union {i}) <= Others + 1
    BY <1>3
  <2>2. QED
    BY <1>1, <1>4, <1>5, <2>1
<1>6. ASSUME NEW i \in Inputs, NEW j \in Inputs, i # j, i \notin T, j \notin T
      PROVE  Cardinality(T) <= Others - 1
  <2>1. /\ IsFiniteSet(T \union {i})
        /\ Cardinality(T \union {i}) = Cardinality(T) + 1
    BY <1>4, <1>6
  <2>2. Cardinality((T \union {i}) \union {j}) = Cardinality(T) + 2
    <3>1. j \notin T \union {i}
      BY <1>6
    <3>2. Cardinality((T \union {i}) \union {j})
            = Cardinality(T \union {i}) + 1
      BY <2>1, <3>1, FS_AddElement
    <3>3. QED
      BY <1>1, <2>1, <3>2
  <2>3. Cardinality((T \union {i}) \union {j}) <= Others + 1
    BY <1>3
  <2>4. QED
    BY <1>1, <2>2, <2>3
<1>7. Cardinality({}) = 0
  BY FS_EmptySet
<1>8. QED
  BY <1>1, <1>2, <1>5, <1>6, <1>7
-----------------------------------------------------------------------------
\* No write of async_start to input i is still to come or to be answered.
Settled(i) == phase = "running" \/ i \notin todo \union {awaited}

\* The source of input i is usable and its writes succeed.
Fed(i) ==
  phase # "stopped" /\ steady[i] /\ Settled(i) /\ ~delivery[i].failing

\* How old the last success of an input that is fed can be: while async_start
\* runs, as old as the writes of the other inputs took; then that and the time
\* since the last refresh, or a whole interval and what the request takes.
AgeBound(i) ==
  IF phase = "starting" THEN StartTime
  ELSE Writes(Others) + RewriteInterval
         + (IF inflight[i] = <<>> THEN -refreshIn ELSE waited[i])

\* async_start awaits a request that is in flight.
AwaitedInv ==
  phase = "starting" /\ awaited # NoInput =>
    /\ awaited \in Inputs /\ awaited \notin todo
    /\ inflight[awaited] # <<>>

FedInv ==
  /\ AwaitedInv
  /\ \A i \in Inputs :
       Fed(i) => written[i] # NoValue /\ delivery[i].age <= AgeBound(i)

\* The bounds are numbers.
LEMMA BoundTypes ==
  ASSUME IsFiniteSet(Inputs), TInv
  PROVE  /\ Others \in Int /\ Cardinality(todo) \in Nat
         /\ Earlier \in Int /\ StartTime \in Int
         /\ Writes(Others) \in Int
         /\ Inputs # {} => Writes(Others) >= 0
         /\ \A i \in Inputs : /\ waited[i] \in 0 .. RequestTimeout
                              /\ delivery[i].age \in Nat
<1>1. todo \in SUBSET Inputs /\ awaited \in Inputs \union {NoInput}
  BY DEF TInv, TypeOK
<1>2. \A i \in Inputs : waited[i] \in 0 .. RequestTimeout
  BY DEF TInv, TypeOK
<1>3. Others \in Int /\ Cardinality(todo) \in Nat
  BY <1>1, TodoSizes
<1>4. Earlier \in Int
  BY <1>3 DEF Earlier
<1>5. Writes(Earlier) \in Int /\ Writes(Others) \in Int
  BY <1>3, <1>4, OneMoreWrite
<1>6. StartTime \in Int
  BY <1>1, <1>2, <1>5, DurationAssumption DEF StartTime
<1>7. Inputs # {} => Writes(Others) >= 0
  <2>1. ASSUME NEW i \in Inputs PROVE Others >= 0
    BY TodoSizes
  <2>2. QED
    BY <1>3, <2>1, OneMoreWrite
<1>8. ASSUME NEW i \in Inputs PROVE delivery[i].age \in Nat
  <2>1. delivery[i].age \in 0 .. AgeLimit
    BY DeliveryTimes DEF TInv
  <2>2. QED
    BY <2>1, DurationAssumption
<1>9. QED
  BY <1>2, <1>3, <1>4, <1>5, <1>6, <1>7, <1>8

\* An attempt outside async_start leaves the bounds alone or raises them.
LEMMA FedAttempt ==
  ASSUME IsFiniteSet(Inputs), TInv, GapInv, FedInv, phase' = phase,
         UNCHANGED <<todo, awaited, waited, written>>,
         \A j \in Inputs : steady'[j] /\ ~delivery'[j].failing =>
           /\ steady[j] /\ ~delivery[j].failing
           /\ delivery'[j].age = delivery[j].age
           /\ \/ refreshIn' = refreshIn
              \/ phase = "running" /\ inflight'[j] # <<>>,
         \A j \in Inputs : inflight[j] # <<>> => inflight'[j] # <<>>
  PROVE  FedInv'
<1>1. AwaitedInv'
  BY DEF FedInv, AwaitedInv
<1>2. ASSUME NEW j \in Inputs, Fed(j)'
      PROVE  written'[j] # NoValue /\ delivery'[j].age <= AgeBound(j)'
  <2>1. Fed(j) /\ delivery'[j].age = delivery[j].age
    BY <1>2 DEF Fed, Settled
  <2>2. delivery[j].age <= AgeBound(j) /\ written[j] # NoValue
    BY <2>1 DEF FedInv
  <2>3. /\ StartTime \in Int /\ Writes(Others) \in Int
        /\ waited[j] \in 0 .. RequestTimeout /\ delivery[j].age \in Nat
    BY BoundTypes
  <2>4. CASE phase = "starting"
    <3>1. AgeBound(j)' = StartTime
      BY <2>4 DEF AgeBound, StartTime, Earlier
    <3>2. QED
      BY <2>1, <2>2, <2>4, <3>1 DEF AgeBound
  <2>5. CASE phase # "starting"
    <3>1. phase = "running" /\ phase' = "running"
      BY <2>1, <2>5 DEF Fed, TInv, TypeOK
    <3>2. refreshIn \in 0 .. RewriteInterval
      BY <3>1 DEF GapInv
    <3>3. \/ inflight'[j] # <<>>
          \/ refreshIn' = refreshIn /\ inflight[j] = <<>>
      <4>1. steady'[j] /\ ~delivery'[j].failing
        BY <1>2 DEF Fed
      <4>2. QED
        BY <1>2, <4>1
    <3>4. delivery[j].age <= Writes(Others) + RewriteInterval
               + (IF inflight[j] = <<>> THEN -refreshIn ELSE waited[j])
      BY <2>2, <3>1 DEF AgeBound
    <3>5. AgeBound(j)' = Writes(Others) + RewriteInterval
               + (IF inflight'[j] = <<>> THEN -refreshIn' ELSE waited[j])
      BY <3>1 DEF AgeBound
    <3>6. QED
      BY <2>1, <2>2, <2>3, <3>2, <3>3, <3>4, <3>5, DurationAssumption
  <2>6. QED
    BY <2>4, <2>5
<1>3. QED
  BY <1>1, <1>2 DEF FedInv

\* The write of async_start to an input is one more that later ones wait for.
LEMMA FedStartNext ==
  ASSUME IsFiniteSet(Inputs), TInv, RetriedInv, FedInv,
         NEW i \in Inputs, StartNext(i)
  PROVE  FedInv'
<1>1. /\ phase = "starting" /\ phase' = "starting"
      /\ awaited = NoInput /\ i \in todo /\ todo' = todo \ {i}
      /\ Forced({i}, delivery, missing, noData)
      /\ awaited' = IF inflight'[i] = inflight[i] THEN NoInput ELSE i
      /\ UNCHANGED <<source, waited, written, steady>>
  BY DEF StartNext, Forced, haVars
<1>2. /\ Others \in Int /\ Cardinality(todo) \in Nat
      /\ Cardinality(todo') = Cardinality(todo) - 1
      /\ waited[i] \in 0 .. RequestTimeout
  <2>1. todo \in SUBSET Inputs
    BY DEF TInv, TypeOK
  <2>2. QED
    BY <1>1, <2>1, BoundTypes, TodoSizes
<1>3. /\ StartTime \in Int /\ StartTime' \in Int
      /\ StartTime <= StartTime'
  <2> DEFINE n == Others - Cardinality(todo)
  <2>1. StartTime = Writes(n) /\ n \in Int
    BY <1>1, <1>2, OneMoreWrite DEF StartTime, Earlier
  <2>2. CASE awaited' = NoInput
    <3>1. Earlier' = n + 1
      BY <1>2, <2>2 DEF Earlier, Others
    <3>2. StartTime' = Writes(n + 1)
      BY <2>1, <2>2, <3>1, OneMoreWrite DEF StartTime
    <3>3. QED
      BY <2>1, <3>2, OneMoreWrite, DurationAssumption
  <2>3. CASE awaited' # NoInput
    <3>1. Earlier' = n /\ awaited' = i
      BY <1>1, <1>2, <2>3 DEF Earlier, Others
    <3>2. StartTime' = Writes(n) + waited[i]
      BY <1>1, <2>3, <3>1 DEF StartTime
    <3>3. QED
      BY <1>2, <2>1, <3>2, OneMoreWrite, DurationAssumption
  <2>4. QED
    BY <2>2, <2>3
<1>4. AwaitedInv'
  <2>1. awaited' # NoInput => awaited' = i /\ inflight'[i] # inflight[i]
    BY <1>1
  <2>2. ASSUME inflight'[i] # inflight[i] PROVE inflight'[i] # <<>>
    <3>1. /\ inflight'[i] = Append(inflight[i], source[i])
          /\ source[i] \in Values /\ inflight[i] \in Seq(Values)
      BY <1>1, <2>2, ForcedRequests DEF Usable, TInv, TypeOK
    <3>2. QED
      BY <3>1
  <2>3. QED
    BY <1>1, <2>1, <2>2 DEF AwaitedInv
<1>5. ASSUME NEW j \in Inputs, Fed(j)'
      PROVE  written'[j] # NoValue /\ delivery'[j].age <= AgeBound(j)'
  <2>1. /\ j \notin todo \ {i} /\ j # awaited' /\ steady[j]
        /\ ~delivery'[j].failing
    BY <1>1, <1>5 DEF Fed, Settled
  <2>2. j # i
    <3>1. SUFFICES ASSUME j = i PROVE FALSE
      OBVIOUS
    <3>2. inflight'[i] = inflight[i] /\ Usable(source[i])
      BY <1>1, <2>1, <3>1 DEF RetriedInv
    <3>3. delivery'[i] = Delivery!Failed(delivery[i])
      <4>1. Append(inflight[i], source[i]) # inflight[i]
        BY DEF TInv, TypeOK
      <4>2. QED
        BY <1>1, <3>2, <4>1, ForcedRequests
    <3>4. QED
      BY <2>1, <3>1, <3>3, DeliveryOps DEF TInv
  <2>3. delivery'[j] = delivery[j]
    BY <1>1, <2>2, ForcedRequests
  <2>4. Fed(j)
    BY <1>1, <2>1, <2>2, <2>3, InputsAssumption DEF Fed, Settled
  <2>5. written[j] # NoValue /\ delivery[j].age <= StartTime
    BY <1>1, <2>4 DEF FedInv, AgeBound
  <2>6. delivery[j].age \in Nat
    BY BoundTypes
  <2>7. QED
    BY <1>1, <1>3, <2>3, <2>5, <2>6 DEF AgeBound
<1>6. QED
  BY <1>4, <1>5 DEF FedInv

\* An answered request starts the time of its input anew or makes it fail; the
\* other inputs waited for it no longer than RequestTimeout.
LEMMA FedServed ==
  ASSUME IsFiniteSet(Inputs), TInv, GapInv, FedInv,
         NEW i \in Inputs, Served(i),
         \/ delivery'[i].failing
         \/ delivery'[i].age = 0 /\ written'[i] # NoValue,
         \A j \in Inputs : j # i =>
           /\ delivery'[j] = delivery[j] /\ written'[j] = written[j]
           /\ steady'[j] = steady[j]
  PROVE  FedInv'
<1>1. /\ UNCHANGED <<phase, todo, refreshIn>>
      /\ inflight' = [inflight EXCEPT ![i] = Tail(@)]
      /\ waited' = [waited EXCEPT ![i] = 0]
      /\ awaited' = IF awaited = i THEN NoInput ELSE awaited
  BY DEF Served
<1>2. /\ Others \in Int /\ Cardinality(todo) \in Nat
      /\ Writes(Others) \in Int /\ Writes(Others) >= 0
      /\ StartTime \in Int
      /\ \A j \in Inputs : waited[j] \in 0 .. RequestTimeout
  BY BoundTypes
<1>3. /\ \A j \in Inputs : j # i => /\ inflight'[j] = inflight[j]
                                    /\ waited'[j] = waited[j]
      /\ waited'[i] = 0
  BY <1>1 DEF TInv, TypeOK
<1>4. /\ StartTime' \in Int
      /\ phase = "starting" => StartTime <= StartTime'
  <2>1. CASE awaited = i
    <3>1. Earlier' = Earlier + 1 /\ awaited # NoInput /\ awaited' = NoInput
      BY <1>1, <1>2, <2>1, InputsAssumption DEF Earlier, Others
    <3>2. Earlier \in Int
      BY BoundTypes
    <3>3. StartTime' = Writes(Earlier + 1)
      BY <3>1, <3>2, OneMoreWrite DEF StartTime
    <3>4. StartTime = Writes(Earlier) + waited[i]
      BY <2>1, <3>1 DEF StartTime
    <3>5. QED
      BY <1>2, <3>2, <3>3, <3>4, OneMoreWrite, DurationAssumption
  <2>2. CASE awaited # i
    <3>1. awaited \in Inputs \union {NoInput}
      BY DEF TInv, TypeOK
    <3>2. Earlier' = Earlier /\ awaited' = awaited
      BY <1>1, <2>2 DEF Earlier, Others
    <3>3. StartTime' = StartTime
      BY <1>3, <2>2, <3>1, <3>2 DEF StartTime
    <3>4. QED
      BY <1>2, <3>3
  <2>3. QED
    BY <2>1, <2>2
<1>5. AwaitedInv'
  BY <1>1, <1>3 DEF FedInv, AwaitedInv
<1>6. ASSUME NEW j \in Inputs, Fed(j)'
      PROVE  written'[j] # NoValue /\ delivery'[j].age <= AgeBound(j)'
  <2>1. phase = "running" => refreshIn \in 0 .. RewriteInterval
    BY DEF GapInv
  <2>2. phase = "starting" \/ phase = "running"
    BY <1>1, <1>6 DEF Fed, TInv, TypeOK
  <2>3. CASE j = i
    <3>1. delivery'[j].age = 0 /\ written'[j] # NoValue
      BY <1>6, <2>3 DEF Fed
    <3>2. CASE phase = "starting"
      <4>1. /\ i \notin todo
            /\ awaited' # NoInput => /\ awaited' \in Inputs /\ awaited' # i
                                     /\ awaited' \notin todo
        BY <1>1, <1>5, <1>6, <2>3, <3>2 DEF Fed, Settled, AwaitedInv
      <4>2. Earlier' \in Int /\ Earlier' >= 0
        <5>1. todo \in SUBSET Inputs
          BY DEF TInv, TypeOK
        <5>2. /\ Cardinality(todo) <= Others
              /\ awaited' # NoInput => Cardinality(todo) <= Others - 1
          BY <4>1, <5>1, TodoSizes
        <5>3. QED
          BY <1>1, <1>2, <5>2 DEF Earlier, Others
      <4>3. StartTime' >= 0
        <5>1. Writes(Earlier') >= 0 /\ Writes(Earlier') \in Int
          BY <4>2, OneMoreWrite
        <5>2. awaited' # NoInput => waited'[awaited'] \in 0 .. RequestTimeout
          BY <1>2, <1>3, <4>1
        <5>3. StartTime' = Writes(Earlier')
                             + (IF awaited' = NoInput THEN 0
                                ELSE waited'[awaited'])
          BY DEF StartTime, Writes
        <5>4. QED
          BY <5>1, <5>2, <5>3, DurationAssumption
      <4>4. QED
        BY <1>1, <3>1, <3>2, <4>3 DEF AgeBound
    <3>3. CASE phase = "running"
      <4>1. AgeBound(j)' = Writes(Others) + RewriteInterval
                 + (IF inflight'[j] = <<>> THEN -refreshIn ELSE 0)
        BY <1>1, <1>3, <2>3, <3>3 DEF AgeBound, Writes, Others
      <4>2. QED
        BY <1>2, <2>1, <3>1, <3>3, <4>1, DurationAssumption
    <3>4. QED
      BY <2>2, <3>2, <3>3
  <2>4. CASE j # i
    <3>1. /\ delivery'[j] = delivery[j] /\ written'[j] = written[j]
          /\ inflight'[j] = inflight[j] /\ waited'[j] = waited[j]
      BY <1>3, <2>4
    <3>2. delivery[j].age \in Nat
      BY BoundTypes
    <3>3. ASSUME phase = "starting", j = awaited PROVE FALSE
      BY <1>1, <1>6, <2>4, <3>3 DEF Fed, Settled
    <3>4. Fed(j)
      BY <1>1, <1>6, <2>2, <2>4, <3>1, <3>3 DEF Fed, Settled
    <3>5. written[j] # NoValue /\ delivery[j].age <= AgeBound(j)
      BY <3>4 DEF FedInv
    <3>6. CASE phase = "starting"
      BY <1>1, <1>2, <1>4, <3>1, <3>2, <3>5, <3>6 DEF AgeBound
    <3>7. CASE phase = "running"
      BY <1>1, <3>1, <3>5, <3>7 DEF AgeBound, Writes, Others
    <3>8. QED
      BY <2>2, <3>6, <3>7
  <2>5. QED
    BY <2>3, <2>4
<1>7. QED
  BY <1>5, <1>6 DEF FedInv

\* When the start is over, no input that is fed is older than the writes of the
\* others took.
LEMMA FedListen ==
  IsFiniteSet(Inputs) /\ TInv /\ FedInv /\ Listen => FedInv'
<1> SUFFICES ASSUME IsFiniteSet(Inputs), TInv, FedInv, Listen PROVE FedInv'
  OBVIOUS
<1>1. /\ phase = "starting" /\ awaited = NoInput /\ todo = {}
      /\ phase' = "running" /\ refreshIn' = RewriteInterval
      /\ UNCHANGED <<todo, awaited, inflight, waited, written, delivery,
                     steady>>
  BY DEF Listen, historyVars
<1>2. StartTime = Writes(Others) /\ Writes(Others) \in Int
  <2>1. Cardinality(todo) = 0 /\ Others \in Int
    BY <1>1, TodoSizes
  <2>2. Earlier = Others
    BY <1>1, <2>1 DEF Earlier
  <2>3. QED
    BY <1>1, <2>1, <2>2, OneMoreWrite DEF StartTime
<1>3. ASSUME NEW j \in Inputs, Fed(j)'
      PROVE  written'[j] # NoValue /\ delivery'[j].age <= AgeBound(j)'
  <2>1. Fed(j)
    BY <1>1, <1>3, InputsAssumption DEF Fed, Settled
  <2>2. written[j] # NoValue /\ delivery[j].age <= Writes(Others)
    BY <1>1, <1>2, <2>1 DEF FedInv, AgeBound
  <2>3. waited[j] \in 0 .. RequestTimeout /\ delivery[j].age \in Nat
    BY BoundTypes
  <2>4. AgeBound(j)' = Writes(Others) + RewriteInterval
             + (IF inflight[j] = <<>> THEN -RewriteInterval ELSE waited[j])
    BY <1>1 DEF AgeBound, Writes, Others
  <2>5. QED
    BY <1>1, <1>2, <2>2, <2>3, <2>4, DurationAssumption
<1>4. QED
  BY <1>1, <1>3 DEF FedInv, AwaitedInv

\* A tick ages the deliveries and raises every bound by one.
LEMMA FedTick ==
  IsFiniteSet(Inputs) /\ TInv /\ GapInv /\ FedInv /\ Tick => FedInv'
<1> SUFFICES ASSUME IsFiniteSet(Inputs), TInv, GapInv, FedInv, Tick
             PROVE  FedInv'
  OBVIOUS
<1>1. /\ UNCHANGED <<phase, todo, awaited, inflight, written, steady>>
      /\ refreshIn # 0
      /\ phase = "starting" => awaited # NoInput
      /\ refreshIn' = IF refreshIn = Off THEN Off ELSE refreshIn - 1
      /\ \A j \in Inputs :
           /\ waited'[j] = IF inflight[j] = <<>> THEN 0 ELSE waited[j] + 1
           /\ delivery'[j] = Delivery!Older(delivery[j])
  BY DEF Tick, startVars, historyVars
<1>2. ASSUME NEW j \in Inputs
      PROVE  /\ delivery'[j].failing = delivery[j].failing
             /\ delivery'[j].age = IF delivery[j].age < AgeLimit
                                   THEN delivery[j].age + 1
                                   ELSE delivery[j].age
  BY <1>1, DeliveryOps DEF TInv
<1>3. AwaitedInv'
  BY <1>1 DEF FedInv, AwaitedInv
<1>4. ASSUME NEW j \in Inputs, Fed(j)'
      PROVE  written'[j] # NoValue /\ delivery'[j].age <= AgeBound(j)'
  <2>1. Fed(j)
    BY <1>1, <1>2, <1>4 DEF Fed, Settled
  <2>2. written[j] # NoValue /\ delivery[j].age <= AgeBound(j)
    BY <2>1 DEF FedInv
  <2>3. /\ StartTime \in Int /\ Writes(Others) \in Int
        /\ delivery[j].age \in Nat
        /\ \A i \in Inputs : waited[i] \in 0 .. RequestTimeout
    BY BoundTypes
  <2>4. CASE phase = "starting"
    <3>1. /\ awaited \in Inputs /\ awaited # NoInput
          /\ waited'[awaited] = waited[awaited] + 1
      BY <1>1, <2>4 DEF FedInv, AwaitedInv
    <3>2. StartTime = Writes(Earlier) + waited[awaited]
          /\ Writes(Earlier) \in Int
      <4>1. Earlier \in Int
        BY BoundTypes
      <4>2. QED
        BY <3>1, <4>1, OneMoreWrite DEF StartTime
    <3>3. StartTime' = Writes(Earlier) + waited'[awaited]
      BY <1>1, <3>1 DEF StartTime, Earlier, Writes, Others
    <3>4. AgeBound(j) = StartTime /\ AgeBound(j)' = StartTime'
      BY <1>1, <2>4 DEF AgeBound
    <3>5. QED
      BY <1>1, <1>2, <2>2, <2>3, <3>1, <3>2, <3>3, <3>4, DurationAssumption
  <2>5. CASE phase # "starting"
    <3>1. phase = "running"
      BY <2>1, <2>5 DEF Fed, TInv, TypeOK
    <3>2. refreshIn \in 1 .. RewriteInterval /\ refreshIn' = refreshIn - 1
      BY <1>1, <3>1, DurationAssumption DEF GapInv, Off
    <3>3. AgeBound(j) = Writes(Others) + RewriteInterval
               + (IF inflight[j] = <<>> THEN -refreshIn ELSE waited[j])
      BY <3>1 DEF AgeBound
    <3>4. AgeBound(j)' = Writes(Others) + RewriteInterval
               + (IF inflight[j] = <<>> THEN -refreshIn' ELSE waited[j] + 1)
      BY <1>1, <3>1 DEF AgeBound, Writes, Others
    <3>5. AgeBound(j)' = AgeBound(j) + 1 /\ AgeBound(j) \in Int
      BY <2>3, <3>2, <3>3, <3>4, DurationAssumption
    <3>6. delivery'[j].age \in Nat /\ delivery'[j].age <= delivery[j].age + 1
      BY <1>2, <2>3
    <3>7. QED
      BY <1>1, <2>2, <2>3, <3>5, <3>6
  <2>6. QED
    BY <2>4, <2>5
<1>5. QED
  BY <1>3, <1>4 DEF FedInv

\* Every step keeps FedInv.
LEMMA FedStep ==
  ASSUME IsFiniteSet(Inputs), TInv, GapInv, RetriedInv, FedInv, [Next]_vars
  PROVE  FedInv'
<1>1. \A i \in Inputs : /\ DP!DeliveryInv(delivery[i])
                        /\ inflight[i] \in Seq(Values)
  BY DEF TInv, TypeOK
<1>2. \A s \in Seq(Values), v \in Values : Append(s, v) # <<>>
  BY AppendLast
<1>3. ASSUME NEW i \in Inputs, Retry(i) PROVE FedInv'
  <2> DEFINE d == [delivery EXCEPT ![i] = Delivery!RetryFired(@)]
  <2>1. /\ Forced({i}, d, missing, noData)
        /\ UNCHANGED <<phase, source, steady, todo, awaited, waited, written,
                       refreshIn>>
    BY <1>3 DEF Retry, Forced, haVars, startVars
  <2>2. \A j \in Inputs : /\ DP!DeliveryInv(d[j])
                          /\ d[j].age = delivery[j].age
                          /\ d[j].failing = delivery[j].failing
    BY <1>1, DeliveryOps DEF TInv, TypeOK
  <2> HIDE DEF d
  <2>3. ASSUME NEW j \in Inputs
        PROVE  /\ inflight[j] # <<>> => inflight'[j] # <<>>
               /\ ~delivery'[j].failing =>
                    /\ ~delivery[j].failing
                    /\ delivery'[j].age = delivery[j].age
    <3>1. d[j].failing => Delivery!Failed(d[j]).failing
      BY <2>2, DeliveryOps
    <3>2. QED
      BY <1>1, <1>2, <2>1, <2>2, <3>1, ForcedRequests, DeliveryOps DEF Usable
  <2>4. QED
    BY <2>1, <2>3, FedAttempt
<1>4. CASE Refresh
  <2>1. /\ \E m, n : Forced(Inputs, delivery, m, n)
        /\ UNCHANGED <<phase, source, steady, todo, awaited, waited, written>>
        /\ refreshIn = 0
    BY <1>4 DEF Refresh, Forced, haVars, startVars
  <2>2. phase = "running"
    BY <2>1 DEF GapInv, TInv, TypeOK, Off
  <2>3. ASSUME NEW j \in Inputs
        PROVE  /\ inflight[j] # <<>> => inflight'[j] # <<>>
               /\ steady'[j] /\ ~delivery'[j].failing =>
                    /\ ~delivery[j].failing
                    /\ delivery'[j].age = delivery[j].age
                    /\ inflight'[j] # <<>>
    <3>1. steady[j] => Usable(source[j])
      BY <2>2 DEF RetriedInv
    <3>2. Delivery!Failed(delivery[j]).failing
      BY <1>1, DeliveryOps
    <3>3. \/ /\ Usable(source[j]) /\ delivery'[j] = delivery[j]
             /\ inflight'[j] = Append(inflight[j], source[j])
          \/ /\ inflight'[j] = inflight[j]
             /\ delivery'[j] = Delivery!Failed(delivery[j])
          \/ /\ ~Usable(source[j])
             /\ inflight'[j] = inflight[j] /\ delivery'[j] = delivery[j]
      BY <2>1, ForcedRequests
    <3>4. QED
      BY <1>1, <1>2, <2>1, <3>1, <3>2, <3>3 DEF Usable
  <2>4. QED
    BY <2>1, <2>2, <2>3, FedAttempt
<1>5. ASSUME NEW i \in Inputs, NEW s \in SourceStates, SourceReport(i, s)
      PROVE  FedInv'
  <2>1. /\ \A j \in Inputs : steady'[j] => steady[j]
        /\ UNCHANGED <<phase, todo, awaited, waited, written, refreshIn>>
    BY <1>5 DEF SourceReport, startVars, TInv, TypeOK
  <2>2. CASE Changed(i)
    <3>1. ASSUME NEW j \in Inputs
          PROVE  /\ inflight[j] # <<>> => inflight'[j] # <<>>
                 /\ ~delivery'[j].failing => delivery'[j] = delivery[j]
      <4>1. \/ /\ Usable(source'[j]) /\ delivery'[j] = delivery[j]
               /\ inflight'[j] = Append(inflight[j], source'[j])
            \/ /\ inflight'[j] = inflight[j]
               /\ delivery'[j] = Delivery!Failed(delivery[j])
            \/ inflight'[j] = inflight[j] /\ delivery'[j] = delivery[j]
        BY <2>2, ChangedRequests DEF Wanted
      <4>2. Delivery!Failed(delivery[j]).failing
        BY <1>1, DeliveryOps
      <4>3. QED
        BY <1>1, <1>2, <4>1, <4>2 DEF Usable
    <3>2. QED
      BY <2>1, <3>1, FedAttempt
  <2>3. CASE delivery' = delivery /\ inflight' = inflight
    BY <2>1, <2>3, FedAttempt
  <2>4. QED
    BY <1>5, <2>2, <2>3 DEF SourceReport, Changed
<1>6. CASE Start
  BY <1>6 DEF Start, FedInv, AwaitedInv, Fed, Settled
<1>7. CASE Stop
  BY <1>7 DEF Stop, FedInv, AwaitedInv, Fed
<1>8. ASSUME NEW i \in Inputs, RegistryChange(i) \/ Flush(i)
      PROVE  FedInv'
  <2>1. UNCHANGED <<phase, steady, todo, awaited, waited, written, refreshIn,
                    delivery, inflight>>
    BY <1>8 DEF RegistryChange, Flush, haVars, startVars, historyVars
  <2>2. QED
    BY <2>1, FedAttempt
<1>9. CASE CoreStarted \/ PollResult \/ ConnectionChange \/ UNCHANGED vars
  <2>1. UNCHANGED <<phase, steady, todo, awaited, waited, written, refreshIn,
                    delivery, inflight>>
    BY <1>9 DEF CoreStarted, PollResult, ConnectionChange, unchangedFeeder,
                haVars, startVars, historyVars, vars
  <2>2. QED
    BY <2>1, FedAttempt
<1>10. ASSUME NEW i \in Inputs, WriteSucceeds(i) PROVE FedInv'
  <2>1. /\ Served(i)
        /\ delivery' = [delivery EXCEPT ![i] = Delivery!Succeeded(@)]
        /\ steady' = [steady EXCEPT ![i] = Usable(source[i])]
        /\ written' = [written EXCEPT ![i] = Head(inflight[i])]
    BY <1>10 DEF WriteSucceeds
  <2>2. Delivery!Succeeded(delivery[i]).age = 0
    BY <1>1, DeliveryOps
  <2>3. Head(inflight[i]) # NoValue
    <3>1. inflight[i] \in Seq(Values) /\ inflight[i] # <<>>
      BY <1>1, <2>1 DEF Served
    <3>2. Head(inflight[i]) \in Values
      BY <3>1
    <3>3. QED
      BY <3>2, SourceAssumption
  <2>4. delivery'[i].age = 0 /\ written'[i] # NoValue
    BY <2>1, <2>2, <2>3 DEF TInv, TypeOK
  <2>5. \A j \in Inputs : j # i =>
          /\ delivery'[j] = delivery[j] /\ written'[j] = written[j]
          /\ steady'[j] = steady[j]
    BY <2>1 DEF TInv, TypeOK
  <2>6. QED
    BY <2>1, <2>4, <2>5, FedServed
<1>11. ASSUME NEW i \in Inputs, WriteFails(i) PROVE FedInv'
  <2>1. /\ Served(i)
        /\ delivery' = [delivery EXCEPT ![i] = Delivery!Failed(@)]
        /\ UNCHANGED <<steady, written>>
    BY <1>11 DEF WriteFails
  <2>2. Delivery!Failed(delivery[i]).failing
    BY <1>1, DeliveryOps
  <2>3. /\ delivery'[i].failing
        /\ \A j \in Inputs : j # i => delivery'[j] = delivery[j]
    BY <2>1, <2>2 DEF TInv, TypeOK
  <2>4. QED
    BY <2>1, <2>3, FedServed
<1>12. ASSUME NEW i \in Inputs, StartNext(i) PROVE FedInv'
  BY <1>12, FedStartNext
<1>13. CASE Listen
  BY <1>13, FedListen
<1>14. CASE Tick
  BY <1>14, FedTick
<1>15. QED
  BY <1>3, <1>4, <1>5, <1>6, <1>7, <1>8, <1>9, <1>10, <1>11, <1>12, <1>13,
     <1>14 DEF Next

(***************************************************************************)
(* The durations leave time for a refresh: a whole interval, the writes of *)
(* the other inputs during the start and the request itself, before a      *)
(* value expires (8 min and 3 requests within 10 min).                     *)
(***************************************************************************)
RefreshesInTime ==
  /\ IsFiniteSet(Inputs)
  /\ RewriteInterval + Cardinality(Inputs) * RequestTimeout < ValueValid

\* An input that is fed had a success less than ValueValid ago.
LEMMA FedIsFresh ==
  ASSUME RefreshesInTime, TInv, GapInv, FedInv, phase = "running",
         NEW i \in Inputs, steady[i], ~delivery[i].failing
  PROVE  written[i] # NoValue /\ delivery[i].age < ValueValid
<1>1. written[i] # NoValue /\ delivery[i].age <= AgeBound(i)
  BY DEF FedInv, Fed, Settled
<1>2. /\ Others \in Int /\ Writes(Others) \in Int
      /\ waited[i] \in 0 .. RequestTimeout /\ delivery[i].age \in Nat
  BY BoundTypes DEF RefreshesInTime
<1>3. refreshIn \in 0 .. RewriteInterval
  BY DEF GapInv
<1>4. AgeBound(i) <= Writes(Others) + RewriteInterval + RequestTimeout
      /\ AgeBound(i) \in Int
  BY <1>2, <1>3, DurationAssumption DEF AgeBound
<1>5. Cardinality(Inputs) * RequestTimeout = Writes(Others) + RequestTimeout
  <2>1. Writes(Others + 1) = Writes(Others) + RequestTimeout
    BY <1>2, OneMoreWrite
  <2>2. Cardinality(Inputs) = Others + 1
    BY FS_CardinalityType DEF Others, RefreshesInTime
  <2>3. QED
    BY <2>1, <2>2 DEF Writes
<1>6. QED
  BY <1>1, <1>2, <1>4, <1>5, DurationAssumption DEF RefreshesInTime

(***************************************************************************)
(* While a source stays usable and its writes succeed, the unit never      *)
(* loses its value, for any number of inputs and any durations that leave  *)
(* time for a refresh.                                                     *)
(***************************************************************************)
THEOREM SteadySourceAlwaysStaysValid ==
  ASSUME RefreshesInTime
  PROVE  Spec => []SteadySourceStaysValid
<1>1. Init => GapInv /\ RetriedInv /\ FedInv
  BY DEF Init, GapInv, LongGapIsReported, RetriedInv, SteadySourceIsRetried,
         FedInv, AwaitedInv, Fed
<1>2. Init => SentValueIsHonest
  BY DEF Init, SentValueIsHonest
<1>3. TInv /\ GapInv /\ RetriedInv /\ FedInv /\ [Next]_vars => FedInv'
  BY FedStep DEF RefreshesInTime
<1>4. TInv /\ GapInv /\ FedInv /\ SentValueIsHonest => SteadySourceStaysValid
  <2> SUFFICES ASSUME TInv, GapInv, FedInv, SentValueIsHonest,
                      NEW i \in Inputs, phase = "running", steady[i],
                      unitAge[i] = ValueValid, ~delivery[i].failing
               PROVE  FALSE
    BY DEF SteadySourceStaysValid
  <2>1. written[i] # NoValue /\ delivery[i].age < ValueValid
    BY FedIsFresh
  <2>2. unitAge[i] <= delivery[i].age
    BY <2>1 DEF SentValueIsHonest
  <2>3. delivery[i].age \in Nat
    BY BoundTypes DEF RefreshesInTime
  <2>4. QED
    BY <2>1, <2>2, <2>3, DurationAssumption
<1>5. QED
  BY <1>1, <1>2, <1>3, <1>4, TypeInit, TypeStep, GapStep, RetriedStep, SentStep,
     PTL DEF Spec

-----------------------------------------------------------------------------
\* Until the issue exists, a failing delivery d has a retry that comes in time,
\* or a request in its queue q, waiting for w, that was sent in time.
OnTime(d, q, w) ==
  d.failing /\ ~d.issue =>
    IF d.retryIn # Off
    THEN d.age + d.retryIn < ValueValid + RetryInterval
    ELSE q # <<>> /\ d.age < ValueValid + RetryInterval + w

OnTimeInv ==
  \A i \in Inputs :
    phase # "stopped" /\ steady[i] => OnTime(delivery[i], inflight[i], waited[i])

\* What the methods of a delivery do to it: a failure without an issue comes
\* before ValueValid is over, and the retry it leaves within RetryInterval.
LEMMA OnTimeOps ==
  ASSUME NEW d, DP!DeliveryInv(d), NEW q, NEW w \in Nat
  PROVE  /\ OnTime(Delivery!Failed(d), q, w)
         /\ OnTime(Delivery!Succeeded(d), q, w)
         /\ OnTime(d, q, w) /\ Delivery!Due(d) /\ q # <<>>
              => OnTime(Delivery!RetryFired(d), q, w)
         /\ OnTime(d, q, w) /\ ~Delivery!Due(d)
              => OnTime(Delivery!Older(d), q,
                        IF q = <<>> THEN 0 ELSE w + 1)
<1>1. /\ d.age \in 0 .. AgeLimit
      /\ d.retryIn \in {Off} \union 0 .. RetryInterval
  BY DeliveryTimes
<1>2. OnTime(Delivery!Failed(d), q, w)
  <2> DEFINE f == Delivery!Failed(d)
  <2>1. f.age = d.age
    BY DeliveryOps
  <2>2. /\ f.retryIn = IF d.retryIn = Off THEN RetryInterval ELSE d.retryIn
        /\ f.issue <=> d.issue \/ d.age >= ValueValid
    BY DeliveryTimes
  <2>3. SUFFICES ASSUME ~f.issue
                 PROVE  /\ f.retryIn # Off
                        /\ f.age + f.retryIn < ValueValid + RetryInterval
    BY DEF OnTime
  <2>4. ~(d.age >= ValueValid)
    BY <2>2, <2>3
  <2> HIDE DEF f
  <2>5. QED
    BY <1>1, <2>1, <2>2, <2>4, DurationAssumption DEF Off
<1>3. OnTime(Delivery!Succeeded(d), q, w)
  BY DeliveryOps DEF OnTime
<1>4. ASSUME OnTime(d, q, w), Delivery!Due(d), q # <<>>
      PROVE  OnTime(Delivery!RetryFired(d), q, w)
  <2> DEFINE r == Delivery!RetryFired(d)
  <2>1. /\ r.age = d.age /\ r.failing = d.failing /\ r.issue = d.issue
        /\ r.retryIn = Off
    BY DeliveryOps, DeliveryTimes
  <2>2. d.retryIn = 0
    BY <1>4 DEF Delivery!Due
  <2>3. SUFFICES ASSUME r.failing, ~r.issue
                 PROVE  d.age < ValueValid + RetryInterval + w
    BY <1>4, <2>1 DEF OnTime
  <2>4. d.age + d.retryIn < ValueValid + RetryInterval
    BY <1>4, <2>1, <2>2, <2>3 DEF OnTime, Off
  <2>5. QED
    BY <1>1, <2>2, <2>4, DurationAssumption
<1>5. ASSUME OnTime(d, q, w), ~Delivery!Due(d)
      PROVE  OnTime(Delivery!Older(d), q, IF q = <<>> THEN 0 ELSE w + 1)
  <2> DEFINE o == Delivery!Older(d)
  <2>1. /\ o.failing = d.failing /\ o.issue = d.issue
        /\ o.age = IF d.age < AgeLimit THEN d.age + 1 ELSE d.age
        /\ o.retryIn = IF d.retryIn > 0 THEN d.retryIn - 1 ELSE d.retryIn
    BY DeliveryOps, DeliveryTimes
  <2>2. d.retryIn # 0
    BY <1>5 DEF Delivery!Due
  <2>3. SUFFICES ASSUME o.failing, ~o.issue
                 PROVE  IF o.retryIn # Off
                        THEN o.age + o.retryIn < ValueValid + RetryInterval
                        ELSE /\ q # <<>>
                             /\ o.age < ValueValid + RetryInterval
                                          + (IF q = <<>> THEN 0 ELSE w + 1)
    BY DEF OnTime
  <2> HIDE DEF o
  <2>4. IF d.retryIn # Off
        THEN d.age + d.retryIn < ValueValid + RetryInterval
        ELSE q # <<>> /\ d.age < ValueValid + RetryInterval + w
    BY <1>5, <2>1, <2>3 DEF OnTime
  <2>5. CASE d.retryIn # Off
    BY <1>1, <2>1, <2>2, <2>4, <2>5, DurationAssumption DEF Off
  <2>6. CASE d.retryIn = Off
    BY <1>1, <2>1, <2>4, <2>6, DurationAssumption DEF Off
  <2>7. QED
    BY <2>5, <2>6
<1>6. QED
  BY <1>2, <1>3, <1>4, <1>5

\* Every step keeps OnTimeInv.
LEMMA OnTimeStep == TInv /\ RetriedInv /\ OnTimeInv /\ [Next]_vars => OnTimeInv'
<1> SUFFICES ASSUME TInv, RetriedInv, OnTimeInv, [Next]_vars PROVE OnTimeInv'
  OBVIOUS
<1>1. \A i \in Inputs : /\ DP!DeliveryInv(delivery[i])
                        /\ inflight[i] \in Seq(Values)
                        /\ waited[i] \in Nat
  <2>1. \A i \in Inputs : waited[i] \in 0 .. RequestTimeout
    BY DEF TInv, TypeOK
  <2>2. QED
    BY <2>1, DurationAssumption DEF TInv, TypeOK
<1>2. ASSUME phase' = phase, UNCHANGED waited,
             \A j \in Inputs :
               /\ steady'[j] => steady[j]
               /\ \/ delivery'[j] = Delivery!Failed(delivery[j])
                  \/ /\ delivery'[j] = delivery[j]
                     /\ inflight[j] # <<>> => inflight'[j] # <<>>
      PROVE  OnTimeInv'
  <2>1. ASSUME NEW j \in Inputs, phase # "stopped", steady'[j]
        PROVE  OnTime(delivery'[j], inflight'[j], waited[j])
    <3>1. OnTime(delivery[j], inflight[j], waited[j])
      BY <1>2, <2>1 DEF OnTimeInv
    <3>2. OnTime(Delivery!Failed(delivery[j]), inflight'[j], waited[j])
      BY <1>1, OnTimeOps
    <3>3. QED
      BY <1>2, <3>1, <3>2 DEF OnTime
  <2>2. QED
    BY <1>2, <2>1 DEF OnTimeInv
<1>3. ASSUME NEW S, NEW m, NEW n, Forced(S, delivery, m, n),
             UNCHANGED <<phase, waited, steady>>
      PROVE  OnTimeInv'
  <2>1. ASSUME NEW j \in Inputs
        PROVE  \/ delivery'[j] = Delivery!Failed(delivery[j])
               \/ /\ delivery'[j] = delivery[j]
                  /\ inflight[j] # <<>> => inflight'[j] # <<>>
    <3>1. Usable(source[j]) => Append(inflight[j], source[j]) # <<>>
      BY <1>1, AppendLast DEF Usable
    <3>2. QED
      BY <1>3, <3>1, ForcedRequests
  <2>2. QED
    BY <1>2, <1>3, <2>1
<1>4. ASSUME NEW i \in Inputs, StartNext(i) PROVE OnTimeInv'
  <2>1. ASSUME phase' = phase PROVE OnTimeInv'
    BY <1>3, <1>4, <2>1 DEF StartNext, Forced
  <2>2. QED
    BY <1>4, <2>1 DEF StartNext
<1>5. CASE Refresh
  <2>1. /\ \E m, n : Forced(Inputs, delivery, m, n)
        /\ UNCHANGED <<phase, waited, steady>>
    BY <1>5 DEF Refresh, Forced, startVars
  <2>2. QED
    BY <1>3, <2>1
<1>6. ASSUME NEW i \in Inputs, Retry(i) PROVE OnTimeInv'
  <2> DEFINE r == Delivery!RetryFired(delivery[i])
             d == [delivery EXCEPT ![i] = r]
  <2>1. /\ Delivery!Due(delivery[i])
        /\ Forced({i}, d, missing, noData)
        /\ UNCHANGED <<phase, waited, steady>>
    BY <1>6 DEF Retry, Forced, startVars
  <2>2. d[i] = r /\ \A j \in Inputs : j # i => d[j] = delivery[j]
    BY DEF TInv, TypeOK
  <2>3. DP!DeliveryInv(r)
    BY <1>1, DeliveryOps
  <2> HIDE DEF d, r
  <2>4. ASSUME NEW j \in Inputs, phase # "stopped", steady[j]
        PROVE  OnTime(delivery'[j], inflight'[j], waited[j])
    <3>1. OnTime(delivery[j], inflight[j], waited[j]) /\ Usable(source[j])
      BY <2>4 DEF OnTimeInv, RetriedInv
    <3>2. CASE j # i
      <4>1. delivery'[j] = delivery[j] /\ inflight'[j] = inflight[j]
        BY <2>1, <2>2, <3>2, ForcedRequests
      <4>2. QED
        BY <3>1, <4>1
    <3>3. CASE j = i /\ problem
      <4>1. delivery'[j] = Delivery!Failed(r)
        BY <2>1, <2>2, <3>1, <3>3, ForcedRequests
      <4>2. QED
        BY <1>1, <2>3, <4>1, OnTimeOps
    <3>4. CASE j = i /\ ~problem
      <4>1. delivery'[i] = r /\ inflight'[i] = Append(inflight[i], source[i])
        BY <2>1, <2>2, <3>1, <3>4, ForcedRequests
      <4>2. inflight'[i] # <<>>
        BY <1>1, <3>1, <3>4, <4>1, AppendLast DEF Usable
      <4>3. OnTime(delivery[i], inflight'[i], waited[i])
        BY <3>1, <3>4, <4>2 DEF OnTime
      <4>4. QED
        BY <1>1, <2>1, <3>4, <4>1, <4>2, <4>3, OnTimeOps DEF r
    <3>5. QED
      BY <3>2, <3>3, <3>4
  <2>5. QED
    BY <2>1, <2>4 DEF OnTimeInv
<1>7. ASSUME NEW i \in Inputs, NEW s \in SourceStates, SourceReport(i, s)
      PROVE  OnTimeInv'
  <2>1. /\ \A j \in Inputs : steady'[j] => steady[j]
        /\ UNCHANGED <<phase, waited>>
    BY <1>7 DEF SourceReport, startVars, TInv, TypeOK
  <2>2. CASE Changed(i)
    <3>1. ASSUME NEW j \in Inputs
          PROVE  \/ delivery'[j] = Delivery!Failed(delivery[j])
                 \/ /\ delivery'[j] = delivery[j]
                    /\ inflight[j] # <<>> => inflight'[j] # <<>>
      <4>1. Usable(source'[j]) => Append(inflight[j], source'[j]) # <<>>
        BY <1>1, AppendLast DEF Usable
      <4>2. QED
        BY <2>2, <4>1, ChangedRequests DEF Wanted
    <3>2. QED
      BY <1>2, <2>1, <3>1
  <2>3. CASE delivery' = delivery /\ inflight' = inflight
    BY <1>2, <2>1, <2>3
  <2>4. QED
    BY <1>7, <2>2, <2>3 DEF SourceReport, Changed
<1>8. CASE Start
  BY <1>8, NewDeliveryOps DEF Start, OnTimeInv, OnTime
<1>9. CASE Stop
  BY <1>9 DEF Stop, OnTimeInv
<1>10. CASE Listen
  BY <1>10 DEF Listen, OnTimeInv, historyVars
<1>11. ASSUME NEW i \in Inputs, RegistryChange(i) \/ Flush(i)
       PROVE  OnTimeInv'
  BY <1>2, <1>11 DEF RegistryChange, Flush, startVars, historyVars
<1>12. CASE CoreStarted \/ PollResult \/ ConnectionChange \/ UNCHANGED vars
  BY <1>2, <1>12 DEF CoreStarted, PollResult, ConnectionChange,
                     unchangedFeeder, startVars, historyVars, vars
<1>13. ASSUME NEW i \in Inputs, WriteSucceeds(i) \/ WriteFails(i)
       PROVE  OnTimeInv'
  <2>1. /\ phase' = phase
        /\ \/ delivery' = [delivery EXCEPT ![i] = Delivery!Succeeded(@)]
           \/ delivery' = [delivery EXCEPT ![i] = Delivery!Failed(@)]
        /\ inflight' = [inflight EXCEPT ![i] = Tail(@)]
        /\ waited' = [waited EXCEPT ![i] = 0]
        /\ \A j \in Inputs : j # i => steady'[j] = steady[j]
    BY <1>13 DEF WriteSucceeds, WriteFails, Served, TInv, TypeOK
  <2>2. ASSUME NEW j \in Inputs, phase # "stopped", steady'[j]
        PROVE  OnTime(delivery'[j], inflight'[j], waited'[j])
    <3>1. CASE j # i
      <4>1. /\ delivery'[j] = delivery[j] /\ inflight'[j] = inflight[j]
            /\ waited'[j] = waited[j] /\ steady[j]
        BY <2>1, <2>2, <3>1 DEF TInv, TypeOK
      <4>2. QED
        BY <2>2, <4>1 DEF OnTimeInv
    <3>2. CASE j = i
      <4>1. /\ \/ delivery'[j] = Delivery!Succeeded(delivery[j])
               \/ delivery'[j] = Delivery!Failed(delivery[j])
            /\ waited'[j] = 0
        BY <2>1, <3>2 DEF TInv, TypeOK
      <4>2. QED
        BY <1>1, <4>1, OnTimeOps
    <3>3. QED
      BY <3>1, <3>2
  <2>3. QED
    BY <2>1, <2>2 DEF OnTimeInv
<1>14. CASE Tick
  <2>1. /\ UNCHANGED <<phase, inflight, steady>>
        /\ \A j \in Inputs :
             /\ ~Delivery!Due(delivery[j])
             /\ delivery'[j] = Delivery!Older(delivery[j])
             /\ waited'[j] = IF inflight[j] = <<>> THEN 0 ELSE waited[j] + 1
    BY <1>14 DEF Tick, startVars, historyVars
  <2>2. ASSUME NEW j \in Inputs, phase # "stopped", steady[j]
        PROVE  OnTime(delivery'[j], inflight[j], waited'[j])
    <3>1. OnTime(delivery[j], inflight[j], waited[j])
      BY <2>2 DEF OnTimeInv
    <3>2. QED
      BY <1>1, <2>1, <3>1, OnTimeOps
  <2>3. QED
    BY <2>1, <2>2 DEF OnTimeInv
<1>15. QED
  BY <1>4, <1>5, <1>6, <1>7, <1>8, <1>9, <1>10, <1>11, <1>12, <1>13, <1>14
  DEF Next

(***************************************************************************)
(* With a usable source, an outage has its issue as soon as one retry and  *)
(* one request had their time after ValueValid, for any number of inputs   *)
(* and any durations that leave time for a refresh.                        *)
(***************************************************************************)
THEOREM OutageIsAlwaysReported ==
  ASSUME RefreshesInTime
  PROVE  Spec => []OutageIsReported
<1>1. Init => GapInv /\ RetriedInv /\ FedInv /\ OnTimeInv
  BY DEF Init, GapInv, LongGapIsReported, RetriedInv, SteadySourceIsRetried,
         FedInv, AwaitedInv, Fed, OnTimeInv
<1>2. TInv /\ GapInv /\ RetriedInv /\ FedInv /\ [Next]_vars => FedInv'
  BY FedStep DEF RefreshesInTime
<1>3. TInv /\ GapInv /\ FedInv /\ OnTimeInv => OutageIsReported
  <2> SUFFICES ASSUME TInv, GapInv, FedInv, OnTimeInv, NEW i \in Inputs,
                      phase = "running", steady[i], ~delivery[i].issue,
                      delivery[i].age
                        >= ValueValid + RetryInterval + RequestTimeout
               PROVE  FALSE
    BY DEF OutageIsReported
  <2>1. /\ delivery[i].age \in 0 .. AgeLimit
        /\ delivery[i].retryIn \in {Off} \union 0 .. RetryInterval
        /\ waited[i] \in 0 .. RequestTimeout
    BY DeliveryTimes DEF TInv, TypeOK
  <2>2. CASE delivery[i].failing
    <3>1. OnTime(delivery[i], inflight[i], waited[i])
      BY DEF OnTimeInv
    <3>2. QED
      BY <2>1, <2>2, <3>1, DurationAssumption DEF OnTime, Off
  <2>3. CASE ~delivery[i].failing
    BY <2>1, <2>3, FedIsFresh, DurationAssumption
  <2>4. QED
    BY <2>2, <2>3
<1>4. QED
  BY <1>1, <1>2, <1>3, TypeInit, TypeStep, GapStep, RetriedStep, OnTimeStep,
     PTL DEF Spec
=============================================================================
