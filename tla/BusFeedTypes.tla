----------------------------- MODULE BusFeedTypes -----------------------------
(***************************************************************************)
(* Proof of the type invariant of module BusFeed, for any inputs,          *)
(* durations and bounds, and the lemmas about its operators that the       *)
(* proofs in BusFeedProofs rest on.                                        *)
(***************************************************************************)
EXTENDS BusFeed, TLAPS

\* The lemmas about the methods of the two classes, for the feeder's own logs
\* and deliveries.
LP == INSTANCE BusLogProofs WITH open <- (phase # "stopped")
DP == INSTANCE BusDeliveryProofs WITH open <- (phase # "stopped")

\* The definitions of the two instances of BusDelivery, that of BusFeed and
\* that behind the lemmas of BusDeliveryProofs, are the same.
LEMMA SameDelivery ==
  /\ DP!DeliveryState = Delivery!DeliveryState
  /\ DP!NewDelivery = Delivery!NewDelivery
  /\ \A d : /\ DP!Succeeded(d) = Delivery!Succeeded(d)
            /\ DP!Failed(d) = Delivery!Failed(d)
            /\ DP!RetryFired(d) = Delivery!RetryFired(d)
            /\ DP!StopDelivery(d) = Delivery!StopDelivery(d)
            /\ DP!Older(d) = Delivery!Older(d)
            /\ DP!Due(d) = Delivery!Due(d)
            /\ DP!Outdated(d) = Delivery!Outdated(d)
  BY DEF DP!DeliveryState, Delivery!DeliveryState, DP!OutageEntries,
         Delivery!OutageEntries, DP!Off, Delivery!Off, DP!NewDelivery,
         Delivery!NewDelivery, DP!Succeeded, Delivery!Succeeded, DP!Failed,
         Delivery!Failed, DP!Fire, Delivery!Fire, DP!Outdated,
         Delivery!Outdated, DP!RetryFired, Delivery!RetryFired,
         DP!StopDelivery, Delivery!StopDelivery, DP!Older, Delivery!Older,
         DP!Due, Delivery!Due

\* So are those of the two instances of BusLog.
LEMMA SameLog ==
  /\ LP!LogState = Log!LogState
  /\ LP!NewLog = Log!NewLog
  /\ \A l : /\ LP!Forget(l) = Log!Forget(l)
            /\ LP!Flush(l) = Log!Flush(l)
            /\ LP!StopLog(l) = Log!StopLog(l)
            /\ LP!Older(l) = Log!Older(l)
            /\ LP!Due(l) = Log!Due(l)
            /\ \A v : LP!Sent(l, v) = Log!Sent(l, v)
  BY DEF LP!LogState, Log!LogState, LP!Off, Log!Off, LP!NewLog, Log!NewLog,
         LP!Forget, Log!Forget, LP!Flush, Log!Flush, LP!LogSent, Log!LogSent,
         LP!StopLog, Log!StopLog, LP!Older, Log!Older, LP!Due, Log!Due,
         LP!Sent, Log!Sent, LP!Throttled, Log!Throttled, LP!Postpone,
         Log!Postpone

\* What the methods of BusLog do to a log, in terms of the instance of BusFeed
\* (from BusLogProofs).
LEMMA LogOps ==
  ASSUME NEW l, LP!LogInv(l)
  PROVE  /\ l \in Log!LogState
         /\ LP!LogInv(Log!Forget(l)) /\ Log!Forget(l).timer = l.timer
         /\ Log!Due(l) => LP!LogInv(Log!Flush(l))
         /\ LP!LogInv(Log!StopLog(l)) /\ Log!StopLog(l).timer = Off
         /\ ~Log!Due(l) => LP!LogInv(Log!Older(l))
         /\ l.timer = Off => Log!Older(l).timer = Off
         /\ \A v \in Values : LP!LogInv(Log!Sent(l, v))
<1>1. l \in Log!LogState
  BY SameLog DEF LP!LogInv
<1>2. /\ LP!LogInv(Log!Forget(l)) /\ LP!LogInv(Log!StopLog(l))
      /\ \A v \in Values : LP!LogInv(Log!Sent(l, v))
  BY SameLog, LP!ForgetInv, LP!StopLogInv, LP!SentInv, SourceAssumption,
     DurationAssumption
<1>3. /\ Log!Due(l) => LP!LogInv(Log!Flush(l))
      /\ ~Log!Due(l) => LP!LogInv(Log!Older(l))
  BY SameLog, LP!FlushInv, LP!OlderLogInv, SourceAssumption, DurationAssumption
<1>4. /\ Log!Forget(l).timer = l.timer /\ Log!StopLog(l).timer = Off
      /\ l.timer = Off => Log!Older(l).timer = Off
  BY <1>1 DEF Log!LogState, Log!Forget, Log!StopLog, Log!Older, Log!Off, Off
<1>5. QED
  BY <1>1, <1>2, <1>3, <1>4

\* A new log is a good one.
LEMMA NewLogOps == LP!LogInv(Log!NewLog)
  BY SameLog, LP!NewLogInv, SourceAssumption, DurationAssumption

\* So is a new delivery, which is not in an outage.
LEMMA NewDeliveryOps ==
  /\ DP!DeliveryInv(Delivery!NewDelivery)
  /\ ~Delivery!NewDelivery.failing
  BY SameDelivery, DP!NewDeliveryInv, DurationAssumption
  DEF Delivery!NewDelivery

\* What the methods of BusDelivery do to a delivery (from BusDeliveryProofs).
LEMMA DeliveryOps ==
  ASSUME NEW d, DP!DeliveryInv(d)
  PROVE  /\ d \in Delivery!DeliveryState
         /\ LET s == Delivery!Succeeded(d)
            IN  DP!DeliveryInv(s) /\ s.age = 0 /\ s.retryIn = Off /\ ~s.failing
         /\ LET f == Delivery!Failed(d)
            IN  /\ DP!DeliveryInv(f) /\ f.age = d.age /\ f.failing
                /\ f.retryIn # Off
         /\ LET r == Delivery!RetryFired(d)
            IN  /\ DP!DeliveryInv(r) /\ r.age = d.age
                /\ r.failing = d.failing /\ r.issue = d.issue
         /\ LET s == Delivery!StopDelivery(d)
            IN  DP!DeliveryInv(s) /\ s.retryIn = Off /\ ~s.issue
         /\ LET o == Delivery!Older(d)
            IN  /\ DP!DeliveryInv(o) /\ o.failing = d.failing
                /\ o.issue = d.issue
                /\ o.age = IF d.age < AgeLimit THEN d.age + 1 ELSE d.age
                /\ o.retryIn = Off <=> d.retryIn = Off
<1>1. d \in Delivery!DeliveryState
  BY SameDelivery DEF DP!DeliveryInv
<1>2. LET s == Delivery!Succeeded(d)
      IN  DP!DeliveryInv(s) /\ s.age = 0 /\ s.retryIn = Off /\ ~s.failing
  BY SameDelivery, DP!SucceededInv, DurationAssumption DEF DP!Off, Off
<1>3. LET f == Delivery!Failed(d)
      IN  /\ DP!DeliveryInv(f) /\ f.age = d.age /\ f.failing
          /\ f.retryIn # Off
  BY SameDelivery, DP!FailedInv, DurationAssumption DEF DP!Off, Off
<1>4. LET r == Delivery!RetryFired(d)
      IN  /\ DP!DeliveryInv(r) /\ r.age = d.age
          /\ r.failing = d.failing /\ r.issue = d.issue
  BY SameDelivery, DP!RetryFiredInv, DurationAssumption
<1>5. LET s == Delivery!StopDelivery(d)
      IN  DP!DeliveryInv(s) /\ s.retryIn = Off /\ ~s.issue
  BY SameDelivery, DP!StopDeliveryInv, DurationAssumption DEF DP!Off, Off
<1>6. LET o == Delivery!Older(d)
      IN  /\ DP!DeliveryInv(o) /\ o.failing = d.failing
          /\ o.issue = d.issue
          /\ o.age = IF d.age < AgeLimit THEN d.age + 1 ELSE d.age
          /\ o.retryIn = Off <=> d.retryIn = Off
  BY SameDelivery, DP!OlderDeliveryInv, DurationAssumption DEF DP!Off, Off
<1>7. QED
  BY <1>1, <1>2, <1>3, <1>4, <1>5, <1>6

-----------------------------------------------------------------------------
(***************************************************************************)
(* The type invariant, with the inductive invariants of each log and each  *)
(* delivery: they make the method lemmas above apply in every step.        *)
(***************************************************************************)
TInv ==
  /\ TypeOK
  /\ \A i \in Inputs : LP!LogInv(log[i]) /\ DP!DeliveryInv(delivery[i])

\* What Attempt changes has the right type in the next state.
AttemptType ==
  /\ skipped' \in [Inputs -> BOOLEAN]
  /\ usableAge' \in [Inputs -> 0 .. UsableAgeLimit]
  /\ missing' \in [Inputs -> BOOLEAN]
  /\ noData' \in [Inputs -> BOOLEAN]
  /\ log' \in [Inputs -> Log!LogState]
  /\ delivery' \in [Inputs -> Delivery!DeliveryState]
  /\ inflight' \in [Inputs -> Seq(Values)]
  /\ \A i \in Inputs : LP!LogInv(log'[i]) /\ DP!DeliveryInv(delivery'[i])

\* The two ways the handlers call _async_write: forced, for the present states
\* of the sources, and for the new state of one source.
Forced(S, d, m, n) == Attempt(S, TRUE, source, d, m, n)
Changed(i) == Attempt({i}, FALSE, source', delivery, missing, noData)

\* A forced attempt clears the source issues of the usable sources and restarts
\* their time, and leaves the others as the handler passes them.
LEMMA ForcedIssues ==
  ASSUME NEW S, NEW d, NEW m, NEW n, Forced(S, d, m, n)
  PROVE  \A i \in Inputs :
           /\ missing'[i] <=> m[i] /\ ~(i \in S /\ Usable(source[i]))
           /\ noData'[i] <=> n[i] /\ ~(i \in S /\ Usable(source[i]))
           /\ usableAge'[i] = IF i \in S /\ Usable(source[i])
                              THEN 0 ELSE usableAge[i]
  BY DEF Forced, Attempt, Cleared

\* A forced attempt sends a request for every usable source, or fails it at
\* once when the identity check holds writes back.
LEMMA ForcedRequests ==
  ASSUME NEW S, NEW d, NEW m, NEW n, Forced(S, d, m, n)
  PROVE  \A i \in Inputs :
           \/ /\ i \in S /\ Usable(source[i]) /\ ~problem
              /\ inflight'[i] = Append(inflight[i], source[i])
              /\ delivery'[i] = d[i]
           \/ /\ i \in S /\ Usable(source[i]) /\ problem
              /\ inflight'[i] = inflight[i]
              /\ delivery'[i] = Delivery!Failed(d[i])
           \/ /\ ~(i \in S /\ Usable(source[i]))
              /\ inflight'[i] = inflight[i]
              /\ delivery'[i] = d[i]
  BY DEF Forced, Attempt, Wanted

\* The attempt after a change clears the issues of its own input only.
LEMMA ChangedIssues ==
  ASSUME NEW i \in Inputs, Changed(i)
  PROVE  \A j \in Inputs :
           /\ missing'[j] <=> missing[j] /\ ~(i = j /\ Usable(source'[j]))
           /\ noData'[j] <=> noData[j] /\ ~(i = j /\ Usable(source'[j]))
           /\ usableAge'[j] = IF i = j /\ Usable(source'[j])
                              THEN 0 ELSE usableAge[j]
  BY DEF Changed, Attempt, Cleared

\* The attempt after a change sends or fails the new value of its own input, if
\* it is not the one that was written last.
LEMMA ChangedRequests ==
  ASSUME NEW i \in Inputs, Changed(i)
  PROVE  \A j \in Inputs :
           \/ /\ i = j /\ Wanted(j, source'[j], FALSE) /\ ~problem
              /\ inflight'[j] = Append(inflight[j], source'[j])
              /\ delivery'[j] = delivery[j]
           \/ /\ i = j /\ Wanted(j, source'[j], FALSE) /\ problem
              /\ inflight'[j] = inflight[j]
              /\ delivery'[j] = Delivery!Failed(delivery[j])
           \/ /\ ~(i = j /\ Wanted(j, source'[j], FALSE))
              /\ inflight'[j] = inflight[j]
              /\ delivery'[j] = delivery[j]
  BY DEF Changed, Attempt, Wanted

\* What an attempt changes keeps its type.
LEMMA AttemptTypes ==
  ASSUME TInv, NEW S \in SUBSET Inputs, NEW force,
         NEW src \in [Inputs -> SourceStates],
         NEW d \in [Inputs -> Delivery!DeliveryState],
         \A i \in Inputs : DP!DeliveryInv(d[i]),
         NEW m, NEW n, Attempt(S, force, src, d, m, n)
  PROVE  AttemptType
<1> DEFINE usable == {i \in S : Usable(src[i])}
           wanted == {i \in S : Wanted(i, src[i], force)}
           sends  == IF problem THEN {} ELSE wanted
<1>1. /\ skipped' = [i \in Inputs |-> skipped'[i]]
      /\ usableAge' = [i \in Inputs |->
                         IF i \in usable THEN 0 ELSE usableAge[i]]
      /\ missing' = [i \in Inputs |-> m[i] /\ i \notin usable]
      /\ noData' = [i \in Inputs |-> n[i] /\ i \notin usable]
      /\ log' = [i \in Inputs |-> log'[i]]
      /\ delivery' = [i \in Inputs |-> IF i \in wanted \ sends
                                       THEN Delivery!Failed(d[i]) ELSE d[i]]
      /\ inflight' = [i \in Inputs |-> IF i \in sends
                                       THEN Append(inflight[i], src[i])
                                       ELSE inflight[i]]
  BY DEF Attempt, Cleared
<1>2. \A i \in Inputs : skipped'[i] \in BOOLEAN
  BY DEF Attempt
<1> HIDE DEF usable, wanted, sends
<1>3. /\ skipped' \in [Inputs -> BOOLEAN]
      /\ missing' \in [Inputs -> BOOLEAN]
      /\ noData' \in [Inputs -> BOOLEAN]
  BY <1>1, <1>2
<1>4. usableAge' \in [Inputs -> 0 .. UsableAgeLimit]
  BY <1>1, DurationAssumption DEF TInv, TypeOK, UsableAgeLimit
<1>5. ASSUME NEW i \in Inputs PROVE LP!LogInv(log'[i])
  <2>1. log'[i] = log[i] \/ log'[i] = Log!Forget(log[i])
    BY DEF Attempt
  <2>2. QED
    BY <2>1, LogOps DEF TInv
<1>6. log' \in [Inputs -> Log!LogState]
  BY <1>1, <1>5, LogOps
<1>7. \A i \in Inputs : DP!DeliveryInv(delivery'[i])
  BY <1>1, DeliveryOps
<1>8. delivery' \in [Inputs -> Delivery!DeliveryState]
  BY <1>1, <1>7, DeliveryOps
<1>9. \A i \in sends : src[i] \in Values
  BY DEF sends, wanted, Wanted, Usable
<1>10. inflight' \in [Inputs -> Seq(Values)]
  BY <1>1, <1>9 DEF TInv, TypeOK
<1>11. QED
  BY <1>3, <1>4, <1>5, <1>6, <1>7, <1>8, <1>10 DEF AttemptType

\* How a source was read keeps its type.
LEMMA ForcedReadingType ==
  ASSUME TInv, NEW S, ForcedReading(S)
  PROVE  reading' \in [Inputs -> Readings]
  BY DEF TInv, TypeOK, ForcedReading, Readings

-----------------------------------------------------------------------------
\* The type invariant holds in the initial states.
LEMMA TypeInit == Init => TInv
<1> SUFFICES ASSUME Init PROVE TInv
  OBVIOUS
<1>1. /\ Log!NewLog \in Log!LogState
      /\ Delivery!NewDelivery \in Delivery!DeliveryState
  BY NewLogOps, LogOps, NewDeliveryOps, DeliveryOps
<1>2. ValueValid \in 0 .. ValueValid /\ 0 \in 0 .. RequestTimeout
      /\ 0 \in 0 .. UsableAgeLimit
  BY DurationAssumption DEF UsableAgeLimit
<1>3. /\ source \in [Inputs -> SourceStates]
      /\ registered \in [Inputs -> BOOLEAN]
      /\ coreRunning \in BOOLEAN /\ problem \in BOOLEAN
      /\ reachable \in BOOLEAN
      /\ unit \in [Inputs -> Values \union {NoValue}]
      /\ unitAge \in [Inputs -> 0 .. ValueValid]
  BY <1>2 DEF Init
<1>4. /\ phase \in {"starting", "running", "stopped"}
      /\ todo \in SUBSET Inputs
      /\ awaited \in Inputs \union {NoInput}
      /\ refreshIn \in {Off} \union 0 .. RewriteInterval
  BY DEF Init
<1>5. inflight \in [Inputs -> Seq(Values)]
  BY DEF Init
<1>6. /\ waited \in [Inputs -> 0 .. RequestTimeout]
      /\ written \in [Inputs -> Values \union {NoValue}]
      /\ skipped \in [Inputs -> BOOLEAN]
      /\ usableAge \in [Inputs -> 0 .. UsableAgeLimit]
      /\ missing \in [Inputs -> BOOLEAN]
      /\ noData \in [Inputs -> BOOLEAN]
  BY <1>2 DEF Init
<1>7. /\ log \in [Inputs -> Log!LogState]
      /\ delivery \in [Inputs -> Delivery!DeliveryState]
  BY <1>1 DEF Init
<1>8. /\ reading \in [Inputs -> Readings]
      /\ steady \in [Inputs -> BOOLEAN]
      /\ checked \in BOOLEAN
  BY DEF Init, Readings
<1>9. TypeOK
  BY <1>3, <1>4, <1>5, <1>6, <1>7, <1>8 DEF TypeOK
<1>10. QED
  BY <1>9, NewLogOps, NewDeliveryOps DEF Init, TInv

\* async_start begins with a new feeder, whose state has the right type.
LEMMA TypeStart == TInv /\ Start => TInv'
<1> SUFFICES ASSUME TInv, Start PROVE TInv'
  OBVIOUS
<1>1. /\ Log!NewLog \in Log!LogState
      /\ Delivery!NewDelivery \in Delivery!DeliveryState
  BY NewLogOps, LogOps, NewDeliveryOps, DeliveryOps
<1>2. 0 \in 0 .. UsableAgeLimit
  BY DurationAssumption DEF UsableAgeLimit
<1>3. /\ phase' \in {"starting", "running", "stopped"}
      /\ todo' \in SUBSET Inputs
      /\ awaited' \in Inputs \union {NoInput}
      /\ coreRunning' \in BOOLEAN
  BY DEF Start, TInv, TypeOK
<1>4. /\ written' \in [Inputs -> Values \union {NoValue}]
      /\ skipped' \in [Inputs -> BOOLEAN]
      /\ usableAge' \in [Inputs -> 0 .. UsableAgeLimit]
  BY <1>2 DEF Start
<1>5. /\ log' \in [Inputs -> Log!LogState]
      /\ delivery' \in [Inputs -> Delivery!DeliveryState]
  BY <1>1 DEF Start
<1>6. /\ reading' \in [Inputs -> Readings]
      /\ checked' \in BOOLEAN
  BY DEF Start, Readings
<1>7. steady' \in [Inputs -> BOOLEAN]
  <2>1. \A i \in Inputs : Usable(source[i]) \in BOOLEAN
    BY DEF Usable
  <2>2. QED
    BY <2>1 DEF Start
<1>8. UNCHANGED <<source, registered, problem, reachable, unit, unitAge,
                  refreshIn, inflight, waited, missing, noData>>
  BY DEF Start, unitVars
<1>9. TypeOK'
  BY <1>3, <1>4, <1>5, <1>6, <1>7, <1>8 DEF TInv, TypeOK
<1>10. QED
  BY <1>9, NewLogOps, NewDeliveryOps DEF Start, TInv

\* A write of async_start keeps the types.
LEMMA TypeStartNext ==
  ASSUME TInv, NEW i \in Inputs, StartNext(i) PROVE TInv'
<1>1. Attempt({i}, TRUE, source, delivery, missing, noData)
  BY DEF StartNext
<1>2. reading' \in [Inputs -> Readings]
  BY ForcedReadingType DEF StartNext
<1>3. AttemptType
  BY <1>1, AttemptTypes DEF TInv, TypeOK
<1>4. QED
  BY <1>2, <1>3 DEF StartNext, TInv, TypeOK, AttemptType, haVars, unitVars

\* The end of async_start keeps the types.
LEMMA TypeListen == TInv /\ Listen => TInv'
  BY DurationAssumption
  DEF Listen, TInv, TypeOK, haVars, unitVars, sourceVars, historyVars

\* async_stop keeps the types, whichever late requests reach the unit.
LEMMA TypeStop == TInv /\ Stop => TInv'
<1> SUFFICES ASSUME TInv, Stop PROVE TInv'
  OBVIOUS
<1>1. PICK late \in SUBSET {i \in Inputs : inflight[i] # <<>>} :
        /\ unit' = [i \in Inputs |->
                      IF i \in late THEN Head(inflight[i]) ELSE unit[i]]
        /\ unitAge' = [i \in Inputs |-> IF i \in late THEN 0 ELSE unitAge[i]]
  BY DEF Stop
<1>2. /\ unit' \in [Inputs -> Values \union {NoValue}]
      /\ unitAge' \in [Inputs -> 0 .. ValueValid]
  <2>1. ASSUME NEW i \in late PROVE Head(inflight[i]) \in Values
    <3>1. inflight[i] \in Seq(Values) /\ inflight[i] # <<>>
      BY DEF TInv, TypeOK
    <3>2. QED
      BY <3>1
  <2>2. 0 \in 0 .. ValueValid
    BY DurationAssumption
  <2>3. QED
    BY <1>1, <2>1, <2>2 DEF TInv, TypeOK
<1>3. /\ phase' \in {"starting", "running", "stopped"}
      /\ todo' \in SUBSET Inputs
      /\ awaited' \in Inputs \union {NoInput}
      /\ refreshIn' \in {Off} \union 0 .. RewriteInterval
      /\ missing' \in [Inputs -> BOOLEAN]
      /\ noData' \in [Inputs -> BOOLEAN]
  BY DEF Stop
<1>4. /\ inflight' \in [Inputs -> Seq(Values)]
      /\ waited' \in [Inputs -> 0 .. RequestTimeout]
  BY DurationAssumption DEF Stop
<1>5. \A i \in Inputs : LP!LogInv(log'[i]) /\ DP!DeliveryInv(delivery'[i])
  BY LogOps, DeliveryOps DEF Stop, TInv, TypeOK
<1>6. /\ log' \in [Inputs -> Log!LogState]
      /\ delivery' \in [Inputs -> Delivery!DeliveryState]
  BY <1>5, LogOps, DeliveryOps DEF Stop
<1>7. UNCHANGED <<source, registered, coreRunning, problem, reachable, written,
                  skipped, usableAge, reading, steady, checked>>
  BY DEF Stop, haVars, historyVars
<1>8. TypeOK'
  BY <1>2, <1>3, <1>4, <1>6, <1>7 DEF TInv, TypeOK
<1>9. QED
  BY <1>5, <1>8 DEF TInv

\* A report of a source keeps the types, whether it is heard or not.
LEMMA TypeSourceReport ==
  ASSUME TInv, NEW i \in Inputs, NEW s \in SourceStates, SourceReport(i, s)
  PROVE  TInv'
<1>1. /\ source' \in [Inputs -> SourceStates]
      /\ steady' \in [Inputs -> BOOLEAN]
  BY DEF SourceReport, TInv, TypeOK, Usable
<1>2. UNCHANGED <<registered, coreRunning, problem, reachable, unit, unitAge,
                  phase, todo, awaited, refreshIn, waited, written, checked>>
  BY DEF SourceReport, unitVars, startVars
<1>3. CASE /\ Attempt({i}, FALSE, source', delivery, missing, noData)
           /\ reading' = [reading EXCEPT ![i] = Heard(i, s)]
  <2>1. AttemptType
    BY <1>1, <1>3, AttemptTypes DEF TInv, TypeOK
  <2>2. reading' \in [Inputs -> Readings]
    BY <1>3 DEF TInv, TypeOK, Heard, Readings
  <2>3. QED
    BY <1>1, <1>2, <2>1, <2>2 DEF TInv, TypeOK, AttemptType
<1>4. CASE /\ reading' = [reading EXCEPT ![i] =
                            IF s = source[i] THEN @ ELSE "unread"]
           /\ UNCHANGED <<sourceVars, log, delivery, inflight>>
  <2>1. reading' \in [Inputs -> Readings]
    BY <1>4 DEF TInv, TypeOK, Readings
  <2>2. QED
    BY <1>1, <1>2, <1>4, <2>1 DEF TInv, TypeOK, sourceVars
<1>5. QED
  BY <1>3, <1>4 DEF SourceReport

\* A registry event keeps the types.
LEMMA TypeRegistryChange ==
  ASSUME TInv, NEW i \in Inputs, RegistryChange(i) PROVE TInv'
<1>1. /\ registered' \in [Inputs -> BOOLEAN]
      /\ missing' \in [Inputs -> BOOLEAN]
  BY DEF RegistryChange, TInv, TypeOK
<1>2. QED
  BY <1>1
  DEF RegistryChange, TInv, TypeOK, unitVars, startVars, historyVars

\* The interval handler keeps the types.
LEMMA TypeRefresh == TInv /\ Refresh => TInv'
<1> SUFFICES ASSUME TInv, Refresh PROVE TInv'
  OBVIOUS
<1> DEFINE m == [i \in Inputs |-> IF coreRunning THEN Gone(i)
                                 ELSE missing[i]]
           n == [i \in Inputs |-> IF coreRunning THEN ~Gone(i) /\ Stale(i)
                                  ELSE noData[i]]
<1>1. m \in [Inputs -> BOOLEAN] /\ n \in [Inputs -> BOOLEAN]
  BY DEF TInv, TypeOK, Gone, Stale
<1>2. Attempt(Inputs, TRUE, source, delivery, m, n)
  BY DEF Refresh
<1> HIDE DEF m, n
<1>3. AttemptType
  BY <1>1, <1>2, AttemptTypes DEF TInv, TypeOK
<1>4. reading' \in [Inputs -> Readings]
  BY ForcedReadingType DEF Refresh
<1>5. refreshIn' \in {Off} \union 0 .. RewriteInterval /\ checked' \in BOOLEAN
  BY DurationAssumption DEF Refresh, TInv, TypeOK
<1>6. UNCHANGED <<source, registered, coreRunning, problem, reachable, unit,
                  unitAge, phase, todo, awaited, waited, written, steady>>
  BY DEF Refresh, haVars, unitVars, startVars
<1>7. QED
  BY <1>3, <1>4, <1>5, <1>6 DEF TInv, TypeOK, AttemptType

\* A retry keeps the types.
LEMMA TypeRetry ==
  ASSUME TInv, NEW i \in Inputs, Retry(i) PROVE TInv'
<1> DEFINE d == [delivery EXCEPT ![i] = Delivery!RetryFired(@)]
<1>1. \A j \in Inputs : DP!DeliveryInv(d[j])
  BY DeliveryOps DEF TInv, TypeOK
<1>2. d \in [Inputs -> Delivery!DeliveryState]
  BY <1>1, DeliveryOps DEF TInv, TypeOK
<1>3. Attempt({i}, TRUE, source, d, missing, noData)
  BY DEF Retry
<1> HIDE DEF d
<1>4. AttemptType
  BY <1>1, <1>2, <1>3, AttemptTypes DEF TInv, TypeOK
<1>5. reading' \in [Inputs -> Readings]
  BY ForcedReadingType DEF Retry
<1>6. UNCHANGED <<source, registered, coreRunning, problem, reachable, unit,
                  unitAge, phase, todo, awaited, refreshIn, waited, written,
                  steady, checked>>
  BY DEF Retry, haVars, unitVars, startVars
<1>7. QED
  BY <1>4, <1>5, <1>6 DEF TInv, TypeOK, AttemptType

\* A log timer keeps the types.
LEMMA TypeFlush ==
  ASSUME TInv, NEW i \in Inputs, Flush(i) PROVE TInv'
<1>1. \A j \in Inputs : LP!LogInv(log'[j])
  BY LogOps DEF Flush, TInv, TypeOK
<1>2. log' \in [Inputs -> Log!LogState]
  BY <1>1, LogOps DEF Flush, TInv, TypeOK
<1>3. QED
  BY <1>1, <1>2 DEF Flush, TInv, TypeOK, haVars, unitVars, startVars,
                    sourceVars, historyVars

\* The value of a request that is served is one that can be sent.
LEMMA ServedType ==
  ASSUME TInv, NEW i \in Inputs, Served(i)
  PROVE  /\ Head(inflight[i]) \in Values
         /\ inflight' \in [Inputs -> Seq(Values)]
         /\ waited' \in [Inputs -> 0 .. RequestTimeout]
         /\ awaited' \in Inputs \union {NoInput}
         /\ UNCHANGED <<source, registered, coreRunning, problem, reachable,
                        phase, todo, refreshIn, skipped, usableAge, missing,
                        noData, reading, checked>>
<1>1. inflight[i] \in Seq(Values) /\ inflight[i] # <<>>
  BY DEF Served, TInv, TypeOK
<1>2. Head(inflight[i]) \in Values /\ Tail(inflight[i]) \in Seq(Values)
  BY <1>1
<1>3. inflight' \in [Inputs -> Seq(Values)]
  BY <1>2 DEF Served, TInv, TypeOK
<1>4. /\ waited' \in [Inputs -> 0 .. RequestTimeout]
      /\ awaited' \in Inputs \union {NoInput}
  BY DurationAssumption DEF Served, TInv, TypeOK
<1>5. QED
  BY <1>2, <1>3, <1>4 DEF Served, haVars, sourceVars

\* What the unit receives is a value.
LEMMA ReceivedType ==
  ASSUME TInv, NEW i \in Inputs, NEW v \in Values, Received(i, v)
  PROVE  /\ unit' \in [Inputs -> Values \union {NoValue}]
         /\ unitAge' \in [Inputs -> 0 .. ValueValid]
  BY DurationAssumption DEF Received, TInv, TypeOK

\* A successful write keeps the types.
LEMMA TypeWriteSucceeds ==
  ASSUME TInv, NEW i \in Inputs, WriteSucceeds(i) PROVE TInv'
<1> DEFINE v == Head(inflight[i])
<1>1. Served(i) /\ Received(i, v) /\ v \in Values
  BY ServedType DEF WriteSucceeds
<1>2. \A j \in Inputs : LP!LogInv(log'[j]) /\ DP!DeliveryInv(delivery'[j])
  BY <1>1, LogOps, DeliveryOps DEF WriteSucceeds, TInv, TypeOK
<1>3. /\ log' \in [Inputs -> Log!LogState]
      /\ delivery' \in [Inputs -> Delivery!DeliveryState]
  BY <1>2, LogOps, DeliveryOps DEF WriteSucceeds, TInv, TypeOK
<1>4. /\ written' \in [Inputs -> Values \union {NoValue}]
      /\ steady' \in [Inputs -> BOOLEAN]
  BY <1>1 DEF WriteSucceeds, TInv, TypeOK, Usable
<1>5. QED
  BY <1>1, <1>2, <1>3, <1>4, ServedType, ReceivedType DEF TInv, TypeOK

\* A failed write keeps the types.
LEMMA TypeWriteFails ==
  ASSUME TInv, NEW i \in Inputs, WriteFails(i) PROVE TInv'
<1> DEFINE v == Head(inflight[i])
<1>1. Served(i) /\ v \in Values
  BY ServedType DEF WriteFails
<1>2. \A j \in Inputs : DP!DeliveryInv(delivery'[j])
  BY DeliveryOps DEF WriteFails, TInv, TypeOK
<1>3. delivery' \in [Inputs -> Delivery!DeliveryState]
  BY <1>2, DeliveryOps DEF WriteFails, TInv, TypeOK
<1>4. UNCHANGED <<written, log, steady>>
  BY DEF WriteFails
<1>5. /\ unit' \in [Inputs -> Values \union {NoValue}]
      /\ unitAge' \in [Inputs -> 0 .. ValueValid]
  BY <1>1, ReceivedType DEF WriteFails, unitVars, TInv, TypeOK
<1>6. QED
  BY <1>1, <1>2, <1>3, <1>4, <1>5, ServedType DEF TInv, TypeOK

\* The environment keeps the types.
LEMMA TypeEnvironment ==
  TInv /\ (CoreStarted \/ PollResult \/ ConnectionChange) => TInv'
  BY DEF CoreStarted, PollResult, ConnectionChange, unchangedFeeder, TInv,
         TypeOK, unitVars, startVars, sourceVars, historyVars

\* Time keeps the types: no timer goes below zero, no age above its bound.
LEMMA TypeTick == TInv /\ Tick => TInv'
<1> SUFFICES ASSUME TInv, Tick PROVE TInv'
  OBVIOUS
<1>1. refreshIn' \in {Off} \union 0 .. RewriteInterval
  BY DurationAssumption DEF Tick, TInv, TypeOK, Off
<1>2. waited' \in [Inputs -> 0 .. RequestTimeout]
  BY DurationAssumption DEF Tick, TInv, TypeOK
<1>3. /\ unitAge' \in [Inputs -> 0 .. ValueValid]
      /\ usableAge' \in [Inputs -> 0 .. UsableAgeLimit]
  BY DurationAssumption DEF Tick, TInv, TypeOK, Older, UsableAgeLimit
<1>4. \A j \in Inputs : LP!LogInv(log'[j]) /\ DP!DeliveryInv(delivery'[j])
  BY LogOps, DeliveryOps DEF Tick, TInv, TypeOK
<1>5. /\ log' \in [Inputs -> Log!LogState]
      /\ delivery' \in [Inputs -> Delivery!DeliveryState]
  BY <1>4, LogOps, DeliveryOps DEF Tick
<1>6. UNCHANGED <<source, registered, coreRunning, problem, reachable, unit,
                  phase, todo, awaited, inflight, written, skipped, missing,
                  noData, reading, steady, checked>>
  BY DEF Tick, haVars, startVars, historyVars
<1>7. QED
  BY <1>1, <1>2, <1>3, <1>4, <1>5, <1>6 DEF TInv, TypeOK

\* Every step keeps the types.
LEMMA TypeStep == TInv /\ [Next]_vars => TInv'
<1> SUFFICES ASSUME TInv, [Next]_vars PROVE TInv'
  OBVIOUS
<1>1. CASE UNCHANGED vars
  BY <1>1 DEF TInv, TypeOK, vars, haVars, unitVars, startVars, sourceVars,
              historyVars
<1>2. CASE Next
  BY <1>2, TypeStart, TypeStartNext, TypeListen, TypeStop, TypeSourceReport,
     TypeRegistryChange, TypeRefresh, TypeRetry, TypeFlush, TypeWriteSucceeds,
     TypeWriteFails, TypeEnvironment, TypeTick DEF Next
<1>3. QED
  BY <1>1, <1>2

(***************************************************************************)
(* The feeder's variables have their types in every reachable state: no    *)
(* timer of bus_feed.py is ever armed for longer than its interval or      *)
(* below zero, and every request carries a value that can be sent.         *)
(***************************************************************************)
THEOREM FeederTypeCorrect == Spec => []TypeOK
<1>1. TInv => TypeOK
  BY DEF TInv
<1>2. QED
  BY <1>1, TypeInit, TypeStep, PTL DEF Spec
=============================================================================
