------------------------------- MODULE BusFeed -------------------------------
(***************************************************************************)
(* The bus feeder: class BusFeeder of bus_feed.py with its BusLog and      *)
(* BusDelivery objects, the source entities and entity registry of Home    *)
(* Assistant, the Modbus connection and the bus inputs of the unit.        *)
(*                                                                         *)
(* The feeder runs in an event loop: a handler runs to its next await in   *)
(* one step.  The only await is the request to the unit (hub.write), so a  *)
(* write is two steps: Attempt, which reads the source and decides, and    *)
(* WriteDone, which serves the request and handles its outcome.  Anything  *)
(* else may happen between the two.                                        *)
(*                                                                         *)
(* The requests of an input are served in the order they were made (they   *)
(* share one connection); those of different inputs in any order.  Time is *)
(* counted in ticks and does not pass a timer that is due.                 *)
(***************************************************************************)
EXTENDS Integers, Sequences

CONSTANTS
  Inputs,           \* the bus inputs with a source (BUS_FEEDS in use)
  NoInput,
  Values,           \* source values that can be sent, as raw words
  NoValue,
  NoState,          \* the source has no state object
  Invalid,          \* "", "unknown" or "unavailable" (_INVALID)
  Unsuitable        \* no number, wrong unit or out of range (source_raw)

CONSTANTS           \* durations in ticks, named as in const.py
  RewriteInterval, RetryInterval, ValueValid,
  NoDataAfter,      \* SOURCE_NO_DATA_AFTER
  RequestTimeout    \* the longest a request takes

CONSTANTS           \* bounds, and what the environment does in a run
  MaxInFlight,      \* requests of an input in flight
  AgeLimit,         \* bound of the age of the last success
  SourceStates,     \* the states sources take
  Removable,        \* inputs whose source may leave the entity registry
  Faults,           \* what goes wrong with writes
  Reloads           \* the entry may be unloaded and set up again

FaultKinds == {"lost", "unanswered", "identity"}

ASSUME InputsAssumption == NoInput \notin Inputs
ASSUME SourceAssumption ==
  /\ SourceStates \subseteq Values \union {NoState, Invalid, Unsuitable}
  /\ Values \intersect {NoValue, NoState, Invalid, Unsuitable} = {}
  /\ Unsuitable \notin {NoState, Invalid}
ASSUME DurationAssumption ==
  /\ RewriteInterval \in Nat \ {0}
  /\ RetryInterval \in Nat \ {0}
  /\ ValueValid \in Nat \ {0}
  /\ NoDataAfter \in Nat
  /\ RequestTimeout \in Nat
  /\ MaxInFlight \in Nat \ {0}
  /\ AgeLimit \in Nat /\ AgeLimit >= ValueValid
ASSUME EnvironmentAssumption ==
  /\ Removable \subseteq Inputs
  /\ Faults \subseteq FaultKinds
  /\ Reloads \in BOOLEAN

VARIABLES           \* Home Assistant, the connection and the unit
  source,           \* source[i]: the state of the source of input i
  registered,       \* registered[i]: the source is in the entity registry
  coreRunning,      \* Home Assistant has started (CoreState.running)
  problem,          \* the last poll found no Maico KWL (identity_problem)
  reachable,        \* the connection delivers requests and answers
  unit,             \* unit[i]: the value the unit received last
  unitAge           \* unitAge[i]: how long ago, up to ValueValid

VARIABLES           \* the feeder
  phase,            \* "starting" (async_start), "running" or "stopped"
  todo,             \* inputs async_start has not written yet
  awaited,          \* the input whose write async_start awaits
  refreshIn,        \* the interval timer
  inflight,         \* inflight[i]: the values of the requests not served
  waited,           \* waited[i]: how long the first of them has taken
  written,          \* _written, and the value of _sent
  skipped,          \* the keys of _skipped
  usableAge,        \* now - _usable_at, or since _started_at
  missing, noData,  \* the issues of a source exist
  log, delivery     \* see BusLog and BusDelivery

VARIABLES           \* history: what happened to the source of an input
  reading,          \* how the feeder last read the source, see Readings
  steady,           \* usable ever since the last success or the start
  checked           \* the last refresh checked the sources

haVars == <<source, registered, coreRunning, problem, reachable>>
unitVars == <<unit, unitAge>>
startVars == <<phase, todo, awaited>>
sourceVars == <<skipped, usableAge, missing, noData>>
historyVars == <<reading, steady, checked>>
vars == <<haVars, unitVars, startVars, refreshIn, inflight, waited, written,
          sourceVars, log, delivery, historyVars>>

Log == INSTANCE BusLog WITH open <- (phase # "stopped")
Delivery == INSTANCE BusDelivery WITH open <- (phase # "stopped")

-----------------------------------------------------------------------------
Off == -1
UsableAgeLimit == NoDataAfter + RewriteInterval + 1

\* The present state of the source was not read by the feeder, was read, or
\* was read by a forced write (start, refresh, retry) that was not held back.
Readings == {"unread", "heard", "forced"}

TypeOK ==
  /\ source \in [Inputs -> SourceStates]
  /\ registered \in [Inputs -> BOOLEAN]
  /\ coreRunning \in BOOLEAN
  /\ problem \in BOOLEAN
  /\ reachable \in BOOLEAN
  /\ unit \in [Inputs -> Values \union {NoValue}]
  /\ unitAge \in [Inputs -> 0 .. ValueValid]
  /\ phase \in {"starting", "running", "stopped"}
  /\ todo \in SUBSET Inputs
  /\ awaited \in Inputs \union {NoInput}
  /\ refreshIn \in {Off} \union 0 .. RewriteInterval
  /\ inflight \in [Inputs -> Seq(Values)]
  /\ waited \in [Inputs -> 0 .. RequestTimeout]
  /\ written \in [Inputs -> Values \union {NoValue}]
  /\ skipped \in [Inputs -> BOOLEAN]
  /\ usableAge \in [Inputs -> 0 .. UsableAgeLimit]
  /\ missing \in [Inputs -> BOOLEAN]
  /\ noData \in [Inputs -> BOOLEAN]
  /\ log \in [Inputs -> Log!LogState]
  /\ delivery \in [Inputs -> Delivery!DeliveryState]
  /\ reading \in [Inputs -> Readings]
  /\ steady \in [Inputs -> BOOLEAN]
  /\ checked \in BOOLEAN

Init ==
  /\ source \in [Inputs -> SourceStates]
  /\ registered = [i \in Inputs |-> TRUE]
  /\ coreRunning = FALSE
  /\ problem = FALSE
  /\ reachable = TRUE
  /\ unit = [i \in Inputs |-> NoValue]
  /\ unitAge = [i \in Inputs |-> ValueValid]
  /\ phase = "stopped"
  /\ todo = {}
  /\ awaited = NoInput
  /\ refreshIn = Off
  /\ inflight = [i \in Inputs |-> <<>>]
  /\ waited = [i \in Inputs |-> 0]
  /\ written = [i \in Inputs |-> NoValue]
  /\ skipped = [i \in Inputs |-> FALSE]
  /\ usableAge = [i \in Inputs |-> 0]
  /\ missing = [i \in Inputs |-> FALSE]
  /\ noData = [i \in Inputs |-> FALSE]
  /\ log = [i \in Inputs |-> Log!NewLog]
  /\ delivery = [i \in Inputs |-> Delivery!NewDelivery]
  /\ reading = [i \in Inputs |-> "unread"]
  /\ steady = [i \in Inputs |-> FALSE]
  /\ checked = FALSE

-----------------------------------------------------------------------------
Usable(s) == s \in Values

\* Mutant of Wanted: force is ignored.
WantedIgnoresForce(i, s, force) == Usable(s) /\ written[i] # s

\* Mutant of Wanted: nothing is sent while a request is in flight.
WantedWhenIdle(i, s, force) ==
  Usable(s) /\ inflight[i] = <<>> /\ (force \/ written[i] # s)

\* A value that is not forced is only sent when it differs from the last one
\* that was written.
Wanted(i, s, force) == Usable(s) /\ (force \/ written[i] # s)

\* Mutant of Cleared: the issues are left as they are.
ClearedNever(issues, S) == issues

\* The issues of the inputs S are removed.
Cleared(issues, S) == [i \in Inputs |-> issues[i] /\ i \notin S]

\* _async_write up to its await, for the inputs S in one handler: the source
\* states are src, and d, m and n are the deliveries and the two source issues
\* as the handler has left them so far.
Attempt(S, force, src, d, m, n) ==
  LET usable == {i \in S : Usable(src[i])}
      skips  == {i \in S : src[i] = Unsuitable}
      wanted == {i \in S : Wanted(i, src[i], force)}
      sends  == IF problem THEN {} ELSE wanted
  IN  /\ skipped' = [i \in Inputs |->
                       i \notin usable /\ (skipped[i] \/ i \in skips)]
      /\ usableAge' = [i \in Inputs |->
                         IF i \in usable THEN 0 ELSE usableAge[i]]
      /\ missing' = Cleared(m, usable)
      /\ noData' = Cleared(n, usable)
      /\ log' = [i \in Inputs |-> IF i \in skips /\ ~skipped[i]
                                  THEN Log!Forget(log[i]) ELSE log[i]]
      /\ delivery' = [i \in Inputs |-> IF i \in wanted \ sends
                                       THEN Delivery!Failed(d[i]) ELSE d[i]]
      /\ inflight' = [i \in Inputs |-> IF i \in sends
                                       THEN Append(inflight[i], src[i])
                                       ELSE inflight[i]]

\* Bound: the queues have room for one more request of each input.
Room(S) == \A i \in S : Len(inflight[i]) < MaxInFlight

ForcedReading(S) ==
  reading' = [i \in Inputs |->
                IF i \in S /\ ~problem THEN "forced"
                ELSE IF i \in S /\ reading[i] = "unread" THEN "heard"
                ELSE reading[i]]

-----------------------------------------------------------------------------
(* async_start and async_stop *)

\* The entry is set up: a new feeder with nothing carried over.  After a
\* restart Home Assistant is not running yet.
Start ==
  /\ phase = "stopped"
  /\ phase' = "starting"
  /\ todo' = Inputs
  /\ awaited' = NoInput
  /\ written' = [i \in Inputs |-> NoValue]
  /\ skipped' = [i \in Inputs |-> FALSE]
  /\ usableAge' = [i \in Inputs |-> 0]
  /\ log' = [i \in Inputs |-> Log!NewLog]
  /\ delivery' = [i \in Inputs |-> Delivery!NewDelivery]
  /\ coreRunning' \in {coreRunning, FALSE}
  /\ reading' = [i \in Inputs |-> "unread"]
  /\ steady' = [i \in Inputs |-> Usable(source[i])]
  /\ checked' = FALSE
  /\ UNCHANGED <<source, registered, problem, reachable, unitVars, refreshIn,
                 inflight, waited, missing, noData>>

\* async_start writes the inputs one after another and awaits each write.
StartNext(i) ==
  /\ phase = "starting" /\ awaited = NoInput /\ i \in todo
  /\ Room({i})
  /\ todo' = todo \ {i}
  /\ Attempt({i}, TRUE, source, delivery, missing, noData)
  /\ awaited' = IF inflight'[i] = inflight[i] THEN NoInput ELSE i
  /\ ForcedReading({i})
  /\ UNCHANGED <<haVars, unitVars, phase, refreshIn, waited, written, steady,
                 checked>>

\* Mutant of Listen: the interval is not started.
ListenOnly ==
  /\ phase = "starting" /\ awaited = NoInput /\ todo = {}
  /\ phase' = "running"
  /\ UNCHANGED <<haVars, unitVars, todo, awaited, refreshIn, inflight, waited,
                 written, sourceVars, log, delivery, historyVars>>

\* The last write is done: the listeners and the interval start.
Listen ==
  /\ phase = "starting" /\ awaited = NoInput /\ todo = {}
  /\ phase' = "running"
  /\ refreshIn' = RewriteInterval
  /\ UNCHANGED <<haVars, unitVars, todo, awaited, inflight, waited, written,
                 sourceVars, log, delivery, historyVars>>

\* The entry is unloaded, or its setup fails or is cancelled.  The tasks are
\* cancelled; a request that is on its way may still reach the unit.
Stop ==
  /\ Reloads
  /\ phase # "stopped"
  /\ phase' = "stopped"
  /\ todo' = {}
  /\ awaited' = NoInput
  /\ refreshIn' = Off
  /\ \E late \in SUBSET {i \in Inputs : inflight[i] # <<>>} :
       /\ unit' = [i \in Inputs |->
                     IF i \in late THEN Head(inflight[i]) ELSE unit[i]]
       /\ unitAge' = [i \in Inputs |-> IF i \in late THEN 0 ELSE unitAge[i]]
  /\ inflight' = [i \in Inputs |-> <<>>]
  /\ waited' = [i \in Inputs |-> 0]
  /\ missing' = [i \in Inputs |-> FALSE]
  /\ noData' = [i \in Inputs |-> FALSE]
  /\ delivery' = [i \in Inputs |-> Delivery!StopDelivery(delivery[i])]
  /\ log' = [i \in Inputs |-> Log!StopLog(log[i])]
  /\ UNCHANGED <<haVars, written, skipped, usableAge, historyVars>>

-----------------------------------------------------------------------------
(* The handlers *)

\* The state or an attribute of a source changes.  _handle_state_event runs at
\* once, but only the running feeder listens.
Heard(i, s) == IF s = source[i] /\ reading[i] = "forced" THEN "forced"
               ELSE "heard"

SourceReport(i, s) ==
  /\ source' = [source EXCEPT ![i] = s]
  /\ steady' = [steady EXCEPT ![i] = @ /\ Usable(s)]
  /\ \/ /\ phase = "running"
        /\ Room({i})
        /\ Attempt({i}, FALSE, source', delivery, missing, noData)
        /\ reading' = [reading EXCEPT ![i] = Heard(i, s)]
     \/ /\ phase # "running"
        /\ reading' = [reading EXCEPT ![i] =
                         IF s = source[i] THEN @ ELSE "unread"]
        /\ UNCHANGED <<sourceVars, log, delivery, inflight>>
  /\ UNCHANGED <<registered, coreRunning, problem, reachable, unitVars,
                 startVars, refreshIn, waited, written, checked>>

\* The source leaves the entity registry (_handle_registry_event) or is back.
RegistryChange(i) ==
  /\ i \in Removable
  /\ registered' = [registered EXCEPT ![i] = ~@]
  /\ missing' = [missing EXCEPT ![i] =
                   @ \/ (registered[i] /\ phase = "running")]
  /\ UNCHANGED <<source, coreRunning, problem, reachable, unitVars, startVars,
                 refreshIn, inflight, waited, written, skipped, usableAge,
                 noData, log, delivery, historyVars>>

\* _check_sources, once Home Assistant is running.
Gone(i) == source[i] = NoState /\ ~registered[i]

\* Mutant of Stale: another interval has to pass first.
StaleLate(i) == usableAge[i] > NoDataAfter + RewriteInterval

Stale(i) == usableAge[i] > NoDataAfter

\* _handle_interval: the sources are checked, then every input is written.
Refresh ==
  /\ refreshIn = 0
  /\ Room(Inputs)
  /\ refreshIn' = RewriteInterval
  /\ Attempt(Inputs, TRUE, source, delivery,
       [i \in Inputs |-> IF coreRunning THEN Gone(i) ELSE missing[i]],
       [i \in Inputs |-> IF coreRunning THEN ~Gone(i) /\ Stale(i)
                         ELSE noData[i]])
  /\ ForcedReading(Inputs)
  /\ checked' = coreRunning
  /\ UNCHANGED <<haVars, unitVars, startVars, waited, written, steady>>

\* Mutant of Retry: the timers of all inputs are taken for the one that fired.
RetryFiresAll(i) ==
  /\ Delivery!Due(delivery[i])
  /\ Room({i})
  /\ Attempt({i}, TRUE, source,
       [j \in Inputs |-> Delivery!RetryFired(delivery[j])], missing, noData)
  /\ ForcedReading({i})
  /\ UNCHANGED <<haVars, unitVars, startVars, refreshIn, waited, written,
                 steady, checked>>

\* BusDelivery._handle_retry: the retry callback is a forced write.
Retry(i) ==
  /\ Delivery!Due(delivery[i])
  /\ Room({i})
  /\ Attempt({i}, TRUE, source,
       [delivery EXCEPT ![i] = Delivery!RetryFired(@)], missing, noData)
  /\ ForcedReading({i})
  /\ UNCHANGED <<haVars, unitVars, startVars, refreshIn, waited, written,
                 steady, checked>>

\* Mutant of Flush: the values of all inputs are flushed by one timer.
FlushAll(i) ==
  /\ Log!Due(log[i])
  /\ log' = [j \in Inputs |-> Log!Flush(log[j])]
  /\ UNCHANGED <<haVars, unitVars, startVars, refreshIn, inflight, waited,
                 written, sourceVars, delivery, historyVars>>

\* BusLog._flush.
Flush(i) ==
  /\ Log!Due(log[i])
  /\ log' = [log EXCEPT ![i] = Log!Flush(@)]
  /\ UNCHANGED <<haVars, unitVars, startVars, refreshIn, inflight, waited,
                 written, sourceVars, delivery, historyVars>>

-----------------------------------------------------------------------------
(* The second half of _async_write: the request is answered *)

Served(i) ==
  /\ inflight[i] # <<>>
  /\ inflight' = [inflight EXCEPT ![i] = Tail(@)]
  /\ waited' = [waited EXCEPT ![i] = 0]
  /\ awaited' = IF awaited = i THEN NoInput ELSE awaited
  /\ UNCHANGED <<haVars, phase, todo, refreshIn, sourceVars, reading, checked>>

Received(i, v) == /\ unit' = [unit EXCEPT ![i] = v]
                  /\ unitAge' = [unitAge EXCEPT ![i] = 0]

WriteSucceeds(i) ==
  LET v == Head(inflight[i])
  IN  /\ Served(i)
      /\ reachable
      /\ Received(i, v)
      /\ written' = [written EXCEPT ![i] = v]
      /\ log' = [log EXCEPT ![i] = Log!Sent(@, v)]
      /\ delivery' = [delivery EXCEPT ![i] = Delivery!Succeeded(@)]
      /\ steady' = [steady EXCEPT ![i] = Usable(source[i])]

\* Mutant of WriteFails: the error is swallowed, the write counts as done.
WriteFailsUnnoticed(i) ==
  /\ Served(i)
  /\ ~reachable
  /\ \/ "lost" \in Faults /\ UNCHANGED unitVars
     \/ "unanswered" \in Faults /\ Received(i, Head(inflight[i]))
  /\ written' = [written EXCEPT ![i] = Head(inflight[i])]
  /\ log' = [log EXCEPT ![i] = Log!Sent(@, Head(inflight[i]))]
  /\ delivery' = [delivery EXCEPT ![i] = Delivery!Succeeded(@)]
  /\ steady' = [steady EXCEPT ![i] = Usable(source[i])]

\* No answer: the request was lost, or the unit received it all the same.
WriteFails(i) ==
  /\ Served(i)
  /\ ~reachable
  /\ \/ "lost" \in Faults /\ UNCHANGED unitVars
     \/ "unanswered" \in Faults /\ Received(i, Head(inflight[i]))
  /\ delivery' = [delivery EXCEPT ![i] = Delivery!Failed(@)]
  /\ UNCHANGED <<written, log, steady>>

-----------------------------------------------------------------------------
(* The environment *)

unchangedFeeder ==
  UNCHANGED <<source, registered, unitVars, startVars, refreshIn, inflight,
              waited, written, sourceVars, log, delivery, historyVars>>

\* EVENT_HOMEASSISTANT_STARTED.
CoreStarted == /\ ~coreRunning
               /\ coreRunning' = TRUE
               /\ unchangedFeeder /\ UNCHANGED <<problem, reachable>>

\* A poll reads the registers that identify a Maico KWL (coordinator.py).
PollResult == /\ "identity" \in Faults
              /\ problem' = ~problem
              /\ unchangedFeeder /\ UNCHANGED <<coreRunning, reachable>>

ConnectionChange == /\ Faults \intersect {"lost", "unanswered"} # {}
                    /\ reachable' = ~reachable
                    /\ unchangedFeeder /\ UNCHANGED <<coreRunning, problem>>

Older(age, limit) == IF age < limit THEN age + 1 ELSE age

\* One tick passes: no timer is due, no request is overdue and async_start is
\* not about to continue.
Tick ==
  /\ refreshIn # 0
  /\ \A i \in Inputs : ~Delivery!Due(delivery[i]) /\ ~Log!Due(log[i])
  /\ \A i \in Inputs : inflight[i] = <<>> \/ waited[i] < RequestTimeout
  /\ phase = "starting" => awaited # NoInput
  /\ refreshIn' = IF refreshIn = Off THEN Off ELSE refreshIn - 1
  /\ waited' = [i \in Inputs |->
                  IF inflight[i] = <<>> THEN 0 ELSE waited[i] + 1]
  /\ unitAge' = [i \in Inputs |-> Older(unitAge[i], ValueValid)]
  /\ usableAge' = [i \in Inputs |-> Older(usableAge[i], UsableAgeLimit)]
  /\ log' = [i \in Inputs |-> Log!Older(log[i])]
  /\ delivery' = [i \in Inputs |-> Delivery!Older(delivery[i])]
  /\ UNCHANGED <<haVars, unit, startVars, inflight, written, skipped, missing,
                 noData, historyVars>>

Next ==
  \/ Start \/ Listen \/ Stop \/ Refresh
  \/ \E i \in Inputs :
       \/ StartNext(i) \/ Retry(i) \/ Flush(i) \/ RegistryChange(i)
       \/ WriteSucceeds(i) \/ WriteFails(i)
       \/ \E s \in SourceStates : SourceReport(i, s)
  \/ CoreStarted \/ PollResult \/ ConnectionChange
  \/ Tick

Spec == Init /\ [][Next]_vars

\* The event loop runs what is ready, requests end, and time goes on however
\* often sources report within a tick.
Fairness ==
  /\ SF_vars(Tick)
  /\ WF_vars(Start) /\ WF_vars(Listen) /\ WF_vars(Refresh)
  /\ \A i \in Inputs :
       /\ WF_vars(StartNext(i)) /\ WF_vars(Retry(i)) /\ WF_vars(Flush(i))
       /\ WF_vars(WriteSucceeds(i) \/ WriteFails(i))

FairSpec == Spec /\ Fairness

-----------------------------------------------------------------------------
(***************************************************************************)
(* What the feeder takes for the last value of the unit (_written, shown   *)
(* by the "sent" sensor) is not older than it thinks, and unless a write   *)
(* failed since, it is what the unit holds.  _async_write relies on it     *)
(* when it does not send a value again.                                    *)
(***************************************************************************)
SentValueIsHonest ==
  \A i \in Inputs :
    phase # "stopped" /\ written[i] # NoValue =>
      /\ unitAge[i] <= delivery[i].age
      /\ delivery[i].failing \/ unit[i] = written[i]

(***************************************************************************)
(* After a failed write the feeder keeps trying as long as the source      *)
(* gives a usable value: a retry is armed or a request is under way.       *)
(***************************************************************************)
SteadySourceIsRetried ==
  \A i \in Inputs :
    phase # "stopped" /\ steady[i] /\ delivery[i].failing =>
      delivery[i].retryIn # Off \/ inflight[i] # <<>>

(***************************************************************************)
(* "Re-written periodically so it stays valid": while the source stays     *)
(* usable, the unit loses its value only when writes fail.                 *)
(***************************************************************************)
SteadySourceStaysValid ==
  \A i \in Inputs :
    phase = "running" /\ steady[i] /\ unitAge[i] = ValueValid =>
      delivery[i].failing

(***************************************************************************)
(* A missed change is made up for: once a forced write (start, refresh or  *)
(* retry) has read the present state of the source, was not held back by   *)
(* the identity check, and nothing is in flight or failing, the unit holds *)
(* that value.                                                             *)
(***************************************************************************)
ForcedWriteSettles ==
  \A i \in Inputs :
    /\ phase # "stopped" /\ reading[i] = "forced" /\ Usable(source[i])
    /\ inflight[i] = <<>> /\ ~delivery[i].failing
    => unit[i] = source[i]

(***************************************************************************)
(* An outage is reported in time: with a usable source, the issue "not     *)
(* delivered" exists once the last success is ValueValid old and one more  *)
(* retry had time to fail.                                                 *)
(***************************************************************************)
OutageIsReported ==
  \A i \in Inputs :
    /\ phase = "running" /\ steady[i]
    /\ delivery[i].age >= ValueValid + RetryInterval + RequestTimeout
    => delivery[i].issue

(***************************************************************************)
(* The issue "no data" is about a source that gives nothing now: any state *)
(* that can be sent has removed it, and a check never raises it for one.   *)
(***************************************************************************)
NoDataMeansUnusable == \A i \in Inputs : noData[i] => ~Usable(source[i])

(***************************************************************************)
(* A source that gives nothing for NoDataAfter has an issue from the next  *)
(* check on, whatever it reports and however the registry changes.         *)
(***************************************************************************)
LongGapIsReported ==
  \A i \in Inputs :
    /\ phase = "running" /\ checked
    /\ usableAge[i] > NoDataAfter + (RewriteInterval - refreshIn)
    => noData[i] \/ missing[i]

(***************************************************************************)
(* A stopped feeder does nothing any more: no timer, no request and no     *)
(* issue outlives async_stop, whenever it comes.                           *)
(***************************************************************************)
StoppedIsQuiet ==
  phase = "stopped" =>
    /\ refreshIn = Off
    /\ \A i \in Inputs :
         /\ inflight[i] = <<>>
         /\ delivery[i].retryIn = Off /\ log[i].timer = Off
         /\ ~missing[i] /\ ~noData[i] /\ ~delivery[i].issue

\* The feeder uses its logs and deliveries as their specifications expect.
LogSpec == Log!Spec
DeliverySpec == Delivery!Spec

(***************************************************************************)
(* When Home Assistant, the connection and the source settle, the unit     *)
(* ends up with the value of the source and keeps it.                      *)
(***************************************************************************)
Calm == reachable /\ ~problem /\ phase = "running"

UnitFollowsSource ==
  \A i \in Inputs, v \in Values :
    <>[](Calm /\ source[i] = v)
      => <>[](unit[i] = v /\ unitAge[i] < ValueValid)
=============================================================================
