-------------------------------- MODULE Fan --------------------------------
(***************************************************************************)
(* The fan of the unit and its boost: class MaicoFan of fan.py with the    *)
(* writes of entity.py, the polls it follows and the unit.                 *)
(*                                                                         *)
(* A service call of the fan runs to the write it awaits in one step, and  *)
(* goes on when the write is served.  Calls of one entity are served one   *)
(* at a time (PARALLEL_UPDATES = 1).  The boost switch, the mode select    *)
(* and the timer of a boost write beside them, all over one connection     *)
(* that serves requests in their order.  What the fan knows of the unit is *)
(* the last poll, which may have read before any of this.                  *)
(*                                                                         *)
(* A reload removes the fan (async_unload_platforms), then closes its hub  *)
(* and sets a new one up.  Calls of the removed fan go on, and may set a   *)
(* timer; until the hub is closed they also send.                          *)
(*                                                                         *)
(* The level itself is not kept: no decision depends on it.                *)
(***************************************************************************)
EXTENDS Integers, Sequences

CONSTANTS
  Modes,            \* operating modes (550) of the instance
  Durations,        \* durations of boost calls; 0: none is given
  UnitMinutes,      \* the unit ends a boost after this time (153)
  Idle,             \* no poll is in progress
  Faults,           \* what goes wrong with writes
  Topics,           \* bound: which of "boost" and "speed" are used together
  QueueLimit        \* bound: requests that wait at the same time

LevelModes == {"manual", "auto_sensor"}     \* LEVEL_MODES
Presets == Modes \ {"off"}
FaultKinds == {"lost", "unanswered", "identity"}

ASSUME ModesAssumption == {"off", "manual"} \subseteq Modes /\ "none" \notin Modes
ASSUME BoundAssumption ==
  /\ Durations \subseteq Nat
  /\ UnitMinutes \in Nat
  /\ Faults \subseteq FaultKinds
  /\ Topics \subseteq SUBSET {"boost", "speed"}
  /\ QueueLimit \in Nat

VARIABLES           \* the unit
  mode, boost,      \* registers 550 and 551
  queue             \* requests to the unit, in the order they are served

VARIABLES           \* Home Assistant
  topic,            \* bound: what is used in this behaviour
  data,             \* the last successful poll
  pollOk,           \* last_update_success
  poll,             \* what the poll in progress has read
  calls,            \* the service call of each fan that awaits a write
  timer,            \* _end_boost of each fan: the time left
  seenOn,           \* _boost_seen_on
  lastMode,         \* _last_mode
  unloading         \* the fan is removed, its hub is still open

VARIABLES           \* history
  timed,            \* time left of a timed boost that nothing has ended
  told,             \* what the polls since its start showed of it
  speed             \* how the running speed call stands to the mode

unitVars == <<mode, boost>>
pollVars == <<data, pollOk, poll>>
fanVars == <<calls, timer, seenOn, lastMode>>
vars == <<unitVars, queue, topic, unloading, pollVars, fanVars, timed, told, speed>>

-----------------------------------------------------------------------------
Unset == -1
Fans == {"present", "removed"}      \* the fan, and that of an earlier setup
Switch == {"on", "off"}

NoCall == [kind |-> "none", minutes |-> 0]
\* "speed" awaits the mode and writes the level next; "level" and "mode" await
\* the last write of their call.
CallState == [kind : {"none", "boost", "speed", "level", "mode"},
              minutes : Durations \union {0}]

\* A register that cannot be read is missing from the data ("none").
Read(value, register) == {value} \union (IF register \in topic THEN {"none"} ELSE {})
Readings == [mode : Modes \union {"none"}, boost : Switch \union {"none"},
             later : BOOLEAN]   \* history: it read after the timer was set

\* A write of a service call, of the timer, which ends a boost, or of another
\* entity.
Request ==
  {q \in [fan : Fans, by : {"call", "timer", "other"},
          reg : {"mode", "boost", "level"},
          value : Modes \union Switch \union {"level"}] :
     /\ q.reg = "mode" => q.value \in Modes
     /\ q.reg = "boost" => q.value \in Switch
     /\ q.by = "timer" => q.reg = "boost" /\ q.value = "off"}
Asked(f, by, reg, value) == [fan |-> f, by |-> by, reg |-> reg, value |-> value]

TypeOK ==
  /\ mode \in Modes
  /\ boost \in Switch
  /\ queue \in Seq(Request)
  /\ topic \in Topics
  /\ data \in Readings
  /\ pollOk \in BOOLEAN
  /\ poll \in Readings \union {Idle}
  /\ calls \in [Fans -> CallState]
  /\ timer \in [Fans -> {Unset} \union Nat]
  /\ seenOn \in BOOLEAN
  /\ lastMode \in Presets
  /\ unloading \in BOOLEAN
  /\ timed \in {Unset} \union Nat
  /\ told \in {"nothing", "on", "ended"}
  /\ speed \in {"idle", "informed", "misled", "disturbed"}

-----------------------------------------------------------------------------
\* Mutant of Sent: a closed hub still sends.
SentWhenClosed(q, f, by, reg, value) == Append(q, Asked(f, by, reg, value))

\* MaicoModbusHub.write: the hub of a removed fan sends until it is closed.
Sent(q, f, by, reg, value) ==
  IF f = "present" \/ unloading THEN Append(q, Asked(f, by, reg, value)) ELSE q

\* The fan awaits a write on behalf of a service call.
Await(kind, minutes, reg, value) ==
  /\ calls' = [calls EXCEPT !.present = [kind |-> kind, minutes |-> minutes]]
  /\ queue' = Sent(queue, "present", "call", reg, value)

CanCall == ~unloading /\ calls.present = NoCall /\ Len(queue) < QueueLimit

\* async_boost up to its write.  The running timer is cancelled first, also if
\* the identity check then holds the write back.
Boost(minutes) ==
  /\ "boost" \in topic /\ CanCall
  /\ minutes <= UnitMinutes
  /\ timer' = [timer EXCEPT !.present = Unset]
  /\ timed' = Unset
  /\ \/ Await("boost", minutes, "boost", "on")
     \/ "identity" \in Faults /\ UNCHANGED <<queue, calls>>
  /\ UNCHANGED <<unitVars, topic, unloading, pollVars, seenOn, lastMode, told, speed>>

SpeedCall(kind, reg, value) ==
  /\ Await(kind, 0, reg, value)
  /\ speed' = IF data.mode \in {mode, "none"} THEN "informed" ELSE "misled"

\* Mutant of SetSpeed: a mode that is not known is left alone.
SetSpeedTrusting ==
  /\ "speed" \in topic /\ CanCall
  /\ \/ data.mode \in LevelModes \union {"none"} /\ SpeedCall("level", "level", "level")
     \/ data.mode \notin LevelModes \union {"none"} /\ SpeedCall("speed", "mode", "manual")
  /\ UNCHANGED <<unitVars, topic, unloading, pollVars, timer, seenOn, lastMode, timed, told>>

\* async_set_percentage above 0, up to its first write.
SetSpeed ==
  /\ "speed" \in topic /\ CanCall
  /\ \/ data.mode \in LevelModes /\ SpeedCall("level", "level", "level")
     \/ data.mode \notin LevelModes /\ SpeedCall("speed", "mode", "manual")
  /\ UNCHANGED <<unitVars, topic, unloading, pollVars, timer, seenOn, lastMode, timed, told>>

\* async_set_preset_mode, async_turn_off and a percentage of 0.
SetMode(m) ==
  /\ "speed" \in topic /\ CanCall
  /\ Await("mode", 0, "mode", m)
  /\ UNCHANGED <<unitVars, topic, unloading, pollVars, timer, seenOn, lastMode, timed,
                 told, speed>>

\* async_turn_on without arguments.
TurnOn == data.mode \in {"off", "none"} /\ SetMode(lastMode)

\* The boost switch and the mode select, one at a time each.  They may be
\* removed after the fan.
OtherWrite(reg, value) ==
  /\ Len(queue) < QueueLimit
  /\ \A n \in DOMAIN queue : queue[n].by # "other"
  /\ queue' = Sent(queue, IF unloading THEN "removed" ELSE "present", "other",
                   reg, value)
  /\ UNCHANGED <<unitVars, topic, unloading, pollVars, fanVars, timed, told, speed>>

OtherEntity ==
  \/ "boost" \in topic /\ \E v \in Switch : OtherWrite("boost", v)
  \/ "speed" \in topic /\ \E m \in Modes : OtherWrite("mode", m)

\* Mutant of TimeUp: the end is not written while another write is under way.
TimeUpGivesWay(f) ==
  /\ timer[f] = 0
  /\ Len(queue) < QueueLimit
  /\ timer' = [timer EXCEPT ![f] = Unset]
  /\ queue' = IF queue = <<>> THEN Sent(queue, f, "timer", "boost", "off")
              ELSE queue
  /\ UNCHANGED <<unitVars, topic, unloading, pollVars, calls, seenOn, lastMode, timed,
                 told, speed>>

\* _async_boost_time_up up to its write.
TimeUp(f) ==
  /\ timer[f] = 0
  /\ Len(queue) < QueueLimit
  /\ timer' = [timer EXCEPT ![f] = Unset]
  /\ \/ /\ queue' = Sent(queue, f, "timer", "boost", "off")
        /\ UNCHANGED timed
     \/ /\ "identity" \in Faults
        /\ timed' = IF f = "present" THEN Unset ELSE timed
        /\ UNCHANGED queue
  /\ UNCHANGED <<unitVars, topic, unloading, pollVars, calls, seenOn, lastMode, told, speed>>

-----------------------------------------------------------------------------
\* The unit receives a request.
Receive(r) ==
  /\ mode' = IF r.reg = "mode" THEN r.value ELSE mode
  /\ boost' = IF r.reg = "boost" THEN r.value ELSE boost

EndsBoost(r) == r.fan = "present" /\ r.reg = "boost" /\ r.value = "off"

\* Mutant of Notice: the fan does not hear of it.
NoticeNever(r) == FALSE

\* _handle_write: the fan hears of a successful write that ends the boost.
Notice(r) == EndsBoost(r)

\* The write that starts a timed boost.
StartsTimed(r) == r.by = "call" /\ calls[r.fan].minutes > 0

\* Mutant of SeenAtStart: what was seen of the boost before still counts.
SeenAtStartKept == seenOn

\* _boost_seen_on when a timer is set.
SeenAtStart == FALSE

\* The mode is written, the level comes next.
LevelNext(r) == r.by = "call" /\ calls[r.fan].kind = "speed"

\* What awaited the write goes on after its success.  The identity is checked
\* again before the level.
Succeeds(r) ==
  LET set == StartsTimed(r) /\ r.fan = "present"
  IN
  /\ timer' = [f \in Fans |-> IF StartsTimed(r) /\ f = r.fan THEN calls[f].minutes
                              ELSE IF Notice(r) /\ f = "present" THEN Unset
                              ELSE timer[f]]
  /\ seenOn' = IF set THEN SeenAtStart ELSE seenOn
  /\ \/ queue' = IF LevelNext(r) THEN Sent(Tail(queue), r.fan, "call", "level", "level")
                 ELSE Tail(queue)
     \/ "identity" \in Faults /\ LevelNext(r) /\ queue' = Tail(queue)
  /\ calls' = IF r.by # "call" THEN calls
              ELSE [calls EXCEPT ![r.fan] =
                      IF LevelNext(r) /\ Len(queue') = Len(queue)
                        THEN [NoCall EXCEPT !.kind = "level"] ELSE NoCall]
  /\ poll' = IF set /\ poll # Idle THEN [poll EXCEPT !.later = FALSE] ELSE poll
  /\ told' = IF set THEN "nothing" ELSE IF EndsBoost(r) THEN "ended" ELSE told
  /\ timed' = IF boost' = "off" THEN Unset
              ELSE IF set THEN timer'.present ELSE timed

\* A call ends with an error; the end of a timed boost is only logged.
Fails(r) ==
  /\ queue' = Tail(queue)
  /\ calls' = IF r.by = "call" THEN [calls EXCEPT ![r.fan] = NoCall] ELSE calls
  /\ timed' = IF boost' = "off" \/ r.by = "timer" THEN Unset ELSE timed
  /\ UNCHANGED <<timer, seenOn, poll, told>>

\* async_write_register after its await.  "unanswered": the unit received the
\* request, its answer is lost.
Served(outcome) ==
  LET r == Head(queue)
  IN
  /\ queue # <<>>
  /\ outcome \in {"done"} \union (Faults \intersect {"lost", "unanswered"})
  /\ IF outcome = "lost" THEN UNCHANGED unitVars ELSE Receive(r)
  /\ IF outcome = "done" THEN Succeeds(r) ELSE Fails(r)
  /\ speed' = IF calls'.present = NoCall THEN "idle"
              ELSE IF speed # "idle" /\ mode' # mode /\ calls'.present = calls.present
                THEN "disturbed" ELSE speed
  /\ UNCHANGED <<topic, unloading, data, pollOk, lastMode>>

-----------------------------------------------------------------------------
\* A poll reads the registers: what it reports is of this moment.
PollReads ==
  /\ ~unloading /\ poll = Idle
  /\ \E m \in Read(mode, "speed"), b \in Read(boost, "boost") :
       poll' = [mode |-> m, boost |-> b, later |-> TRUE]
  /\ UNCHANGED <<unitVars, queue, topic, unloading, data, pollOk, fanVars, timed, told,
                 speed>>

\* _follow_boost drops the timer.
Dropped(d) == timer.present # Unset /\ d.boost = "off" /\ seenOn

\* Mutant of Remembered: off is remembered as well.
RememberedOff(d) == IF d.mode # "none" THEN d.mode ELSE lastMode

\* The mode to return to.
Remembered(d) == IF d.mode \in Presets THEN d.mode ELSE lastMode

\* _handle_coordinator_update.
Update(d) ==
  /\ lastMode' = Remembered(d)
  /\ timer' = IF Dropped(d) THEN [timer EXCEPT !.present = Unset] ELSE timer
  /\ seenOn' = (seenOn \/ (timer.present # Unset /\ d.boost = "on"))

PollEnds ==
  /\ poll # Idle
  /\ data' = poll /\ pollOk' = TRUE /\ poll' = Idle
  /\ Update(poll)
  /\ told' = IF ~poll.later THEN told
             ELSE IF poll.boost = "on" /\ told = "nothing" THEN "on"
             ELSE IF poll.boost = "off" /\ told = "on" THEN "ended" ELSE told
  /\ UNCHANGED <<unitVars, queue, topic, unloading, calls, timed, speed>>

\* The entities hear of the first poll that fails; the data stay.
PollFails ==
  /\ poll # Idle
  /\ poll' = Idle /\ pollOk' = FALSE
  /\ IF pollOk THEN Update(data) ELSE UNCHANGED <<lastMode, timer, seenOn>>
  /\ UNCHANGED <<unitVars, queue, topic, unloading, data, calls, timed, told, speed>>

\* The control panel of the unit, and its own end of a boost.
Panel ==
  /\ \/ /\ "boost" \in topic
        /\ boost' \in Switch \ {boost}
        /\ UNCHANGED mode
     \/ /\ "speed" \in topic
        /\ mode' \in Modes \ {mode}
        /\ UNCHANGED boost
  /\ timed' = IF boost' = "off" THEN Unset ELSE timed
  /\ speed' = IF speed # "idle" /\ mode' # mode THEN "disturbed" ELSE speed
  /\ UNCHANGED <<queue, topic, unloading, pollVars, fanVars, told>>

\* A reload removes the fan (async_will_remove_from_hass): what it awaits goes
\* on.  Bound: nothing is left of an earlier reload.
Remove ==
  /\ ~unloading
  /\ calls.removed = NoCall /\ timer.removed = Unset
  /\ unloading' = TRUE
  /\ calls' = [present |-> NoCall, removed |-> calls.present]
  /\ timer' = [f \in Fans |-> Unset]
  /\ seenOn' = FALSE
  /\ queue' = [n \in DOMAIN queue |-> [queue[n] EXCEPT !.fan = "removed"]]
  /\ poll' = Idle
  /\ timed' = Unset /\ told' = "ended" /\ speed' = "idle"
  /\ UNCHANGED <<unitVars, topic, data, pollOk, lastMode>>

\* Then the hub is closed, and a new fan set up with a first poll (__init__).
Reload ==
  /\ unloading
  /\ unloading' = FALSE
  /\ \E m \in Read(mode, "speed"), b \in Read(boost, "boost") :
       /\ data' = [mode |-> m, boost |-> b, later |-> FALSE]
       /\ lastMode' = IF m \in Presets THEN m ELSE "manual"
  /\ pollOk' = TRUE
  /\ UNCHANGED <<unitVars, queue, topic, poll, calls, timer, seenOn, timed, told, speed>>

\* A minute passes; timers are prompt.
Tick ==
  /\ \A f \in Fans : timer[f] # 0
  /\ \E f \in Fans : timer[f] > 0
  /\ timer' = [f \in Fans |-> IF timer[f] > 0 THEN timer[f] - 1 ELSE timer[f]]
  /\ timed' = IF timed > 0 THEN timed - 1 ELSE timed
  /\ UNCHANGED <<unitVars, queue, topic, unloading, pollVars, calls, seenOn, lastMode,
                 told, speed>>

Init ==
  /\ topic \in Topics
  /\ mode \in (IF "speed" \in topic THEN Modes ELSE {"manual"})
  /\ boost \in (IF "boost" \in topic THEN Switch ELSE {"off"})
  /\ queue = <<>>
  /\ \E m \in Read(mode, "speed"), b \in Read(boost, "boost") :
       /\ data = [mode |-> m, boost |-> b, later |-> FALSE]
       /\ lastMode = IF m \in Presets THEN m ELSE "manual"
  /\ pollOk = TRUE /\ poll = Idle
  /\ calls = [f \in Fans |-> NoCall]
  /\ timer = [f \in Fans |-> Unset]
  /\ seenOn = FALSE /\ unloading = FALSE
  /\ timed = Unset /\ told = "ended" /\ speed = "idle"

Next ==
  \/ \E minutes \in Durations : Boost(minutes)
  \/ SetSpeed
  \/ \E m \in Modes : SetMode(m)
  \/ TurnOn
  \/ OtherEntity
  \/ \E f \in Fans : TimeUp(f)
  \/ \E outcome \in {"done", "lost", "unanswered"} : Served(outcome)
  \/ PollReads \/ PollEnds \/ PollFails
  \/ Panel \/ Remove \/ Reload \/ Tick

Spec == Init /\ [][Next]_vars

\* Requests end (the Modbus client has a timeout), timers fire and time passes.
Fairness ==
  /\ WF_vars(\E outcome \in {"done", "lost", "unanswered"} : Served(outcome))
  /\ \A f \in Fans : WF_vars(TimeUp(f))
  /\ SF_vars(Tick)

FairSpec == Spec /\ Fairness

-----------------------------------------------------------------------------
(***************************************************************************)
(* A timed boost that runs, and that nobody ended or replaced, has its     *)
(* timer, on time, until the write that ends it is under way: neither a    *)
(* poll that read the unit earlier nor a write of another entity takes it  *)
(* away.  What does: a later boost call (async_boost cancels the timer     *)
(* before its write, also if that fails) and a failed write at the end.    *)
(***************************************************************************)
TimedBoostKeepsItsTimer ==
  timed # Unset =>
    \/ timer.present = timed
    \/ timed = 0 /\ \E n \in DOMAIN queue :
                      queue[n].by = "timer" /\ queue[n].fan = "present"

(***************************************************************************)
(* Once Home Assistant knows that a timed boost has ended, because it      *)
(* switched it off or because polls that read after the timer was set saw  *)
(* it on and then off, no timer is left that could end a later boost       *)
(* (_handle_write, _follow_boost).                                         *)
(***************************************************************************)
KnownEndDropsTheTimer == told = "ended" => timer.present = Unset

(***************************************************************************)
(* What a removed fan, or an entity beside it, still sends until its hub   *)
(* is closed is served before anything of the fan after it, and a timed    *)
(* boost of that fan runs with nothing of the old one left to come:        *)
(* neither the end of a boost whose call was waiting at the unload, nor a  *)
(* mode, nor the level of a speed.                                         *)
(***************************************************************************)
RemovedFanIsDone ==
  \A n \in DOMAIN queue : queue[n].fan = "removed" =>
    /\ \A m \in 1..n : queue[m].fan = "removed"
    /\ timed = Unset

(***************************************************************************)
(* When the level of a speed is written, the unit is in a mode that keeps  *)
(* it, also if the mode was not read, unless the last poll showed another  *)
(* mode when the call began or somebody else changed it since              *)
(* (async_set_percentage writes the mode first).                           *)
(***************************************************************************)
SpeedComesWithAMode ==
  calls.present.kind = "level" /\ speed = "informed" => mode \in LevelModes

(***************************************************************************)
(* A timed boost ends: its time comes, and then it is off or the write     *)
(* that was to end it has failed, unless it was ended or replaced before.  *)
(***************************************************************************)
TimedBoostEnds == timed # Unset ~> timed = Unset
=============================================================================
