-------------------------------- MODULE Poll --------------------------------
(***************************************************************************)
(* The polls of a unit and what follows them: MaicoCoordinator of          *)
(* coordinator.py, the reads and writes of modbus_hub.py, the identity     *)
(* check, the entities' writes (entity.py) and the repair issues of the    *)
(* unit (issues.py).                                                       *)
(*                                                                         *)
(* A poll is a series of requests; between two of them the unit, or        *)
(* another device that got its address, may change.  Polls run one at a    *)
(* time (the lock of the debouncer); a refresh that is requested while one *)
(* runs is dropped.  A poll takes no time compared to the scan interval.   *)
(*                                                                         *)
(* A register has two values, "usual" and "odd".  Odd is: outside its      *)
(* range (IDENTITY_RANGES), a fault, a filter at 0 days, a clock that is   *)
(* wrong by Drift.                                                         *)
(***************************************************************************)
EXTENDS Integers, Sequences

CONSTANTS
  Registers,        \* the present registers that can be read
  Identity,         \* those of IDENTITY_RANGES
  Watched,          \* those with a repair issue
  Clock,            \* the one whose issue also depends on the time
  Settings,         \* those an entity writes
  BusInput,         \* an input that the bus feeder writes
  Blocks,           \* the blocks read (see the module Blocks)
  Idle,             \* no poll is in progress
  Nothing           \* no write is under way

CONSTANTS           \* time, in ticks
  ScanInterval,
  Drift,            \* how far an odd clock is ahead
  ClockDriftLimit,
  TroubleLimit      \* bound: requests that fail

Value == {"usual", "odd"}
IssueKeys == Watched \union {"unsupported_device"}

ASSUME RegisterAssumption ==
  /\ Identity \subseteq Registers /\ Settings \subseteq Registers
  /\ Watched \subseteq Registers /\ "unsupported_device" \notin Watched
  /\ BusInput \notin Registers /\ Nothing \notin Registers \union {BusInput}
\* There are some: a unit of which nothing can be read is not set up.
ASSUME BlocksAssumption ==
  /\ Blocks \in Seq(Seq(Registers)) /\ Blocks # <<>>
  /\ \A n \in DOMAIN Blocks : Blocks[n] # <<>>
ASSUME TimeAssumption ==
  /\ ScanInterval \in Nat /\ Drift \in Nat /\ ClockDriftLimit \in Nat
  /\ TroubleLimit \in Nat

VARIABLES
  value,            \* the registers of the device
  entry,            \* "unloaded", "setup": its first poll runs, or "loaded"
  poll,             \* the poll in progress
  data, pollOk,     \* coordinator.data, last_update_success
  age,              \* time since the last good poll; at the first failure it stops
  problem,          \* identity_problem is set
  issues,           \* the repair issues shown
  writing,          \* the write of an entity that is under way
  trouble           \* bound: requests that failed

vars == <<value, entry, poll, data, pollOk, age, problem, issues, writing, trouble>>
viewVars == <<data, pollOk, age, problem, issues>>

-----------------------------------------------------------------------------
Missing == "none"
Data == [Registers -> Value \union {Missing}]

\* got: what it has read; single: the register of the block that is read on
\* its own, 0 for the whole block.  seen (history): the values the device had
\* since the poll began.
Polls == [block : 1..Len(Blocks), single : Nat, got : Data,
          seen : [Registers -> SUBSET Value]]

ASSUME IdleAssumption == Idle \notin Polls

TypeOK ==
  /\ value \in [Registers -> Value]
  /\ entry \in {"unloaded", "setup", "loaded"}
  /\ poll \in Polls \union {Idle}
  /\ poll # Idle => poll.single <= Len(Blocks[poll.block])
  /\ entry = "setup" => poll # Idle
  /\ data \in Data
  /\ pollOk \in BOOLEAN
  /\ age \in 0..ScanInterval
  /\ problem \in BOOLEAN
  /\ issues \subseteq IssueKeys
  /\ writing \in Settings \union {BusInput, Nothing}
  /\ trouble \in 0..TroubleLimit

NoData == [r \in Registers |-> Missing]

-----------------------------------------------------------------------------
\* identity_problem: a value that is missing is no reason.
IdentityProblem(d) == \E r \in Identity : d[r] = "odd"

\* The condition of an issue.  The clock was read with the data and is
\* compared to the time now.
Active(r, d, elapsed) ==
  IF r # Clock THEN d[r] = "odd"
  ELSE LET deviation == (IF d[r] = "odd" THEN Drift ELSE 0) - elapsed
       IN deviation > ClockDriftLimit \/ -deviation > ClockDriftLimit

\* Mutant of Issues: a register that is missing ends its issue.
IssuesOfReadings(d, wrong, elapsed) ==
  {r \in Watched : d[r] # Missing /\ Active(r, d, elapsed)}
    \union (IF wrong THEN {"unsupported_device"} ELSE {})

\* async_update_issues.  A register that is missing leaves its issue as it is.
Issues(d, wrong, elapsed) ==
  {r \in Watched : IF d[r] = Missing THEN r \in issues ELSE Active(r, d, elapsed)}
    \union (IF wrong THEN {"unsupported_device"} ELSE {})

-----------------------------------------------------------------------------
Started == [block |-> 1, single |-> 0, got |-> NoData,
            seen |-> [r \in Registers |-> {value[r]}]]

\* async_setup_entry up to the first poll; the identity check comes before.
Setup ==
  /\ entry = "unloaded" /\ ~IdentityProblem(value)
  /\ entry' = "setup"
  /\ poll' = Started
  /\ data' = NoData /\ pollOk' = FALSE /\ age' = 0 /\ problem' = FALSE
  /\ UNCHANGED <<value, issues, writing, trouble>>

\* Mutant of PollStarts: no poll is scheduled after one that failed.
PollStartsAfterSuccess ==
  /\ entry = "loaded" /\ poll = Idle /\ pollOk
  /\ poll' = Started
  /\ UNCHANGED <<value, entry, viewVars, writing, trouble>>

\* A scheduled poll, or a refresh after a write.
PollStarts ==
  /\ entry = "loaded" /\ poll = Idle
  /\ poll' = Started
  /\ UNCHANGED <<value, entry, viewVars, writing, trouble>>

\* The registers of the request under way.
Requested ==
  LET block == Blocks[poll.block]
  IN IF poll.single = 0 THEN {block[n] : n \in DOMAIN block} ELSE {block[poll.single]}

\* Mutant of NextRequest: off by one at the end of a block.
NextRequestTooFar(p) ==
  IF p.single \in 1..Len(Blocks[p.block]) THEN [p EXCEPT !.single = p.single + 1]
  ELSE [p EXCEPT !.single = 0, !.block = p.block + 1]

\* A poll after its request; a block ends with its last register.
NextRequest(p) ==
  IF p.single \in 1..(Len(Blocks[p.block]) - 1)
  THEN [p EXCEPT !.single = p.single + 1]
  ELSE [p EXCEPT !.single = 0, !.block = p.block + 1]

\* _async_update_data succeeds; the first one completes the setup.
Succeeds(got) ==
  /\ poll' = Idle /\ entry' = "loaded"
  /\ data' = got /\ pollOk' = TRUE /\ age' = 0
  /\ problem' = IdentityProblem(got)
  /\ issues' = Issues(got, problem', 0)

\* Mutant of Failed: a failed poll knows of no problem.
FailedForgets ==
  /\ poll' = Idle
  /\ entry' = IF entry = "setup" THEN "unloaded" ELSE entry
  /\ pollOk' = FALSE
  /\ problem' = FALSE
  /\ issues' = IF pollOk THEN Issues(data, problem', age) ELSE issues
  /\ UNCHANGED <<data, age>>

\* UpdateFailed: data and problem stay.  The listeners hear of the first one.
Failed ==
  /\ poll' = Idle
  /\ entry' = IF entry = "setup" THEN "unloaded" ELSE entry
  /\ pollOk' = FALSE
  /\ issues' = IF pollOk THEN Issues(data, problem, age) ELSE issues
  /\ UNCHANGED <<data, age, problem>>

\* The poll goes on after a request, or ends with the last one.
GoesOn(p) ==
  IF p.block <= Len(Blocks) THEN poll' = p /\ UNCHANGED <<entry, viewVars>>
  ELSE IF p.got = NoData THEN Failed ELSE Succeeds(p.got)

\* The request is answered: _read_all, _read_singly.
Answered ==
  /\ poll # Idle
  /\ GoesOn(NextRequest([poll EXCEPT
       !.got = [r \in Registers |-> IF r \in Requested THEN value[r] ELSE @[r]]]))
  /\ UNCHANGED <<value, writing, trouble>>

\* Mutant of Left: the entity keeps what the poll before read.
LeftAsBefore(p) ==
  NextRequest([p EXCEPT
    !.got = [r \in Registers |-> IF r \in Requested THEN data[r] ELSE @[r]]])

\* A register that is rejected on its own stays missing.
Left(p) == NextRequest(p)

\* The request is rejected, or its answer is short (_checked_registers): the
\* registers of the block are read one by one.
Rejected ==
  /\ poll # Idle /\ trouble < TroubleLimit
  /\ trouble' = trouble + 1
  /\ GoesOn(IF poll.single = 0 THEN [poll EXCEPT !.single = 1] ELSE Left(poll))
  /\ UNCHANGED <<value, writing>>

\* MaicoConnectionError ends the poll.
ConnectionLost ==
  /\ poll # Idle /\ trouble < TroubleLimit
  /\ trouble' = trouble + 1
  /\ Failed
  /\ UNCHANGED <<value, writing>>

\* An entity is not there while its register is missing.
Available(r) == pollOk /\ data[r] # Missing

\* async_write_register, and the identity check of the feeder: nothing is
\* written to a device that is no Maico KWL.
MayWrite(r) == ~problem /\ (r # BusInput => Available(r))

\* The write of an entity or the feeder, up to its await.
WriteStarts(r) ==
  /\ entry = "loaded" /\ writing = Nothing
  /\ MayWrite(r)
  /\ writing' = r
  /\ UNCHANGED <<value, entry, poll, viewVars, trouble>>

Changed(v) ==
  /\ value' = v
  /\ poll' = IF poll = Idle THEN Idle
             ELSE [poll EXCEPT !.seen = [r \in Registers |-> @[r] \union {v[r]}]]

\* What an entity may write: those of the identity are selects and switches,
\* whose options lie within the range.
Writable(r) == IF r \in Identity THEN {"usual"} ELSE Value

\* The device receives it, or it fails.
WriteEnds ==
  /\ writing # Nothing
  /\ writing' = Nothing
  /\ \/ Changed(value)
     \/ \E v \in Writable(writing) :
          Changed([r \in Registers |-> IF r = writing THEN v ELSE value[r]])
  /\ UNCHANGED <<entry, viewVars, trouble>>

\* The unit changes, or another device takes its place.
DeviceChanges ==
  /\ \E r \in Registers, v \in Value : Changed([value EXCEPT ![r] = v])
  /\ UNCHANGED <<entry, viewVars, writing, trouble>>

\* Mutant of Unload: the issues stay.
UnloadKeepsIssues ==
  /\ entry = "loaded"
  /\ entry' = "unloaded" /\ poll' = Idle
  /\ UNCHANGED <<value, viewVars, writing, trouble>>

\* The entry is unloaded: the hub is closed, a poll in progress ends unheard,
\* a write under way is already on its way.
Unload ==
  /\ entry = "loaded"
  /\ entry' = "unloaded" /\ poll' = Idle
  /\ issues' = {}
  /\ UNCHANGED <<value, data, pollOk, age, problem, writing, trouble>>

\* Time passes.  A poll is due after ScanInterval.
Tick ==
  /\ entry = "loaded" /\ poll = Idle /\ pollOk /\ age < ScanInterval
  /\ age' = age + 1
  /\ UNCHANGED <<value, entry, poll, data, pollOk, problem, issues, writing, trouble>>

Init ==
  /\ value \in [Registers -> Value]
  /\ entry = "unloaded" /\ poll = Idle
  /\ data = NoData /\ pollOk = FALSE /\ age = 0
  /\ problem = FALSE /\ issues = {}
  /\ writing = Nothing
  /\ trouble = 0

Next ==
  \/ Setup
  \/ PollStarts \/ Answered \/ Rejected \/ ConnectionLost
  \/ \E r \in Settings \union {BusInput} : WriteStarts(r)
  \/ WriteEnds \/ DeviceChanges
  \/ Unload \/ Tick

Spec == Init /\ [][Next]_vars

\* The coordinator schedules its next poll, and a request ends.
Fairness ==
  /\ WF_vars(PollStarts)
  /\ WF_vars(Answered \/ Rejected \/ ConnectionLost)

FairSpec == Spec /\ Fairness

-----------------------------------------------------------------------------
(***************************************************************************)
(* What entities show was read in one poll: each value that a poll brings  *)
(* is one the device had since that poll began.  Nothing is taken over     *)
(* from the poll before, whichever requests were rejected (_read_all).     *)
(***************************************************************************)
DataIsOfOnePoll ==
  [][poll # Idle /\ poll' = Idle /\ pollOk' /\ entry' = "loaded"
       => \A r \in Registers :
            data'[r] # Missing => data'[r] \in poll.seen[r]]_vars

(***************************************************************************)
(* No write starts while the last poll that succeeded saw a value that no  *)
(* Maico KWL has, however many polls failed since: the feeder goes on      *)
(* while they fail.                                                        *)
(***************************************************************************)
StrangerIsNotWritten ==
  [][writing = Nothing /\ writing' # Nothing
       => \A r \in Identity : data[r] # "odd"]_vars

(***************************************************************************)
(* The issues tell what the last poll read: the issue of a register is     *)
(* shown exactly if its reading called for it when the two were last       *)
(* compared, at the poll itself or, for the clock that goes on meanwhile,  *)
(* at the first poll that failed after it.  Without an entry there are     *)
(* none (async_update_issues as a listener, async_delete_issues).          *)
(***************************************************************************)
IssuesTellTheData ==
  /\ entry = "unloaded" => issues = {}
  /\ entry = "loaded" => \A r \in Watched : data[r] # Missing =>
       (r \in issues <=> Active(r, data, IF pollOk THEN 0 ELSE age))

(***************************************************************************)
(* An issue comes and goes with a reading of its register: a poll that     *)
(* could not read it, or failed, changes nothing.  Only the clock is       *)
(* compared once more, with the first poll that fails.                     *)
(***************************************************************************)
IssueNeedsAReading ==
  [][\A r \in Watched : (r \in issues) # (r \in issues') =>
       \/ entry' = "unloaded"
       \/ poll # Idle /\ pollOk' /\ data'[r] # Missing
       \/ r = Clock /\ data[r] # Missing /\ pollOk /\ ~pollOk']_vars

(***************************************************************************)
(* Once the device keeps its values, entities show them in the end and     *)
(* keep them, and the issues are those of the odd ones: also of a value    *)
(* that was written while a poll was running, so that the refresh after    *)
(* the write was dropped, and after polls that failed.                     *)
(***************************************************************************)
ViewSettles ==
  <>[](entry = "loaded") /\ <>[][FALSE]_value
    => <>[](data = value /\ problem = IdentityProblem(value)
              /\ issues = {r \in Watched : value[r] = "odd"} \union
                   {i \in {"unsupported_device"} : problem})
=============================================================================
