----------------------------- MODULE PollProofs -----------------------------
(***************************************************************************)
(* Proofs about module Poll, for any registers, blocks and durations.      *)
(***************************************************************************)
EXTENDS Poll, TLAPS

(***************************************************************************)
(* A poll between two requests: TypeOK of a poll in progress, which may    *)
(* also be past the last block.                                            *)
(***************************************************************************)
WellFormed(p) ==
  /\ p \in [block : 1..(Len(Blocks) + 1), single : Nat, got : Data,
            seen : [Registers -> SUBSET Value]]
  /\ p.block <= Len(Blocks) => p.single <= Len(Blocks[p.block])

\* A poll goes from one request to the next without leaving the blocks.
LEMMA NextRequestWellFormed ==
  ASSUME NEW p \in Polls, p.single <= Len(Blocks[p.block])
  PROVE  LET q == NextRequest(p)
         IN  WellFormed(q) /\ q.got = p.got /\ q.seen = p.seen
<1>1. p.block \in 1..Len(Blocks) /\ p.single \in Nat
  BY DEF Polls
<1>2. Len(Blocks) \in Nat /\ Len(Blocks[p.block]) \in Nat
  BY <1>1, BlocksAssumption
<1>3. CASE p.single \in 1..(Len(Blocks[p.block]) - 1)
  BY <1>1, <1>2, <1>3 DEF Polls, NextRequest, WellFormed
<1>4. CASE p.single \notin 1..(Len(Blocks[p.block]) - 1)
  <2> DEFINE n == p.block + 1
             q == [p EXCEPT !.single = 0, !.block = n]
  <2>1. NextRequest(p) = q
    BY <1>4 DEF NextRequest
  <2>2. n \in 1..(Len(Blocks) + 1)
    BY <1>1, <1>2
  <2>3. n <= Len(Blocks) => 0 <= Len(Blocks[n])
    BY <2>2, <1>2, BlocksAssumption
  <2> HIDE DEF n
  <2>4. /\ q \in [block : 1..(Len(Blocks) + 1), single : Nat, got : Data,
                 seen : [Registers -> SUBSET Value]]
        /\ q.block = n /\ q.single = 0 /\ q.got = p.got /\ q.seen = p.seen
    BY <2>2 DEF Polls
  <2> HIDE DEF q
  <2>5. QED
    BY <2>1, <2>3, <2>4 DEF WellFormed
<1>5. QED
  BY <1>3, <1>4

\* A poll that starts.
LEMMA StartedPoll ==
  ASSUME TypeOK
  PROVE  /\ Started \in Polls
         /\ Started.single <= Len(Blocks[Started.block])
         /\ Started # Idle
         /\ \A r \in Registers : /\ Started.got[r] = Missing
                                 /\ Started.seen[r] = {value[r]}
<1>1. Len(Blocks) \in Nat /\ Len(Blocks) >= 1 /\ Len(Blocks[1]) \in Nat
  BY BlocksAssumption
<1>2. NoData \in Data
  BY DEF NoData, Data
<1>3. Started \in Polls
  BY <1>1, <1>2 DEF Started, Polls, TypeOK
<1>4. /\ Started.block = 1 /\ Started.single = 0 /\ Started.got = NoData
      /\ Started.seen = [r \in Registers |-> {value[r]}]
  BY DEF Started
<1>5. Started # Idle
  BY <1>3, IdleAssumption
<1>6. Started.single <= Len(Blocks[Started.block])
  BY <1>1, <1>4
<1>7. \A r \in Registers : Started.got[r] = Missing /\ Started.seen[r] = {value[r]}
  BY <1>4 DEF NoData
<1>8. QED
  BY <1>3, <1>5, <1>6, <1>7

(***************************************************************************)
(* The inductive invariant.  What was read is of the poll: it is among the *)
(* values seen since the poll began, which include the present ones.  The  *)
(* problem is that of the data, and without a loaded entry there are no    *)
(* issues; before it is loaded no poll has succeeded, and none runs once   *)
(* it is unloaded.                                                         *)
(***************************************************************************)
PollInv ==
  /\ TypeOK
  /\ poll # Idle => \A r \in Registers :
                      /\ value[r] \in poll.seen[r]
                      /\ poll.got[r] = Missing \/ poll.got[r] \in poll.seen[r]
  /\ problem = IdentityProblem(data)
  /\ entry # "loaded" => issues = {}
  /\ entry = "setup" => ~pollOk
  /\ entry = "unloaded" => poll = Idle

\* What a request has read: the poll that goes on, or that ends with it.
ReadOf(p) ==
  /\ WellFormed(p)
  /\ p.seen = poll.seen
  /\ \A r \in Registers : p.got[r] = Missing \/ p.got[r] \in poll.seen[r]

\* A poll that fails keeps the invariant.
LEMMA FailedKeepsInv ==
  ASSUME PollInv, poll # Idle, Failed, UNCHANGED <<value, writing>>,
         trouble' \in 0..TroubleLimit
  PROVE  PollInv'
<1>1. /\ entry # "unloaded"
      /\ entry = "setup" => ~pollOk /\ issues = {}
  BY DEF PollInv
<1>2. issues' \subseteq IssueKeys
  BY DEF PollInv, TypeOK, Failed, Issues, IssueKeys
<1>3. TypeOK'
  BY <1>2 DEF PollInv, TypeOK, Failed
<1>4. entry \in {"loaded", "setup", "unloaded"}
  BY DEF PollInv, TypeOK
<1>5. entry' # "loaded" => issues' = {}
  BY <1>1, <1>4 DEF PollInv, TypeOK, Failed
<1>6. problem' = IdentityProblem(data')
  BY DEF PollInv, Failed
<1>7. entry' # "setup" /\ poll' = Idle
  BY <1>4 DEF Failed
<1>8. QED
  BY <1>3, <1>5, <1>6, <1>7 DEF PollInv

\* So does one that succeeds.
LEMMA SucceedsKeepsInv ==
  ASSUME PollInv, poll # Idle, NEW got \in Data, Succeeds(got),
         UNCHANGED <<value, writing>>, trouble' \in 0..TroubleLimit
  PROVE  PollInv'
<1>1. issues' \subseteq IssueKeys /\ problem' \in BOOLEAN
  BY DEF Succeeds, Issues, IssueKeys, IdentityProblem
<1>2. 0 \in 0..ScanInterval
  BY TimeAssumption
<1>3. TypeOK'
  BY <1>1, <1>2 DEF PollInv, TypeOK, Succeeds
<1>4. QED
  BY <1>3 DEF PollInv, Succeeds

\* A poll goes on, or ends with its last request.
LEMMA GoesOnKeepsInv ==
  ASSUME PollInv, poll # Idle, NEW p, ReadOf(p), GoesOn(p),
         UNCHANGED <<value, writing>>, trouble' \in 0..TroubleLimit
  PROVE  PollInv'
<1>1. CASE p.block <= Len(Blocks)
  <2>1. poll' = p /\ UNCHANGED <<entry, viewVars>>
    BY <1>1 DEF GoesOn
  <2>2. p \in Polls /\ p.single <= Len(Blocks[p.block])
    BY <1>1, BlocksAssumption DEF ReadOf, WellFormed, Polls
  <2>3. TypeOK'
    BY <2>1, <2>2, IdleAssumption DEF PollInv, TypeOK, viewVars
  <2>4. \A r \in Registers : value'[r] \in poll'.seen[r]
    BY <2>1 DEF PollInv, ReadOf
  <2>5. QED
    BY <2>1, <2>3, <2>4 DEF PollInv, ReadOf, viewVars
<1>2. CASE ~(p.block <= Len(Blocks))
  <2>1. p.got \in Data
    BY DEF ReadOf, WellFormed
  <2>2. Failed \/ Succeeds(p.got)
    BY <1>2 DEF GoesOn
  <2>3. QED
    BY <2>1, <2>2, FailedKeepsInv, SucceedsKeepsInv
<1>3. QED
  BY <1>1, <1>2

\* The poll after an answered request.
LEMMA AnsweredReads ==
  ASSUME PollInv, poll # Idle
  PROVE  ReadOf(NextRequest([poll EXCEPT
           !.got = [r \in Registers |-> IF r \in Requested THEN value[r] ELSE @[r]]]))
<1> DEFINE got == [r \in Registers |-> IF r \in Requested THEN value[r] ELSE poll.got[r]]
           p == [poll EXCEPT !.got = got]
<1>1. poll \in Polls /\ poll.single <= Len(Blocks[poll.block])
  BY DEF PollInv, TypeOK
<1>2. got \in Data
  BY <1>1 DEF PollInv, TypeOK, Polls, Data
<1>3. \A r \in Registers : got[r] = Missing \/ got[r] \in poll.seen[r]
  BY DEF PollInv
<1> HIDE DEF got
<1>4. /\ p \in Polls /\ p.block = poll.block /\ p.single = poll.single
      /\ p.got = got /\ p.seen = poll.seen
  BY <1>1, <1>2 DEF Polls
<1>5. p = [poll EXCEPT
             !.got = [r \in Registers |-> IF r \in Requested THEN value[r] ELSE @[r]]]
  BY DEF got
<1> HIDE DEF p
<1>6. WellFormed(NextRequest(p)) /\ NextRequest(p).got = got /\ NextRequest(p).seen = p.seen
  BY <1>1, <1>4, NextRequestWellFormed
<1>7. ReadOf(NextRequest(p))
  BY <1>3, <1>4, <1>6 DEF ReadOf
<1>8. QED
  BY <1>5, <1>7

\* The poll after a rejected request.
LEMMA RejectedReads ==
  ASSUME PollInv, poll # Idle
  PROVE  ReadOf(IF poll.single = 0 THEN [poll EXCEPT !.single = 1] ELSE Left(poll))
<1>1. poll \in Polls /\ poll.single <= Len(Blocks[poll.block])
  BY DEF PollInv, TypeOK
<1>2. CASE poll.single = 0
  <2> DEFINE p == [poll EXCEPT !.single = 1]
  <2>1. /\ p \in Polls /\ p.block = poll.block /\ p.single = 1
        /\ p.got = poll.got /\ p.seen = poll.seen
    BY <1>1 DEF Polls
  <2>2. 1 <= Len(Blocks[poll.block])
    BY <1>1, BlocksAssumption DEF Polls
  <2> HIDE DEF p
  <2>3. WellFormed(p)
    BY <2>1, <2>2, BlocksAssumption DEF WellFormed, Polls
  <2>4. ReadOf(p)
    BY <2>1, <2>3 DEF ReadOf, PollInv
  <2>5. QED
    BY <1>2, <2>4 DEF p
<1>3. CASE poll.single # 0
  BY <1>1, <1>3, NextRequestWellFormed DEF Left, ReadOf, PollInv
<1>4. QED
  BY <1>2, <1>3

-----------------------------------------------------------------------------
\* A poll that starts keeps the invariant.
LEMMA StartKeepsInv ==
  ASSUME PollInv, Setup \/ PollStarts
  PROVE  PollInv'
<1>1. /\ Started \in Polls /\ Started.single <= Len(Blocks[Started.block])
      /\ Started # Idle
      /\ \A r \in Registers : Started.got[r] = Missing /\ Started.seen[r] = {value[r]}
  BY StartedPoll DEF PollInv
<1>2. poll' = Started /\ UNCHANGED <<value, issues, writing, trouble>>
  BY DEF Setup, PollStarts, viewVars
<1>3. \A r \in Registers : value'[r] \in poll'.seen[r] /\ poll'.got[r] = Missing
  BY <1>1, <1>2
<1>4. CASE Setup
  <2>1. NoData \in Data /\ ~IdentityProblem(NoData)
    BY RegisterAssumption DEF NoData, Data, IdentityProblem, Missing
  <2>2. 0 \in 0..ScanInterval
    BY TimeAssumption
  <2>3. TypeOK'
    BY <1>1, <1>2, <1>4, <2>1, <2>2 DEF PollInv, TypeOK, Setup
  <2>4. /\ entry' = "setup" /\ ~pollOk' /\ data' = NoData /\ ~problem' /\ issues' = {}
    BY <1>4 DEF PollInv, Setup
  <2>5. problem' = IdentityProblem(data')
    BY <2>1, <2>3, <2>4 DEF TypeOK, IdentityProblem
  <2>6. QED
    BY <1>3, <2>3, <2>4, <2>5 DEF PollInv
<1>5. CASE PollStarts
  <2>1. TypeOK'
    BY <1>1, <1>2, <1>5 DEF PollInv, TypeOK, PollStarts, viewVars
  <2>2. QED
    BY <1>3, <1>5, <2>1 DEF PollInv, PollStarts, viewVars
<1>6. QED
  BY <1>4, <1>5

\* The poll in progress goes on while the device changes, and has seen its values.
LEMMA ChangedPoll ==
  ASSUME PollInv, poll # Idle, NEW v \in [Registers -> Value], Changed(v)
  PROVE  /\ poll' \in Polls /\ poll' # Idle
         /\ poll'.block = poll.block /\ poll'.single = poll.single
         /\ poll'.got = poll.got
         /\ \A r \in Registers : /\ value'[r] \in poll'.seen[r]
                                 /\ poll.seen[r] \subseteq poll'.seen[r]
<1> DEFINE seen == [r \in Registers |-> poll.seen[r] \union {v[r]}]
<1>1. poll \in Polls
  BY DEF PollInv, TypeOK
<1>2. value' = v /\ poll' = [poll EXCEPT !.seen = seen]
  BY DEF Changed
<1>3. seen \in [Registers -> SUBSET Value]
  BY <1>1 DEF Polls
<1>4. \A r \in Registers : v[r] \in seen[r] /\ poll.seen[r] \subseteq seen[r]
  OBVIOUS
<1> HIDE DEF seen
<1>5. /\ poll' \in Polls /\ poll'.block = poll.block /\ poll'.single = poll.single
      /\ poll'.got = poll.got /\ poll'.seen = seen
  BY <1>1, <1>2, <1>3 DEF Polls
<1>6. QED
  BY <1>2, <1>4, <1>5, IdleAssumption

\* The steps that change the device.
LEMMA DeviceSteps ==
  ASSUME PollInv, WriteEnds \/ DeviceChanges
  PROVE  \E v \in [Registers -> Value] : Changed(v)
<1>1. CASE WriteEnds
  <2>1. CASE Changed(value)
    BY <2>1 DEF PollInv, TypeOK
  <2>2. ASSUME NEW x \in Writable(writing),
               Changed([r \in Registers |-> IF r = writing THEN x ELSE value[r]])
        PROVE  \E v \in [Registers -> Value] : Changed(v)
    <3>1. x \in Value
      BY DEF Writable, Value
    <3>2. [r \in Registers |-> IF r = writing THEN x ELSE value[r]] \in [Registers -> Value]
      BY <3>1 DEF PollInv, TypeOK
    <3>3. QED
      BY <2>2, <3>2
  <2>3. QED
    BY <1>1, <2>1, <2>2 DEF WriteEnds
<1>2. CASE DeviceChanges
  <2>1. PICK q \in Registers, x \in Value : Changed([value EXCEPT ![q] = x])
    BY <1>2 DEF DeviceChanges
  <2>2. [value EXCEPT ![q] = x] \in [Registers -> Value]
    BY DEF PollInv, TypeOK
  <2>3. QED
    BY <2>1, <2>2
<1>3. QED
  BY <1>1, <1>2

\* A device that changes keeps the invariant.
LEMMA DeviceKeepsInv ==
  ASSUME PollInv, WriteEnds \/ DeviceChanges
  PROVE  PollInv'
<1>1. PICK v \in [Registers -> Value] : Changed(v)
  BY DeviceSteps
<1>2. /\ UNCHANGED <<entry, viewVars, trouble>>
      /\ writing' \in Settings \union {BusInput, Nothing}
  BY DEF WriteEnds, DeviceChanges, PollInv, TypeOK
<1>3. CASE poll = Idle
  <2>1. poll' = Idle /\ value' = v
    BY <1>1, <1>3 DEF Changed
  <2>2. QED
    BY <1>2, <1>3, <2>1 DEF PollInv, TypeOK, viewVars
<1>4. CASE poll # Idle
  <2>1. /\ poll' \in Polls /\ poll' # Idle
        /\ poll'.block = poll.block /\ poll'.single = poll.single
        /\ poll'.got = poll.got
        /\ \A r \in Registers : /\ value'[r] \in poll'.seen[r]
                                /\ poll.seen[r] \subseteq poll'.seen[r]
    BY <1>1, <1>4, ChangedPoll
  <2>2. value' = v
    BY <1>1 DEF Changed
  <2>3. TypeOK'
    BY <1>2, <1>4, <2>1, <2>2 DEF PollInv, TypeOK, viewVars
  <2>4. \A r \in Registers : poll'.got[r] = Missing \/ poll'.got[r] \in poll'.seen[r]
    BY <1>4, <2>1 DEF PollInv
  <2>5. QED
    BY <1>2, <1>4, <2>1, <2>3, <2>4 DEF PollInv, viewVars
<1>5. QED
  BY <1>3, <1>4

\* Each step keeps the invariant.
LEMMA NextKeepsInv ==
  ASSUME PollInv, [Next]_vars
  PROVE  PollInv'
<1>1. CASE Setup \/ PollStarts
  BY <1>1, StartKeepsInv
<1>2. CASE Answered
  <2>1. trouble' \in 0..TroubleLimit /\ UNCHANGED <<value, writing>>
    BY <1>2 DEF Answered, PollInv, TypeOK
  <2>2. QED
    BY <1>2, <2>1, AnsweredReads, GoesOnKeepsInv DEF Answered
<1>3. trouble < TroubleLimit => trouble + 1 \in 0..TroubleLimit
  BY TimeAssumption DEF PollInv, TypeOK
<1>4. CASE Rejected
  BY <1>3, <1>4, RejectedReads, GoesOnKeepsInv DEF Rejected
<1>5. CASE ConnectionLost
  BY <1>3, <1>5, FailedKeepsInv DEF ConnectionLost
<1>6. ASSUME NEW r \in Settings \union {BusInput}, WriteStarts(r)
      PROVE  PollInv'
  BY <1>6 DEF WriteStarts, PollInv, TypeOK, viewVars
<1>7. CASE WriteEnds \/ DeviceChanges
  BY <1>7, DeviceKeepsInv
<1>8. CASE Unload
  BY <1>8 DEF Unload, PollInv, TypeOK
<1>9. CASE Tick
  <2>1. age + 1 \in 0..ScanInterval
    BY <1>9, TimeAssumption DEF Tick, PollInv, TypeOK
  <2>2. QED
    BY <1>9, <2>1 DEF Tick, PollInv, TypeOK
<1>10. CASE UNCHANGED vars
  BY <1>10 DEF vars, PollInv, TypeOK
<1>11. QED
  BY <1>1, <1>2, <1>4, <1>5, <1>6, <1>7, <1>8, <1>9, <1>10 DEF Next

(***************************************************************************)
(* The invariant holds in every state of Poll.                             *)
(***************************************************************************)
THEOREM PollInvariant == Spec => []PollInv
<1>1. Init => PollInv
  <2> SUFFICES ASSUME Init PROVE PollInv
    OBVIOUS
  <2>1. NoData \in Data /\ ~IdentityProblem(NoData)
    BY RegisterAssumption DEF NoData, Data, IdentityProblem, Missing
  <2>2. 0 \in 0..ScanInterval /\ 0 \in 0..TroubleLimit
    BY TimeAssumption
  <2>3. TypeOK
    BY <2>1, <2>2 DEF Init, TypeOK
  <2>4. problem = IdentityProblem(data)
    BY <2>1 DEF Init, IdentityProblem
  <2>5. QED
    BY <2>3, <2>4 DEF Init, PollInv
<1>2. PollInv /\ [Next]_vars => PollInv'
  BY NextKeepsInv
<1>3. QED
  BY <1>1, <1>2, PTL DEF Spec

(***************************************************************************)
(* Type correctness of Poll.                                               *)
(***************************************************************************)
THEOREM PollTypeCorrect == Spec => []TypeOK
<1>1. PollInv => TypeOK
  BY DEF PollInv
<1>2. QED
  BY <1>1, PollInvariant, PTL

-----------------------------------------------------------------------------
(***************************************************************************)
(* Nothing is written to a device that the last good poll saw as no unit.  *)
(***************************************************************************)
THEOREM StrangerIsNeverWritten == Spec => StrangerIsNotWritten
<1> DEFINE A == writing = Nothing /\ writing' # Nothing
                  => \A r \in Identity : data[r] # "odd"
<1>1. ASSUME PollInv, Next PROVE A
  <2> SUFFICES ASSUME writing = Nothing, writing' # Nothing
               PROVE  \A r \in Identity : data[r] # "odd"
    OBVIOUS
  <2>1. PICK r \in Settings \union {BusInput} : WriteStarts(r)
    BY <1>1 DEF Next, Setup, PollStarts, Answered, Rejected, ConnectionLost,
                WriteEnds, DeviceChanges, Unload, Tick
  <2>2. ~problem
    BY <2>1 DEF WriteStarts, MayWrite
  <2>3. QED
    BY <1>1, <2>2 DEF PollInv, IdentityProblem
<1>2. PollInv /\ [Next]_vars => [A]_vars
  BY <1>1
<1>3. [][A]_vars => StrangerIsNotWritten
  BY DEF StrangerIsNotWritten
<1>4. QED
  BY <1>2, <1>3, PollInvariant, PTL DEF Spec

\* How a request ends a poll: the poll fails, or succeeds with what it has read.
LEMMA HowAPollEnds ==
  ASSUME PollInv, [Next]_vars, poll # Idle, poll' = Idle, entry' # "unloaded"
  PROVE  \/ Failed
         \/ \E got \in Data :
              /\ Succeeds(got)
              /\ \A r \in Registers : got[r] = Missing \/ got[r] \in poll.seen[r]
<1>1. ASSUME NEW p, ReadOf(p), GoesOn(p)
      PROVE  \/ Failed
             \/ /\ p.got \in Data /\ Succeeds(p.got)
                /\ \A r \in Registers : p.got[r] = Missing \/ p.got[r] \in poll.seen[r]
  <2>1. p.block <= Len(Blocks) => p \in Polls
    BY <1>1, BlocksAssumption DEF ReadOf, WellFormed, Polls
  <2>2. ~(p.block <= Len(Blocks))
    BY <1>1, <2>1, IdleAssumption DEF GoesOn
  <2>3. Failed \/ Succeeds(p.got)
    BY <1>1, <2>2 DEF GoesOn
  <2>4. QED
    BY <1>1, <2>3 DEF ReadOf, WellFormed
<1>2. CASE Answered
  BY <1>1, <1>2, AnsweredReads DEF Answered
<1>3. CASE Rejected
  BY <1>1, <1>3, RejectedReads DEF Rejected
<1>4. ~(WriteEnds \/ DeviceChanges)
  BY DeviceSteps, ChangedPoll
<1>5. ~UNCHANGED poll
  OBVIOUS
<1>6. QED
  BY <1>2, <1>3, <1>4, <1>5 DEF Next, vars, Setup, PollStarts, ConnectionLost,
     WriteStarts, Unload, Tick, PollInv

(***************************************************************************)
(* What a poll shows, it has read: no value is older than the poll.        *)
(***************************************************************************)
THEOREM DataIsAlwaysOfOnePoll == Spec => DataIsOfOnePoll
<1> DEFINE A == poll # Idle /\ poll' = Idle /\ pollOk' /\ entry' = "loaded"
                  => \A r \in Registers :
                       data'[r] # Missing => data'[r] \in poll.seen[r]
<1>1. PollInv /\ [Next]_vars => A
  BY HowAPollEnds DEF Failed, Succeeds
<1>2. PollInv /\ [Next]_vars => [A]_vars
  BY <1>1
<1>3. [][A]_vars => DataIsOfOnePoll
  BY DEF DataIsOfOnePoll
<1>4. QED
  BY <1>2, <1>3, PollInvariant, PTL DEF Spec

-----------------------------------------------------------------------------
\* The condition of an issue depends on the time for the clock only.
LEMMA OnlyTheClockAges ==
  ASSUME NEW r, r # Clock, NEW d, NEW now, NEW later
  PROVE  Active(r, d, now) <=> Active(r, d, later)
BY DEF Active

\* A comparison decides the issue of each register that was read.
LEMMA IssuesOfData ==
  ASSUME NEW d, NEW wrong, NEW elapsed
  PROVE  \A r \in Watched :
           r \in Issues(d, wrong, elapsed) <=>
             IF d[r] = Missing THEN r \in issues ELSE Active(r, d, elapsed)
<1>1. \A r \in Watched : r # "unsupported_device"
  BY RegisterAssumption
<1>2. QED
  BY <1>1 DEF Issues

\* The first poll that fails compares only the clock anew.
LEMMA FailedTells ==
  ASSUME PollInv, IssuesTellTheData, poll # Idle, Failed
  PROVE  \A r \in Watched : (r \in issues) # (r \in issues') =>
           r = Clock /\ data[r] # Missing /\ pollOk /\ ~pollOk'
<1>1. SUFFICES ASSUME NEW r \in Watched, (r \in issues) # (r \in issues')
               PROVE  r = Clock /\ data[r] # Missing /\ pollOk /\ ~pollOk'
  OBVIOUS
<1>2. pollOk /\ ~pollOk' /\ issues' = Issues(data, problem, age)
  BY <1>1 DEF Failed
<1>3. data[r] # Missing /\ (r \in issues' <=> Active(r, data, age))
  BY <1>1, <1>2, IssuesOfData
<1>4. entry = "loaded"
  BY <1>2 DEF PollInv, TypeOK
<1>5. r \in issues <=> Active(r, data, 0)
  BY <1>2, <1>3, <1>4 DEF IssuesTellTheData
<1>6. r = Clock
  BY <1>1, <1>3, <1>5, OnlyTheClockAges
<1>7. QED
  BY <1>2, <1>3, <1>6

\* The steps that touch the issues, but for the end of a poll.
LEMMA IssuesStay ==
  ASSUME PollInv, [Next]_vars, ~(poll # Idle /\ poll' = Idle)
  PROVE  \/ UNCHANGED <<entry, issues, data, pollOk>> /\ (pollOk \/ UNCHANGED age)
         \/ entry' = "setup" /\ UNCHANGED issues
         \/ entry' = "unloaded" /\ issues' = {}
<1>1. ASSUME NEW p, ReadOf(p), GoesOn(p), poll # Idle
      PROVE  UNCHANGED <<entry, issues, data, pollOk, age>>
  BY <1>1 DEF GoesOn, Failed, Succeeds, viewVars
<1>2. CASE Answered
  BY <1>1, <1>2, AnsweredReads DEF Answered
<1>3. CASE Rejected
  BY <1>1, <1>3, RejectedReads DEF Rejected
<1>4. CASE Setup \/ Unload
  BY <1>4 DEF Setup, Unload
<1>5. QED
  BY <1>2, <1>3, <1>4 DEF Next, vars, viewVars, PollStarts, ConnectionLost, Failed,
     WriteStarts, WriteEnds, DeviceChanges, Tick

\* A step keeps the issues true.
LEMMA TellsStep ==
  ASSUME PollInv, IssuesTellTheData, [Next]_vars
  PROVE  IssuesTellTheData'
<1>1. CASE poll # Idle /\ poll' = Idle /\ entry' # "unloaded"
  <2>1. CASE Failed /\ pollOk
    <3>1. entry' = "loaded" /\ ~pollOk' /\ issues' = Issues(data, problem, age)
          /\ UNCHANGED <<data, age>>
      BY <1>1, <2>1 DEF Failed, PollInv, TypeOK
    <3>2. \A r \in Watched : data'[r] # Missing => (r \in issues' <=> Active(r, data', age'))
      BY <3>1, IssuesOfData
    <3>3. QED
      BY <3>1, <3>2 DEF IssuesTellTheData
  <2>2. CASE Failed /\ ~pollOk
    <3>1. UNCHANGED <<entry, data, age, issues, pollOk>>
      BY <1>1, <2>2 DEF Failed, PollInv, TypeOK
    <3>2. QED
      BY <3>1 DEF IssuesTellTheData
  <2>3. ASSUME NEW got \in Data, Succeeds(got) PROVE IssuesTellTheData'
    <3>1. data' = got /\ pollOk' /\ entry' = "loaded" /\ issues' = Issues(got, problem', 0)
      BY <2>3 DEF Succeeds
    <3>2. \A r \in Watched : data'[r] # Missing => (r \in issues' <=> Active(r, data', 0))
      BY <3>1, IssuesOfData
    <3>3. QED
      BY <3>1, <3>2 DEF IssuesTellTheData
  <2>4. QED
    BY <1>1, <2>1, <2>2, <2>3, HowAPollEnds
<1>2. CASE entry' = "unloaded"
  <2>1. PollInv'
    BY NextKeepsInv
  <2>2. QED
    BY <1>2, <2>1 DEF PollInv, IssuesTellTheData
<1>3. CASE ~(poll # Idle /\ poll' = Idle) /\ entry' # "unloaded"
  BY <1>3, IssuesStay DEF IssuesTellTheData
<1>4. QED
  BY <1>1, <1>2, <1>3

(***************************************************************************)
(* The issues tell what the last poll read, whatever the scan interval,    *)
(* the limit of the clock and its error.                                   *)
(***************************************************************************)
THEOREM IssuesAlwaysTellTheData == Spec => []IssuesTellTheData
<1>1. Init => IssuesTellTheData
  BY DEF Init, IssuesTellTheData
<1>2. PollInv /\ IssuesTellTheData /\ [Next]_vars => IssuesTellTheData'
  BY TellsStep
<1>3. QED
  BY <1>1, <1>2, PollInvariant, PTL DEF Spec

(***************************************************************************)
(* An issue comes and goes with a reading of its register, and that of the *)
(* clock also with the first poll that fails.                              *)
(***************************************************************************)
THEOREM IssueAlwaysNeedsAReading == Spec => IssueNeedsAReading
<1> DEFINE A == \A r \in Watched : (r \in issues) # (r \in issues') =>
                  \/ entry' = "unloaded"
                  \/ poll # Idle /\ pollOk' /\ data'[r] # Missing
                  \/ r = Clock /\ data[r] # Missing /\ pollOk /\ ~pollOk'
<1>1. ASSUME PollInv, IssuesTellTheData, [Next]_vars PROVE A
  <2>1. CASE entry' = "unloaded"
    BY <2>1
  <2>2. CASE poll # Idle /\ poll' = Idle /\ entry' # "unloaded"
    <3>1. CASE Failed
      BY <1>1, <2>2, <3>1, FailedTells
    <3>2. ASSUME NEW got \in Data, Succeeds(got) PROVE A
      <4>1. pollOk' /\ data' = got /\ issues' = Issues(got, problem', 0)
        BY <3>2 DEF Succeeds
      <4>2. \A r \in Watched : got[r] = Missing => (r \in issues' <=> r \in issues)
        BY <4>1, IssuesOfData
      <4>3. QED
        BY <2>2, <4>1, <4>2
    <3>3. QED
      BY <1>1, <2>2, <3>1, <3>2, HowAPollEnds
  <2>3. CASE ~(poll # Idle /\ poll' = Idle) /\ entry' # "unloaded"
    BY <1>1, <2>3, IssuesStay
  <2>4. QED
    BY <2>1, <2>2, <2>3
<1>2. PollInv /\ IssuesTellTheData /\ [Next]_vars => [A]_vars
  BY <1>1
<1>3. [][A]_vars => IssueNeedsAReading
  BY DEF IssueNeedsAReading
<1>4. QED
  BY <1>2, <1>3, PollInvariant, IssuesAlwaysTellTheData, PTL DEF Spec
=============================================================================
