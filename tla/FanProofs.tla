----------------------------- MODULE FanProofs -----------------------------
(***************************************************************************)
(* Proofs about module Fan, for any modes, durations and queue bound.      *)
(***************************************************************************)
EXTENDS Fan, SequenceTheorems, TLAPS

-----------------------------------------------------------------------------
\* What is sent is a request after the others, or nothing is.
LEMMA SentRequests ==
  ASSUME NEW q \in Seq(Request), NEW f, NEW by, NEW reg, NEW value,
         Asked(f, by, reg, value) \in Request
  PROVE  Sent(q, f, by, reg, value) \in Seq(Request)
BY DEF Sent

\* What a poll reads.
LEMMA ReadValues ==
  ASSUME TypeOK, NEW m \in Read(mode, "speed"), NEW b \in Read(boost, "boost"),
         NEW later \in BOOLEAN
  PROVE  [mode |-> m, boost |-> b, later |-> later] \in Readings
BY DEF Read, Readings, TypeOK, Switch

\* The preset that is remembered.
LEMMA RememberedPreset ==
  ASSUME TypeOK, NEW d \in Readings
  PROVE  Remembered(d) \in Presets
BY DEF TypeOK, Remembered

\* A service call that begins to wait keeps the types.
LEMMA AwaitTypes ==
  ASSUME TypeOK, NEW kind \in {"boost", "speed", "level", "mode"},
         NEW minutes \in Durations \union {0}, NEW reg, NEW value,
         Asked("present", "call", reg, value) \in Request,
         Await(kind, minutes, reg, value)
  PROVE  queue' \in Seq(Request) /\ calls' \in [Fans -> CallState]
<1>1. [kind |-> kind, minutes |-> minutes] \in CallState
  BY DEF CallState
<1>2. QED
  BY <1>1, SentRequests DEF Await, TypeOK

\* A request that has been served.
LEMMA HeadIsRequest ==
  ASSUME TypeOK, queue # <<>>
  PROVE  /\ Head(queue) \in Request /\ Tail(queue) \in Seq(Request)
         /\ Head(queue).fan \in Fans
         /\ Head(queue).reg = "mode" => Head(queue).value \in Modes
         /\ Head(queue).reg = "boost" => Head(queue).value \in Switch
         /\ Head(queue).by = "timer" =>
              Head(queue).reg = "boost" /\ Head(queue).value = "off"
<1>1. queue \in Seq(Request)
  BY DEF TypeOK
<1>2. Head(queue) \in Request /\ Tail(queue) \in Seq(Request)
  BY <1>1
<1>3. QED
  BY <1>2 DEF Request

\* What awaited a write goes on, and keeps the types.
LEMMA SucceedsTypes ==
  ASSUME TypeOK, queue # <<>>, Succeeds(Head(queue))
  PROVE  /\ queue' \in Seq(Request) /\ calls' \in [Fans -> CallState]
         /\ timer' \in [Fans -> {Unset} \union Nat] /\ seenOn' \in BOOLEAN
         /\ poll' \in Readings \union {Idle}
         /\ timed' \in {Unset} \union Nat
         /\ told' \in {"nothing", "on", "ended"}
<1> DEFINE r == Head(queue)
<1>1. r \in Request /\ Tail(queue) \in Seq(Request) /\ r.fan \in Fans
  BY HeadIsRequest
<1>2. \A f \in Fans : calls[f].minutes \in Nat
  <2>1. \A f \in Fans : calls[f] \in CallState
    BY DEF TypeOK
  <2>2. \A c \in CallState : c.minutes \in Durations \union {0}
    BY DEF CallState
  <2>3. \A n \in Durations \union {0} : n \in Nat
    BY BoundAssumption
  <2>4. QED
    BY <2>1, <2>2, <2>3
<1>3. timer' \in [Fans -> {Unset} \union Nat]
  BY <1>1, <1>2 DEF Succeeds, TypeOK
<1>4. Asked(r.fan, "call", "level", "level") \in Request
  BY <1>1 DEF Asked, Request
<1>5. queue' \in Seq(Request)
  BY <1>1, <1>4, SentRequests DEF Succeeds
<1>6. NoCall \in CallState /\ [NoCall EXCEPT !.kind = "level"] \in CallState
  BY DEF NoCall, CallState
<1>7. calls' \in [Fans -> CallState]
  BY <1>6 DEF Succeeds, TypeOK
<1>8. poll # Idle => [poll EXCEPT !.later = FALSE] \in Readings
  BY DEF TypeOK, Readings
<1>9. poll' \in Readings \union {Idle}
  BY <1>8 DEF Succeeds, TypeOK
<1>10. seenOn' \in BOOLEAN
  BY DEF Succeeds, SeenAtStart, TypeOK
<1>11. timed' \in {Unset} \union Nat
  BY <1>3 DEF Succeeds, TypeOK, Fans
<1>12. told' \in {"nothing", "on", "ended"}
  BY DEF Succeeds, TypeOK
<1>13. QED
  BY <1>3, <1>5, <1>7, <1>9, <1>10, <1>11, <1>12

\* So does a request that fails.
LEMMA FailsTypes ==
  ASSUME TypeOK, queue # <<>>, Fails(Head(queue))
  PROVE  /\ queue' \in Seq(Request) /\ calls' \in [Fans -> CallState]
         /\ timer' \in [Fans -> {Unset} \union Nat] /\ seenOn' \in BOOLEAN
         /\ poll' \in Readings \union {Idle}
         /\ timed' \in {Unset} \union Nat
         /\ told' \in {"nothing", "on", "ended"}
<1>1. NoCall \in CallState
  BY DEF NoCall, CallState
<1>2. QED
  BY <1>1, HeadIsRequest DEF Fails, TypeOK

\* A request that is served keeps the types.
LEMMA ServedTypes ==
  ASSUME TypeOK, NEW outcome, Served(outcome)
  PROVE  TypeOK'
<1>1. queue # <<>>
  BY DEF Served
<1>2. mode' \in Modes /\ boost' \in Switch
  BY <1>1, HeadIsRequest DEF Served, Receive, TypeOK, unitVars
<1>3. Succeeds(Head(queue)) \/ Fails(Head(queue))
  BY DEF Served
<1>4. /\ queue' \in Seq(Request) /\ calls' \in [Fans -> CallState]
      /\ timer' \in [Fans -> {Unset} \union Nat] /\ seenOn' \in BOOLEAN
      /\ poll' \in Readings \union {Idle}
      /\ timed' \in {Unset} \union Nat
      /\ told' \in {"nothing", "on", "ended"}
  BY <1>1, <1>3, SucceedsTypes, FailsTypes
<1>5. speed' \in {"idle", "informed", "misled", "disturbed"}
  BY DEF Served, TypeOK
<1>6. QED
  BY <1>2, <1>4, <1>5 DEF Served, TypeOK

\* The requests of a fan that is removed.
LEMMA RemovedRequests ==
  ASSUME TypeOK, Remove
  PROVE  /\ queue' \in Seq(Request) /\ DOMAIN queue' = DOMAIN queue
         /\ \A n \in DOMAIN queue' : queue'[n].fan = "removed"
<1>1. queue \in Seq(Request)
  BY DEF TypeOK
<1>2. \A n \in 1..Len(queue) : [queue[n] EXCEPT !.fan = "removed"] \in Request
  BY <1>1 DEF Request, Fans
<1>3. queue' = [n \in 1..Len(queue) |-> [queue[n] EXCEPT !.fan = "removed"]]
  BY <1>1 DEF Remove
<1>4. \A n \in 1..Len(queue) : queue'[n].fan = "removed"
  <2>1. SUFFICES ASSUME NEW n \in 1..Len(queue) PROVE queue'[n].fan = "removed"
    OBVIOUS
  <2>2. queue[n] \in Request /\ queue'[n] = [queue[n] EXCEPT !.fan = "removed"]
    BY <1>1, <1>3
  <2>3. QED
    BY <2>2 DEF Request
<1>5. QED
  BY <1>1, <1>2, <1>3, <1>4

\* The removal of the fan keeps the types, and so does its new setup.
LEMMA ReloadTypes ==
  ASSUME TypeOK, Remove \/ Reload
  PROVE  TypeOK'
<1>1. CASE Remove
  <2>1. calls' \in [Fans -> CallState]
    BY <1>1 DEF Remove, TypeOK, Fans, NoCall, CallState
  <2>2. QED
    BY <1>1, <2>1, RemovedRequests DEF Remove, TypeOK, unitVars
<1>2. CASE Reload
  <2>1. PICK m \in Read(mode, "speed"), b \in Read(boost, "boost") :
          /\ data' = [mode |-> m, boost |-> b, later |-> FALSE]
          /\ lastMode' = IF m \in Presets THEN m ELSE "manual"
    BY <1>2 DEF Reload
  <2>2. data' \in Readings /\ lastMode' \in Presets
    BY <2>1, ReadValues, ModesAssumption DEF Presets
  <2>3. QED
    BY <1>2, <2>2 DEF Reload, TypeOK, unitVars
<1>3. QED
  BY <1>1, <1>2

(***************************************************************************)
(* Type correctness of Fan.                                                *)
(***************************************************************************)
THEOREM FanTypeCorrect == Spec => []TypeOK
<1>1. Init => TypeOK
  <2> SUFFICES ASSUME Init PROVE TypeOK
    OBVIOUS
  <2>1. mode \in Modes /\ boost \in Switch
    BY ModesAssumption DEF Init, Switch
  <2>2. data \in Readings /\ lastMode \in Presets
    BY <2>1, ModesAssumption DEF Init, Read, Readings, Presets, Switch
  <2>3. calls \in [Fans -> CallState]
    BY DEF Init, NoCall, CallState
  <2>4. topic \in Topics /\ queue \in Seq(Request) /\ poll = Idle /\ pollOk = TRUE
    BY DEF Init
  <2>5. /\ timer \in [Fans -> {Unset} \union Nat]
        /\ seenOn = FALSE /\ unloading = FALSE
    BY DEF Init
  <2>6. timed = Unset /\ told = "ended" /\ speed = "idle"
    BY DEF Init
  <2>7. QED
    BY <2>1, <2>2, <2>3, <2>4, <2>5, <2>6 DEF TypeOK
<1>2. TypeOK /\ [Next]_vars => TypeOK'
  <2> SUFFICES ASSUME TypeOK, [Next]_vars PROVE TypeOK'
    OBVIOUS
  <2>1. ASSUME NEW minutes \in Durations, Boost(minutes) PROVE TypeOK'
    <3>1. Asked("present", "call", "boost", "on") \in Request
      BY DEF Asked, Request, Fans, Switch
    <3>2. queue' \in Seq(Request) /\ calls' \in [Fans -> CallState]
      BY <2>1, <3>1, AwaitTypes DEF Boost, TypeOK
    <3>3. QED
      BY <2>1, <3>2 DEF Boost, TypeOK, unitVars, pollVars
  <2>2. CASE SetSpeed
    <3>1. /\ Asked("present", "call", "level", "level") \in Request
          /\ Asked("present", "call", "mode", "manual") \in Request
      BY ModesAssumption DEF Asked, Request, Fans
    <3>2. queue' \in Seq(Request) /\ calls' \in [Fans -> CallState]
      BY <2>2, <3>1, AwaitTypes DEF SetSpeed, SpeedCall
    <3>3. speed' \in {"informed", "misled"}
      BY <2>2 DEF SetSpeed, SpeedCall
    <3>4. QED
      BY <2>2, <3>2, <3>3 DEF SetSpeed, TypeOK, unitVars, pollVars
  <2>3. ASSUME NEW m \in Modes, SetMode(m) PROVE TypeOK'
    <3>1. Asked("present", "call", "mode", m) \in Request
      BY DEF Asked, Request, Fans
    <3>2. queue' \in Seq(Request) /\ calls' \in [Fans -> CallState]
      BY <2>3, <3>1, AwaitTypes DEF SetMode
    <3>3. QED
      BY <2>3, <3>2 DEF SetMode, TypeOK, unitVars, pollVars
  <2>4. CASE TurnOn
    BY <2>3, <2>4 DEF TurnOn, TypeOK, Presets
  <2>5. ASSUME NEW reg \in {"mode", "boost"}, NEW value, OtherWrite(reg, value),
               \A f \in Fans : Asked(f, "other", reg, value) \in Request
        PROVE  TypeOK'
    <3>1. queue' \in Seq(Request)
      BY <2>5, SentRequests DEF OtherWrite, TypeOK, Fans
    <3>2. QED
      BY <2>5, <3>1 DEF OtherWrite, TypeOK, unitVars, pollVars, fanVars
  <2>6. CASE OtherEntity
    <3>1. \A f \in Fans :
            /\ \A v \in Switch : Asked(f, "other", "boost", v) \in Request
            /\ \A m \in Modes : Asked(f, "other", "mode", m) \in Request
      BY DEF Asked, Request
    <3>2. QED
      BY <2>5, <2>6, <3>1 DEF OtherEntity
  <2>7. ASSUME NEW f \in Fans, TimeUp(f) PROVE TypeOK'
    <3>1. Asked(f, "timer", "boost", "off") \in Request
      BY DEF Asked, Request, Switch
    <3>2. queue' \in Seq(Request)
      BY <2>7, <3>1, SentRequests DEF TimeUp, TypeOK
    <3>3. QED
      BY <2>7, <3>2 DEF TimeUp, TypeOK, unitVars, pollVars
  <2>8. ASSUME NEW outcome, Served(outcome) PROVE TypeOK'
    BY <2>8, ServedTypes
  <2>9. CASE PollReads
    <3>1. poll' \in Readings
      BY <2>9, ReadValues DEF PollReads
    <3>2. QED
      BY <2>9, <3>1 DEF PollReads, TypeOK, unitVars, fanVars
  <2>10. ASSUME NEW d \in Readings, Update(d)
         PROVE  /\ lastMode' \in Presets /\ seenOn' \in BOOLEAN
                /\ timer' \in [Fans -> {Unset} \union Nat]
    BY <2>10, RememberedPreset DEF Update, TypeOK
  <2>11. CASE PollEnds
    <3>1. poll \in Readings
      BY <2>11 DEF PollEnds, TypeOK
    <3>2. QED
      BY <2>10, <2>11, <3>1 DEF PollEnds, TypeOK, unitVars
  <2>12. CASE PollFails
    <3>1. data \in Readings
      BY DEF TypeOK
    <3>2. /\ lastMode' \in Presets /\ seenOn' \in BOOLEAN
          /\ timer' \in [Fans -> {Unset} \union Nat]
      BY <2>10, <2>12, <3>1 DEF PollFails, TypeOK
    <3>3. QED
      BY <2>12, <3>2 DEF PollFails, TypeOK, unitVars
  <2>13. CASE Panel
    BY <2>13 DEF Panel, TypeOK, pollVars, fanVars
  <2>14. CASE Remove \/ Reload
    BY <2>14, ReloadTypes
  <2>15. CASE Tick
    BY <2>15 DEF Tick, TypeOK, unitVars, pollVars, Unset
  <2>16. CASE UNCHANGED vars
    BY <2>16 DEF vars, unitVars, pollVars, fanVars, TypeOK
  <2>17. QED
    BY <2>1, <2>2, <2>3, <2>4, <2>6, <2>7, <2>8, <2>9, <2>11, <2>12, <2>13,
       <2>14, <2>15, <2>16 DEF Next
<1>3. QED
  BY <1>1, <1>2, PTL DEF Spec

-----------------------------------------------------------------------------
(***************************************************************************)
(* A boost that polls saw running since the timer was set is one of which  *)
(* _follow_boost knows that it was on: what makes KnownEndDropsTheTimer    *)
(* inductive.                                                              *)
(***************************************************************************)
KnownInv ==
  /\ KnownEndDropsTheTimer
  /\ told = "on" => seenOn \/ timer.present = Unset

\* A request that is served keeps it.
LEMMA ServedKnown ==
  ASSUME TypeOK, KnownInv, NEW outcome, Served(outcome)
  PROVE  KnownInv'
<1> DEFINE r == Head(queue)
<1>1. "present" \in Fans
  BY DEF Fans
<1>2. CASE Fails(r)
  BY <1>2 DEF Fails, KnownInv, KnownEndDropsTheTimer
<1>3. CASE Succeeds(r)
  <2>1. CASE StartsTimed(r) /\ r.fan = "present"
    BY <1>3, <2>1 DEF Succeeds, KnownInv, KnownEndDropsTheTimer
  <2>2. CASE ~(StartsTimed(r) /\ r.fan = "present")
    <3>1. /\ timer'.present = IF EndsBoost(r) THEN Unset ELSE timer.present
          /\ told' = IF EndsBoost(r) THEN "ended" ELSE told
          /\ seenOn' = seenOn
      BY <1>1, <1>3, <2>2 DEF Succeeds, Notice
    <3>2. QED
      BY <3>1 DEF KnownInv, KnownEndDropsTheTimer
  <2>3. QED
    BY <2>1, <2>2
<1>4. QED
  BY <1>2, <1>3 DEF Served

(***************************************************************************)
(* Once a timed boost is known to have ended, its timer is gone.           *)
(***************************************************************************)
THEOREM KnownEndAlwaysDropsTheTimer == Spec => []KnownEndDropsTheTimer
<1>1. Init => KnownInv
  BY DEF Init, KnownInv, KnownEndDropsTheTimer, Fans
<1>2. TypeOK /\ KnownInv /\ [Next]_vars => KnownInv'
  <2> SUFFICES ASSUME TypeOK, KnownInv, [Next]_vars PROVE KnownInv'
    OBVIOUS
  <2> USE DEF KnownInv, KnownEndDropsTheTimer
  <2>1. "present" \in Fans /\ timer \in [Fans -> {Unset} \union Nat]
    BY DEF Fans, TypeOK
  <2>2. ASSUME NEW minutes \in Durations, Boost(minutes) PROVE KnownInv'
    BY <2>1, <2>2 DEF Boost
  <2>3. CASE SetSpeed
    BY <2>3 DEF SetSpeed
  <2>4. ASSUME NEW m, SetMode(m) PROVE KnownInv'
    BY <2>4 DEF SetMode
  <2>5. CASE TurnOn
    BY <2>4, <2>5 DEF TurnOn
  <2>6. CASE OtherEntity
    BY <2>6 DEF OtherEntity, OtherWrite, fanVars
  <2>7. ASSUME NEW f \in Fans, TimeUp(f) PROVE KnownInv'
    BY <2>1, <2>7 DEF TimeUp
  <2>8. ASSUME NEW outcome, Served(outcome) PROVE KnownInv'
    BY <2>8, ServedKnown
  <2>9. CASE PollReads
    BY <2>9 DEF PollReads, fanVars
  <2>10. CASE PollEnds
    BY <2>1, <2>10 DEF PollEnds, Update, Dropped
  <2>11. CASE PollFails
    BY <2>1, <2>11 DEF PollFails, Update, Dropped
  <2>12. CASE Panel
    BY <2>12 DEF Panel, fanVars
  <2>13. CASE Remove \/ Reload
    BY <2>1, <2>13 DEF Remove, Reload
  <2>14. CASE Tick
    BY <2>1, <2>14 DEF Tick, Unset
  <2>15. CASE UNCHANGED vars
    BY <2>15 DEF vars, fanVars
  <2>16. QED
    BY <2>2, <2>3, <2>4, <2>5, <2>6, <2>7, <2>8, <2>9, <2>10, <2>11, <2>12,
       <2>13, <2>14, <2>15 DEF Next
<1>3. KnownInv => KnownEndDropsTheTimer
  BY DEF KnownInv
<1>4. QED
  BY <1>1, <1>2, <1>3, FanTypeCorrect, PTL DEF Spec

-----------------------------------------------------------------------------
\* The requests of a removed fan come first.
Ordered(q) ==
  \A n \in DOMAIN q : q[n].fan = "removed" => \A m \in 1..n : q[m].fan = "removed"

\* All requests are of one fan.
AllOf(q, f) == \A n \in DOMAIN q : q[n].fan = f

\* While the fan is removed and its hub still open, everything that waits is
\* of the removed fan, and nobody is there to add anything else.
Window ==
  unloading => /\ timed = Unset /\ timer.present = Unset /\ calls.present = NoCall
               /\ AllOf(queue, "removed")

(***************************************************************************)
(* What is sent between the removal of the fan and the end of its hub      *)
(* (Window) is what makes RemovedFanIsDone inductive: after the end only   *)
(* the fan that is there adds requests, behind those.                      *)
(***************************************************************************)
RemovedInv ==
  /\ Ordered(queue)
  /\ timed # Unset => AllOf(queue, "present")
  /\ Window

\* A queue after a request was added, or served.
LEMMA OrderedAfter ==
  ASSUME NEW q \in Seq(Request), Ordered(q)
  PROVE  /\ \A r \in Request : r.fan = "present" =>
              /\ Ordered(Append(q, r))
              /\ AllOf(q, "present") => AllOf(Append(q, r), "present")
         /\ \A r \in Request : r.fan = "removed" /\ AllOf(q, "removed") =>
              Ordered(Append(q, r)) /\ AllOf(Append(q, r), "removed")
         /\ q # <<>> => /\ Ordered(Tail(q))
                        /\ \A f \in Fans : AllOf(q, f) => AllOf(Tail(q), f)
         /\ q # <<>> /\ Head(q).fan = "present" => AllOf(Tail(q), "present")
<1>1. ASSUME NEW r \in Request
      PROVE  /\ DOMAIN Append(q, r) = 1..(Len(q) + 1) /\ Len(q) \in Nat
             /\ DOMAIN q = 1..Len(q)
             /\ \A n \in 1..Len(q) : Append(q, r)[n] = q[n]
             /\ Append(q, r)[Len(q) + 1] = r
  BY <1>1
<1>2. ASSUME NEW r \in Request, NEW f \in Fans, r.fan = f, AllOf(q, f)
      PROVE  AllOf(Append(q, r), f)
  BY <1>1, <1>2 DEF AllOf
<1>3. ASSUME NEW r \in Request, r.fan = "present" PROVE Ordered(Append(q, r))
  <2>1. \A n \in DOMAIN Append(q, r) : Append(q, r)[n].fan = "removed" =>
          n \in DOMAIN q /\ q[n].fan = "removed" /\ 1..n \subseteq DOMAIN q
    BY <1>1, <1>3
  <2>2. QED
    BY <1>1, <2>1 DEF Ordered
<1>4. ASSUME NEW s \in Seq(Request), AllOf(s, "removed") PROVE Ordered(s)
  <2>1. \A n \in DOMAIN s : 1..n \subseteq DOMAIN s
    BY <1>4
  <2>2. QED
    BY <1>4, <2>1 DEF AllOf, Ordered
<1>5. ASSUME q # <<>>
      PROVE  /\ \A n \in DOMAIN Tail(q) : /\ n + 1 \in DOMAIN q /\ Tail(q)[n] = q[n + 1]
                                         /\ 1..n \subseteq DOMAIN Tail(q)
                                         /\ 1 \in 1..(n + 1)
             /\ \A n \in DOMAIN Tail(q) : \A m \in 1..n : m + 1 \in 1..(n + 1)
             /\ Head(q) = q[1]
  BY <1>5
<1>6. ASSUME q # <<>> PROVE Ordered(Tail(q))
  BY <1>5, <1>6 DEF Ordered
<1>7. ASSUME q # <<>>, NEW f \in Fans, AllOf(q, f) PROVE AllOf(Tail(q), f)
  BY <1>5, <1>7 DEF AllOf
<1>8. ASSUME q # <<>>, Head(q).fan = "present" PROVE AllOf(Tail(q), "present")
  <2>1. SUFFICES ASSUME NEW n \in DOMAIN Tail(q) PROVE q[n + 1].fan = "present"
    BY <1>5, <1>8 DEF AllOf
  <2>2. n + 1 \in DOMAIN q /\ q[n + 1] \in Request /\ 1 \in 1..(n + 1)
    BY <1>5, <1>8
  <2>3. q[n + 1].fan \in {"present", "removed"}
    BY <2>2 DEF Request, Fans
  <2>4. q[n + 1].fan # "removed"
    BY <1>5, <1>8, <2>2 DEF Ordered
  <2>5. QED
    BY <2>3, <2>4
<1>9. "present" \in Fans /\ "removed" \in Fans
  BY DEF Fans
<1>10. \A r \in Request : Append(q, r) \in Seq(Request)
  OBVIOUS
<1>11. QED
  BY <1>2, <1>3, <1>4, <1>6, <1>7, <1>8, <1>9, <1>10

\* A step that sends at most one request, in the window one of the removed fan.
LEMMA SendingRemoved ==
  ASSUME TypeOK, RemovedInv, UNCHANGED unloading,
         timed' \in {timed, Unset}, timer'.present \in {timer.present, Unset},
         unloading => calls'.present = calls.present,
         NEW f \in Fans, NEW by, NEW reg, NEW value, unloading => f = "removed",
         Asked(f, by, reg, value) \in Request,
         queue' \in {queue, Sent(queue, f, by, reg, value)}
  PROVE  RemovedInv'
<1> DEFINE r == Asked(f, by, reg, value)
<1>1. r.fan = f /\ queue \in Seq(Request)
  BY DEF Asked, TypeOK
<1>2. queue' = queue \/ (queue' = Append(queue, r) /\ (f = "present" \/ unloading))
  BY DEF Sent
<1> HIDE DEF r
<1>3. r \in Request
  BY DEF r
<1>4. CASE queue' = queue
  BY <1>4 DEF RemovedInv, Window
<1>5. CASE queue' = Append(queue, r) /\ ~unloading /\ f = "present"
  <2>1. Ordered(queue') /\ (AllOf(queue, "present") => AllOf(queue', "present"))
    BY <1>1, <1>3, <1>5, OrderedAfter DEF RemovedInv
  <2>2. QED
    BY <1>5, <2>1 DEF RemovedInv, Window
<1>6. CASE queue' = Append(queue, r) /\ unloading
  <2>1. Ordered(queue') /\ AllOf(queue', "removed")
    BY <1>1, <1>3, <1>6, OrderedAfter DEF RemovedInv, Window
  <2>2. QED
    BY <1>6, <2>1 DEF RemovedInv, Window
<1>7. QED
  BY <1>2, <1>4, <1>5, <1>6

\* A request that is served.
LEMMA ServedRemoved ==
  ASSUME TypeOK, RemovedInv, NEW outcome, Served(outcome)
  PROVE  RemovedInv'
<1> DEFINE r == Head(queue)
           q == Tail(queue)
           x == Asked(r.fan, "call", "level", "level")
<1>1. /\ queue # <<>> /\ queue \in Seq(Request) /\ r \in Request
      /\ q \in Seq(Request) /\ r.fan \in Fans /\ "present" \in Fans
  BY HeadIsRequest DEF Served, TypeOK, Fans
<1>2. x \in Request /\ x.fan = r.fan
  BY <1>1 DEF Asked, Request
<1>3. /\ Ordered(q) /\ \A f \in Fans : AllOf(queue, f) => AllOf(q, f)
      /\ r.fan = "present" => AllOf(q, "present")
  BY <1>1, OrderedAfter DEF RemovedInv
<1>4. unloading => r.fan = "removed"
  <2>1. 1 \in DOMAIN queue /\ r = queue[1]
    BY <1>1
  <2>2. QED
    BY <2>1 DEF RemovedInv, Window, AllOf
<1>5. timed' # Unset => timed # Unset \/ r.fan = "present"
  BY DEF Served, Succeeds, Fails
<1>6. unloading => calls'.present = calls.present /\ timer'.present \in {timer.present, Unset}
  <2>1. CASE Fails(r)
    BY <1>1, <1>4, <2>1 DEF Fails, TypeOK
  <2>2. CASE Succeeds(r)
    BY <1>1, <1>4, <2>2 DEF Succeeds, TypeOK
  <2>3. QED
    BY <2>1, <2>2 DEF Served
<1>7. queue' = q \/ (queue' = Append(q, x) /\ (r.fan = "present" \/ unloading))
  BY DEF Served, Succeeds, Fails, Sent
<1>8. UNCHANGED unloading
  BY DEF Served
<1> HIDE DEF r, q, x
<1>9. AllOf(queue, "present") /\ timed # Unset => r.fan = "present"
  <2>1. 1 \in DOMAIN queue /\ r = queue[1]
    BY <1>1 DEF r
  <2>2. QED
    BY <2>1 DEF AllOf
<1>10. CASE queue' = q
  <2>1. timed' # Unset => AllOf(q, "present")
    BY <1>1, <1>3, <1>5 DEF RemovedInv
  <2>2. unloading => /\ timed' = Unset /\ AllOf(q, "removed")
                     /\ calls'.present = NoCall /\ timer'.present = Unset
    BY <1>3, <1>4, <1>5, <1>6 DEF RemovedInv, Window, Fans
  <2>3. QED
    BY <1>3, <1>8, <1>10, <2>1, <2>2 DEF RemovedInv, Window
<1>11. CASE queue' = Append(q, x) /\ r.fan = "present"
  <2>1. Ordered(queue') /\ AllOf(queue', "present")
    BY <1>1, <1>2, <1>3, <1>11, OrderedAfter
  <2>2. QED
    BY <1>4, <1>8, <1>11, <2>1 DEF RemovedInv, Window
<1>12. CASE queue' = Append(q, x) /\ unloading
  <2>1. AllOf(q, "removed")
    BY <1>1, <1>3, <1>12 DEF RemovedInv, Window, Fans
  <2>2. Ordered(queue') /\ AllOf(queue', "removed")
    BY <1>1, <1>2, <1>3, <1>4, <1>12, <2>1, OrderedAfter
  <2>3. timed' = Unset
    BY <1>4, <1>5, <1>12 DEF RemovedInv, Window
  <2>4. QED
    BY <1>6, <1>8, <1>12, <2>2, <2>3 DEF RemovedInv, Window
<1>13. QED
  BY <1>7, <1>10, <1>11, <1>12

\* The order of the requests is kept by every step.
LEMMA RemovedInvariant == Spec => []RemovedInv
<1>1. Init => RemovedInv
  BY DEF Init, RemovedInv, Window, Ordered, AllOf
<1>2. TypeOK /\ RemovedInv /\ [Next]_vars => RemovedInv'
  <2> SUFFICES ASSUME TypeOK, RemovedInv, [Next]_vars PROVE RemovedInv'
    OBVIOUS
  <2>1. "present" \in Fans /\ "removed" \in Fans /\ timer \in [Fans -> {Unset} \union Nat]
    BY DEF Fans, TypeOK
  <2>2. /\ Asked("present", "call", "boost", "on") \in Request
        /\ Asked("present", "call", "level", "level") \in Request
        /\ \A m \in Modes : Asked("present", "call", "mode", m) \in Request
        /\ \A f \in Fans :
             /\ \A m \in Modes : Asked(f, "other", "mode", m) \in Request
             /\ \A v \in Switch : Asked(f, "other", "boost", v) \in Request
             /\ Asked(f, "timer", "boost", "off") \in Request
    BY DEF Asked, Request, Fans, Switch
  <2>3. ASSUME UNCHANGED <<queue, unloading, timed>>,
               timer'.present \in {timer.present, Unset} \/ ~unloading,
               UNCHANGED calls
        PROVE  RemovedInv'
    BY <2>3 DEF RemovedInv, Window
  <2>4. ASSUME NEW minutes \in Durations, Boost(minutes) PROVE RemovedInv'
    <3>1. ~unloading /\ unloading' = unloading /\ timed' = Unset
          /\ timer'.present = Unset
      BY <2>1, <2>4 DEF Boost, CanCall
    <3>2. queue' \in {queue, Sent(queue, "present", "call", "boost", "on")}
      BY <2>4 DEF Boost, Await
    <3>3. QED
      BY <2>1, <2>2, <3>1, <3>2, SendingRemoved
  <2>5. ASSUME NEW kind, NEW reg, NEW value, CanCall, Await(kind, 0, reg, value),
               Asked("present", "call", reg, value) \in Request,
               UNCHANGED <<unloading, timed, timer>>
        PROVE  RemovedInv'
    BY <2>1, <2>5, SendingRemoved DEF CanCall, Await
  <2>6. CASE SetSpeed
    BY <2>2, <2>5, <2>6, ModesAssumption DEF SetSpeed, SpeedCall
  <2>7. ASSUME NEW m \in Modes, SetMode(m) PROVE RemovedInv'
    BY <2>2, <2>5, <2>7 DEF SetMode
  <2>8. CASE TurnOn
    BY <2>7, <2>8 DEF TurnOn, TypeOK, Presets
  <2>9. ASSUME NEW reg, NEW value, OtherWrite(reg, value),
               \A f \in Fans : Asked(f, "other", reg, value) \in Request
        PROVE  RemovedInv'
    <3>1. PICK f \in Fans : /\ unloading => f = "removed"
                            /\ queue' = Sent(queue, f, "other", reg, value)
      BY <2>1, <2>9 DEF OtherWrite
    <3>2. QED
      BY <2>9, <3>1, SendingRemoved DEF OtherWrite, fanVars
  <2>10. CASE OtherEntity
    BY <2>2, <2>9, <2>10 DEF OtherEntity
  <2>11. ASSUME NEW f \in Fans, TimeUp(f) PROVE RemovedInv'
    <3>1. unloading => f = "removed"
      BY <2>11 DEF TimeUp, RemovedInv, Window, Unset, Fans
    <3>2. timed' \in {timed, Unset} /\ timer'.present \in {timer.present, Unset}
      BY <2>1, <2>11 DEF TimeUp
    <3>3. /\ queue' \in {queue, Sent(queue, f, "timer", "boost", "off")}
          /\ UNCHANGED <<unloading, calls>>
      BY <2>11 DEF TimeUp
    <3>4. QED
      BY <2>2, <2>11, <3>1, <3>2, <3>3, SendingRemoved
  <2>12. ASSUME NEW outcome, Served(outcome) PROVE RemovedInv'
    BY <2>12, ServedRemoved
  <2>13. CASE PollReads
    BY <2>3, <2>13 DEF PollReads, fanVars
  <2>14. CASE PollEnds \/ PollFails
    BY <2>1, <2>3, <2>14 DEF PollEnds, PollFails, Update
  <2>15. CASE Panel
    <3>1. timed' \in {timed, Unset} /\ UNCHANGED <<queue, unloading, calls, timer>>
      BY <2>15 DEF Panel, fanVars
    <3>2. QED
      BY <3>1 DEF RemovedInv, Window
  <2>16. CASE Remove
    <3>1. AllOf(queue', "removed") /\ Ordered(queue')
      <4>1. queue' \in Seq(Request) /\ \A n \in DOMAIN queue' : queue'[n].fan = "removed"
        BY <2>16, RemovedRequests
      <4>2. \A n \in DOMAIN queue' : 1..n \subseteq DOMAIN queue'
        BY <4>1
      <4>3. QED
        BY <4>1, <4>2 DEF AllOf, Ordered
    <3>2. /\ timed' = Unset /\ timer'.present = Unset
          /\ calls'.present = NoCall
      BY <2>1, <2>16 DEF Remove
    <3>3. QED
      BY <3>1, <3>2 DEF RemovedInv, Window
  <2>17. CASE Reload
    BY <2>17 DEF Reload, RemovedInv, Window
  <2>18. CASE Tick
    <3>1. UNCHANGED <<queue, unloading, calls>>
      BY <2>18 DEF Tick
    <3>2. /\ timed = Unset => timed' = Unset
          /\ timer.present = Unset => timer'.present = Unset
      BY <2>1, <2>18 DEF Tick, Unset
    <3>3. QED
      BY <3>1, <3>2 DEF RemovedInv, Window
  <2>19. CASE UNCHANGED vars
    BY <2>3, <2>19 DEF vars, fanVars
  <2>20. QED
    BY <2>4, <2>6, <2>7, <2>8, <2>10, <2>11, <2>12, <2>13, <2>14, <2>15, <2>16,
       <2>17, <2>18, <2>19 DEF Next
<1>3. QED
  BY <1>1, <1>2, FanTypeCorrect, PTL DEF Spec

(***************************************************************************)
(* A removed fan is done before the new one's timed boost runs.            *)
(***************************************************************************)
THEOREM RemovedFanIsAlwaysDone == Spec => []RemovedFanIsDone
<1>1. RemovedInv => RemovedFanIsDone
  BY DEF RemovedInv, RemovedFanIsDone, Ordered, AllOf
<1>2. QED
  BY <1>1, RemovedInvariant, PTL

-----------------------------------------------------------------------------
\* The write that ends the timed boost is in a queue.
Ending(q) == \E n \in DOMAIN q : q[n].by = "timer" /\ q[n].fan = "present"

\* It stays there when something is sent, and until its turn comes.
LEMMA EndingStays ==
  ASSUME NEW q \in Seq(Request), Ending(q)
  PROVE  /\ \A f, by, reg, value :
              Asked(f, by, reg, value) \in Request => Ending(Sent(q, f, by, reg, value))
         /\ q # <<>> /\ ~(Head(q).by = "timer" /\ Head(q).fan = "present")
              => Ending(Tail(q))
<1>1. PICK n \in 1..Len(q) : q[n].by = "timer" /\ q[n].fan = "present"
  BY DEF Ending
<1>2. ASSUME NEW r \in Request PROVE Ending(Append(q, r))
  <2>1. n \in DOMAIN Append(q, r) /\ Append(q, r)[n] = q[n]
    BY <1>1, <1>2
  <2>2. QED
    BY <1>1, <2>1 DEF Ending
<1>3. ASSUME q # <<>>, ~(Head(q).by = "timer" /\ Head(q).fan = "present")
      PROVE  Ending(Tail(q))
  <2>1. n # 1
    BY <1>1, <1>3
  <2>2. n - 1 \in DOMAIN Tail(q) /\ Tail(q)[n - 1] = q[n]
    BY <1>1, <1>3, <2>1
  <2>3. QED
    BY <1>1, <2>2 DEF Ending
<1>4. QED
  BY <1>2, <1>3 DEF Sent, Ending

(***************************************************************************)
(* A timed boost that nothing has ended is on; once it was seen on, no     *)
(* poll, neither the last one nor the one in progress, has seen it off: it *)
(* read after the timer was set.  So _follow_boost does not drop the timer.*)
(***************************************************************************)
TimedInv ==
  /\ TimedBoostKeepsItsTimer
  /\ timed # Unset => boost = "on"
  /\ timed # Unset /\ seenOn =>
       data.boost # "off" /\ (poll # Idle => poll.boost # "off")

\* TimedBoostKeepsItsTimer in terms of the queue.
LEMMA KeepsItsTimer ==
  TimedBoostKeepsItsTimer <=>
    (timed # Unset => timer.present = timed \/ (timed = 0 /\ Ending(queue)))
BY DEF TimedBoostKeepsItsTimer, Ending

\* A step that leaves the boost alone and at most sends a request.
LEMMA SendingKeepsTimed ==
  ASSUME TypeOK, TimedInv, UNCHANGED <<boost, data, timed, seenOn>>,
         timer'.present = timer.present,
         NEW f, NEW by, NEW reg, NEW value, Asked(f, by, reg, value) \in Request,
         queue' \in {queue, Sent(queue, f, by, reg, value)},
         poll' = poll \/ poll' = Idle \/ poll'.boost \in {boost, "none"}
  PROVE  TimedInv'
<1>1. Ending(queue) => Ending(queue')
  BY EndingStays DEF TypeOK
<1>2. TimedBoostKeepsItsTimer'
  BY <1>1, KeepsItsTimer DEF TimedInv, TimedBoostKeepsItsTimer, Ending
<1>3. QED
  BY <1>2 DEF TimedInv

\* A request that is served keeps the timer with its boost.
LEMMA ServedTimed ==
  ASSUME TypeOK, TimedInv, NEW outcome, Served(outcome)
  PROVE  TimedInv'
<1> DEFINE r == Head(queue)
<1>1. queue # <<>> /\ r \in Request /\ Tail(queue) \in Seq(Request) /\ queue \in Seq(Request)
  BY HeadIsRequest DEF Served, TypeOK
<1>2. "present" \in Fans /\ Unset \notin Nat
  BY DEF Fans, Unset
<1>3. boost' \in Switch /\ (boost' = boost \/ (r.reg = "boost" /\ boost' = r.value))
  BY <1>1, HeadIsRequest DEF Served, Receive, TypeOK, unitVars
<1>4. CASE boost' = "off"
  <2>1. timed' = Unset
    BY <1>4 DEF Served, Succeeds, Fails
  <2>2. QED
    BY <2>1 DEF TimedInv, TimedBoostKeepsItsTimer
<1>5. CASE boost' # "off" /\ Fails(r)
  <2>1. CASE r.by = "timer"
    BY <1>5, <2>1 DEF Fails, TimedInv, TimedBoostKeepsItsTimer
  <2>2. CASE r.by # "timer"
    <3>1. Ending(queue) => Ending(queue')
      BY <1>1, <1>5, <2>2, EndingStays DEF Fails
    <3>2. /\ timed' = timed /\ boost' = "on"
          /\ UNCHANGED <<timer, seenOn, poll, data>>
      BY <1>3, <1>5, <2>2 DEF Fails, Switch, Served
    <3>3. TimedBoostKeepsItsTimer'
      BY <3>1, <3>2, KeepsItsTimer DEF TimedInv, TimedBoostKeepsItsTimer, Ending
    <3>4. QED
      BY <3>2, <3>3 DEF TimedInv
  <2>3. QED
    BY <2>1, <2>2
<1>6. CASE boost' # "off" /\ Succeeds(r)
  <2>1. boost' = "on" /\ UNCHANGED data
    BY <1>3, <1>6 DEF Switch, Served
  <2>2. CASE StartsTimed(r) /\ r.fan = "present"
    <3>1. timed' = timer'.present /\ seenOn' = FALSE
      BY <1>6, <2>2 DEF Succeeds, SeenAtStart
    <3>2. QED
      BY <2>1, <3>1 DEF TimedInv, TimedBoostKeepsItsTimer
  <2>3. CASE ~(StartsTimed(r) /\ r.fan = "present") /\ outcome = "done"
    <3>1. ~EndsBoost(r)
      BY <1>6, <2>3 DEF EndsBoost, Served, Receive
    <3>2. /\ timer'.present = timer.present
          /\ UNCHANGED <<timed, seenOn, poll>>
      BY <1>2, <1>6, <2>3, <3>1 DEF Succeeds, Notice, TypeOK
    <3>3. ~(r.by = "timer" /\ r.fan = "present")
      BY <1>1, <3>1, HeadIsRequest DEF EndsBoost
    <3>4. Asked(r.fan, "call", "level", "level") \in Request
      BY <1>1, HeadIsRequest DEF Asked, Request
    <3>5. Ending(queue) => Ending(Tail(queue))
      BY <1>1, <3>3, EndingStays
    <3>6. queue' \in {Tail(queue), Sent(Tail(queue), r.fan, "call", "level", "level")}
      BY <1>6 DEF Succeeds
    <3>7. Ending(queue) => Ending(queue')
      BY <1>1, <3>4, <3>5, <3>6, EndingStays
    <3>8. TimedBoostKeepsItsTimer'
      BY <3>2, <3>7, KeepsItsTimer DEF TimedInv, TimedBoostKeepsItsTimer, Ending
    <3>9. QED
      BY <2>1, <3>2, <3>8 DEF TimedInv
  <2>4. CASE outcome # "done"
    <3>1. Fails(r)
      BY <2>4 DEF Served
    <3>2. QED
      BY <1>5, <1>6, <3>1
  <2>5. QED
    BY <2>2, <2>3, <2>4
<1>7. QED
  BY <1>4, <1>5, <1>6 DEF Served

\* So does a poll that ends, or that fails with the data of the one before.
LEMMA UpdateTimed ==
  ASSUME TypeOK, TimedInv, PollEnds \/ PollFails
  PROVE  TimedInv'
<1>1. "present" \in Fans /\ UNCHANGED <<boost, queue, timed>> /\ poll' = Idle
  BY DEF PollEnds, PollFails, unitVars, Fans
<1>2. CASE PollFails /\ ~pollOk
  BY <1>1, <1>2 DEF PollFails, TimedInv, TimedBoostKeepsItsTimer
<1>3. CASE timed = Unset
  BY <1>1, <1>3 DEF TimedInv, TimedBoostKeepsItsTimer
<1>4. CASE timed # Unset /\ ~(PollFails /\ ~pollOk)
  <2>1. PICK d : Update(d) /\ data' = d /\ (seenOn => d.boost # "off")
    BY <1>4 DEF PollEnds, PollFails, TimedInv
  <2>2. timer' = timer
    BY <2>1 DEF Update, Dropped
  <2>3. seenOn' => data'.boost # "off"
    BY <2>1 DEF Update
  <2>4. TimedBoostKeepsItsTimer'
    BY <1>1, <2>2 DEF TimedInv, TimedBoostKeepsItsTimer
  <2>5. QED
    BY <1>1, <1>4, <2>3, <2>4 DEF TimedInv
<1>5. QED
  BY <1>2, <1>3, <1>4

\* And time, the panel of the unit and a reload.
LEMMA TimeTimed ==
  ASSUME TypeOK, Window, TimedInv, Tick \/ Panel \/ Remove \/ Reload
  PROVE  TimedInv'
<1>1. "present" \in Fans /\ timer.present \in {Unset} \union Nat
      /\ timed \in {Unset} \union Nat
  BY DEF Fans, TypeOK
<1>2. CASE Tick
  <2>1. UNCHANGED <<boost, queue, seenOn, data, poll>>
    BY <1>2 DEF Tick, unitVars, pollVars
  <2>2. /\ timer.present # 0
        /\ timer'.present = IF timer.present > 0 THEN timer.present - 1 ELSE timer.present
        /\ timed' = IF timed > 0 THEN timed - 1 ELSE timed
    BY <1>1, <1>2 DEF Tick
  <2>3. timed' # Unset => timed # Unset
    BY <1>1, <2>2 DEF Unset
  <2>4. timer.present = timed => timer'.present = timed'
    BY <2>2
  <2>5. timed = 0 => timed' = 0
    BY <2>2
  <2>6. TimedBoostKeepsItsTimer'
    BY <2>1, <2>3, <2>4, <2>5 DEF TimedInv, TimedBoostKeepsItsTimer
  <2>7. QED
    BY <2>1, <2>3, <2>6 DEF TimedInv
<1>3. CASE Panel
  <2>1. UNCHANGED <<queue, seenOn, data, poll, timer>>
    BY <1>3 DEF Panel, pollVars, fanVars
  <2>2. boost' \in Switch /\ timed' = IF boost' = "off" THEN Unset ELSE timed
    BY <1>3 DEF Panel, TypeOK
  <2>3. timed' # Unset => timed' = timed /\ boost' = "on"
    BY <2>2 DEF Switch
  <2>4. QED
    BY <2>1, <2>3 DEF TimedInv, TimedBoostKeepsItsTimer
<1>4. CASE Remove
  BY <1>4 DEF Remove, TimedInv, TimedBoostKeepsItsTimer
\* No timed boost runs before the first poll of a new setup.
<1>5. CASE Reload
  BY <1>5 DEF Reload, Window, TimedInv, TimedBoostKeepsItsTimer
<1>6. QED
  BY <1>2, <1>3, <1>4, <1>5

\* Every step keeps the timer with its boost.
LEMMA NextTimed ==
  ASSUME TypeOK, Window, TimedInv, [Next]_vars
  PROVE  TimedInv'
<1>1. "present" \in Fans /\ timer \in [Fans -> {Unset} \union Nat]
  BY DEF Fans, TypeOK
<1>2. ASSUME NEW minutes \in Durations, Boost(minutes) PROVE TimedInv'
  BY <1>2 DEF Boost, TimedInv, TimedBoostKeepsItsTimer
<1>3. ASSUME NEW kind, NEW reg, NEW value, Await(kind, 0, reg, value),
             Asked("present", "call", reg, value) \in Request,
             UNCHANGED <<unitVars, pollVars, timer, seenOn, timed>>
      PROVE  TimedInv'
  BY <1>3, SendingKeepsTimed DEF Await, unitVars, pollVars
<1>4. CASE SetSpeed
  <2>1. /\ Asked("present", "call", "level", "level") \in Request
        /\ Asked("present", "call", "mode", "manual") \in Request
    BY ModesAssumption DEF Asked, Request, Fans
  <2>2. QED
    BY <1>3, <1>4, <2>1 DEF SetSpeed, SpeedCall
<1>5. ASSUME NEW m \in Modes, SetMode(m) PROVE TimedInv'
  <2>1. Asked("present", "call", "mode", m) \in Request
    BY DEF Asked, Request, Fans
  <2>2. QED
    BY <1>3, <1>5, <2>1 DEF SetMode
<1>6. CASE TurnOn
  BY <1>5, <1>6 DEF TurnOn, TypeOK, Presets
<1>7. ASSUME NEW reg, NEW value, OtherWrite(reg, value),
             \A f \in Fans : Asked(f, "other", reg, value) \in Request
      PROVE  TimedInv'
  BY <1>7, SendingKeepsTimed DEF OtherWrite, unitVars, pollVars, fanVars, Fans
<1>8. CASE OtherEntity
  <2>1. \A f \in Fans :
          /\ \A v \in Switch : Asked(f, "other", "boost", v) \in Request
          /\ \A m \in Modes : Asked(f, "other", "mode", m) \in Request
    BY DEF Asked, Request
  <2>2. QED
    BY <1>7, <1>8, <2>1 DEF OtherEntity
<1>9. ASSUME NEW f \in Fans, TimeUp(f), f = "removed" PROVE TimedInv'
  <2>1. timer'.present = timer.present /\ timed' = timed
    BY <1>1, <1>9 DEF TimeUp
  <2>2. Asked(f, "timer", "boost", "off") \in Request
    BY DEF Asked, Request, Switch
  <2>3. QED
    BY <1>9, <2>1, <2>2, SendingKeepsTimed DEF TimeUp, unitVars, pollVars
<1>10. CASE TimeUp("present")
  <2>1. CASE timed' = Unset
    BY <2>1 DEF TimedInv, TimedBoostKeepsItsTimer
  <2>2. CASE timed' # Unset
    <3> DEFINE r == Asked("present", "timer", "boost", "off")
    <3>1. timed' = timed /\ queue' = Append(queue, r)
      BY <1>10, <2>2 DEF TimeUp, Sent
    <3>2. timed = 0
      BY <1>10, <2>2, <3>1 DEF TimeUp, TimedInv, TimedBoostKeepsItsTimer
    <3>3. r \in Request /\ r.by = "timer" /\ r.fan = "present"
      BY DEF Asked, Request, Fans, Switch
    <3>4. queue'[Len(queue) + 1] = r /\ Len(queue) + 1 \in DOMAIN queue'
      BY <3>1, <3>3 DEF TypeOK
    <3>5. Ending(queue')
      BY <3>3, <3>4 DEF Ending
    <3>6. TimedBoostKeepsItsTimer'
      BY <3>1, <3>2, <3>5 DEF TimedBoostKeepsItsTimer, Ending
    <3>7. QED
      BY <1>10, <3>1, <3>6 DEF TimeUp, unitVars, pollVars, TimedInv
  <2>3. QED
    BY <2>1, <2>2
<1>11. ASSUME NEW outcome, Served(outcome) PROVE TimedInv'
  BY <1>11, ServedTimed
<1>12. CASE PollReads
  <2>1. PICK m \in Read(mode, "speed"), b \in Read(boost, "boost") :
          poll' = [mode |-> m, boost |-> b, later |-> TRUE]
    BY <1>12 DEF PollReads
  <2>2. poll'.boost \in {boost, "none"}
    BY <2>1 DEF Read
  <2>3. UNCHANGED <<boost, queue, data, timer, seenOn, timed>>
    BY <1>12 DEF PollReads, unitVars, fanVars
  <2>4. QED
    BY <2>2, <2>3 DEF TimedInv, TimedBoostKeepsItsTimer
<1>13. CASE PollEnds \/ PollFails
  BY <1>13, UpdateTimed
<1>14. CASE Tick \/ Panel \/ Remove \/ Reload
  BY <1>14, TimeTimed
<1>15. CASE UNCHANGED vars
  BY <1>15 DEF vars, unitVars, pollVars, fanVars, TimedInv, TimedBoostKeepsItsTimer
<1>16. CASE \E f \in Fans : TimeUp(f)
  BY <1>9, <1>10, <1>16 DEF Fans
<1>17. QED
  BY <1>2, <1>4, <1>5, <1>6, <1>8, <1>11, <1>12, <1>13, <1>14, <1>15, <1>16
  DEF Next

(***************************************************************************)
(* A timed boost keeps its timer until something ends it.                  *)
(***************************************************************************)
THEOREM TimedBoostAlwaysKeepsItsTimer == Spec => []TimedBoostKeepsItsTimer
<1>1. Init => TimedInv
  BY DEF Init, TimedInv, TimedBoostKeepsItsTimer
<1>2. TypeOK /\ RemovedInv /\ TimedInv /\ [Next]_vars => TimedInv'
  BY NextTimed DEF RemovedInv
<1>3. TimedInv => TimedBoostKeepsItsTimer
  BY DEF TimedInv
<1>4. QED
  BY <1>1, <1>2, <1>3, FanTypeCorrect, RemovedInvariant, PTL DEF Spec

-----------------------------------------------------------------------------
\* A request of the call that the present fan awaits.
Own(r) == r.by = "call" /\ r.fan = "present"

\* A queue holds no request of a call but the one awaited, and a call that
\* writes a level next awaits the mode manual.
Awaited(q, call) ==
  \A n \in DOMAIN q : Own(q[n]) =>
    /\ call # NoCall
    /\ call.kind = "speed" => q[n].reg = "mode" /\ q[n].value = "manual"
    /\ \A m \in DOMAIN q : Own(q[m]) => m = n

(***************************************************************************)
(* What a call has in the queue is what makes SpeedComesWithAMode          *)
(* inductive: when its write of the mode is served, the mode is manual.    *)
(***************************************************************************)
SpeedInv == SpeedComesWithAMode /\ Awaited(queue, calls.present)

\* A queue after a request was added, or served.
LEMMA AwaitedAfter ==
  ASSUME NEW q \in Seq(Request), NEW call, Awaited(q, call)
  PROVE  /\ \A r \in Request : ~Own(r) => Awaited(Append(q, r), call)
         /\ \A r \in Request : \A next :
              /\ call = NoCall /\ next # NoCall
              /\ next.kind = "speed" => r.reg = "mode" /\ r.value = "manual"
              => Awaited(Append(q, r), next)
         /\ q # <<>> => Awaited(Tail(q), call)
         /\ q # <<>> /\ Own(Head(q)) => Awaited(Tail(q), NoCall)
<1>1. ASSUME NEW r \in Request
      PROVE  /\ DOMAIN Append(q, r) = 1..(Len(q) + 1) /\ Len(q) \in Nat
             /\ DOMAIN q = 1..Len(q)
             /\ \A n \in 1..Len(q) : Append(q, r)[n] = q[n]
             /\ Append(q, r)[Len(q) + 1] = r
  BY <1>1
<1>2. ASSUME NEW r \in Request, ~Own(r) PROVE Awaited(Append(q, r), call)
  <2>1. \A n \in DOMAIN Append(q, r) : Own(Append(q, r)[n]) =>
          n \in DOMAIN q /\ Append(q, r)[n] = q[n] /\ Own(q[n])
    BY <1>1, <1>2
  <2>2. QED
    BY <2>1 DEF Awaited
<1>3. ASSUME NEW r \in Request, NEW next, call = NoCall, next # NoCall,
             next.kind = "speed" => r.reg = "mode" /\ r.value = "manual"
      PROVE  Awaited(Append(q, r), next)
  <2>1. \A n \in DOMAIN q : ~Own(q[n])
    BY <1>3 DEF Awaited
  <2>2. \A n \in DOMAIN Append(q, r) : Own(Append(q, r)[n]) =>
          n = Len(q) + 1 /\ Append(q, r)[n] = r
    BY <1>1, <2>1
  <2>3. QED
    BY <1>3, <2>2 DEF Awaited
<1>4. ASSUME q # <<>>
      PROVE  /\ \A n \in DOMAIN Tail(q) : n + 1 \in DOMAIN q /\ Tail(q)[n] = q[n + 1]
             /\ \A n \in DOMAIN Tail(q) : n \in Nat /\ n + 1 # 1
             /\ 1 \in DOMAIN q /\ Head(q) = q[1]
  BY <1>4
<1>5. ASSUME q # <<>> PROVE Awaited(Tail(q), call)
  <2>1. \A n, m \in DOMAIN Tail(q) : n + 1 = m + 1 => n = m
    BY <1>4, <1>5
  <2>2. QED
    BY <1>4, <1>5, <2>1 DEF Awaited
<1>6. ASSUME q # <<>>, Own(Head(q)) PROVE Awaited(Tail(q), NoCall)
  <2>1. \A n \in DOMAIN Tail(q) : ~Own(Tail(q)[n])
    BY <1>4, <1>6 DEF Awaited
  <2>2. QED
    BY <2>1 DEF Awaited
<1>7. QED
  BY <1>2, <1>3, <1>5, <1>6

\* A call that begins to wait.
LEMMA AwaitSpeed ==
  ASSUME TypeOK, SpeedInv, NEW kind \in {"boost", "speed", "level", "mode"},
         NEW minutes, NEW reg, NEW value, calls.present = NoCall,
         Asked("present", "call", reg, value) \in Request,
         kind = "speed" => reg = "mode" /\ value = "manual",
         Await(kind, minutes, reg, value)
  PROVE  calls'.present.kind = kind /\ Awaited(queue', calls'.present)
<1> DEFINE r == Asked("present", "call", reg, value)
           next == [kind |-> kind, minutes |-> minutes]
<1>1. queue' = Append(queue, r) /\ queue \in Seq(Request)
  BY DEF Await, Sent, TypeOK
<1>2. calls'.present = next
  BY DEF Await, TypeOK, Fans
<1>3. next.kind = kind /\ next # NoCall
  BY DEF NoCall
<1>4. r.reg = reg /\ r.value = value
  BY DEF Asked
<1>5. Awaited(queue, NoCall)
  BY DEF SpeedInv
<1> HIDE DEF r, next
<1>6. r \in Request
  BY DEF r
<1>7. Awaited(Append(queue, r), next)
  BY <1>1, <1>3, <1>4, <1>5, <1>6, AwaitedAfter
<1>8. QED
  BY <1>1, <1>2, <1>3, <1>7

\* A step that sends at most a request of something else.
LEMMA OtherSpeed ==
  ASSUME TypeOK, SpeedInv, UNCHANGED <<mode, calls, speed>>,
         NEW f, NEW by, NEW reg, NEW value, by # "call",
         Asked(f, by, reg, value) \in Request,
         queue' \in {queue, Sent(queue, f, by, reg, value)}
  PROVE  SpeedInv'
<1> DEFINE r == Asked(f, by, reg, value)
<1>1. ~Own(r) /\ queue \in Seq(Request)
  BY DEF Own, Asked, TypeOK
<1>2. queue' = queue \/ queue' = Append(queue, r)
  BY DEF Sent
<1> HIDE DEF r
<1>3. r \in Request
  BY DEF r
<1>4. Awaited(queue', calls'.present)
  BY <1>1, <1>2, <1>3, AwaitedAfter DEF SpeedInv
<1>5. QED
  BY <1>4 DEF SpeedInv, SpeedComesWithAMode

\* A request that is served.
LEMMA ServedSpeed ==
  ASSUME TypeOK, SpeedInv, NEW outcome, Served(outcome)
  PROVE  SpeedInv'
<1> DEFINE r == Head(queue)
           q == Tail(queue)
<1>1. queue # <<>> /\ queue \in Seq(Request) /\ r \in Request /\ q \in Seq(Request)
      /\ r.fan \in Fans /\ "present" \in Fans
  BY HeadIsRequest DEF Served, TypeOK, Fans
<1>2. /\ Awaited(q, calls.present)
      /\ Own(r) => Awaited(q, NoCall)
  BY <1>1, AwaitedAfter DEF SpeedInv
<1>3. Own(r) => /\ calls.present # NoCall
                /\ calls.present.kind = "speed" => r.reg = "mode" /\ r.value = "manual"
  <2>1. 1 \in DOMAIN queue /\ r = queue[1]
    BY <1>1
  <2>2. QED
    BY <2>1 DEF SpeedInv, Awaited
<1>4. NoCall.kind = "none"
  BY DEF NoCall
\* The call goes on with the level of its speed.
<1>5. CASE /\ Own(r) /\ outcome = "done" /\ calls.present.kind = "speed"
           /\ queue' # q
  <2> DEFINE x == Asked("present", "call", "level", "level")
             level == [NoCall EXCEPT !.kind = "level"]
  <2>1. x \in Request /\ r.fan = "present" /\ LevelNext(r)
    BY <1>5 DEF Own, LevelNext, Asked, Request, Fans
  <2>2. queue' = Append(q, x) /\ Len(queue') = Len(queue)
    <3>1. queue' = Append(q, x)
      BY <1>5, <2>1 DEF Served, Succeeds, Sent
    <3>2. Len(q) = Len(queue) - 1 /\ Len(Append(q, x)) = Len(q) + 1
      BY <1>1, <2>1
    <3>3. Len(queue) \in Nat
      BY <1>1
    <3>4. QED
      BY <3>1, <3>2, <3>3
  <2>3. calls'.present = level
    BY <1>1, <1>5, <2>1, <2>2 DEF Served, Succeeds, Own, TypeOK
  <2>4. level.kind = "level" /\ level # NoCall
    BY DEF NoCall
  <2>5. Awaited(queue', level)
    <3> HIDE DEF q, x, level
    <3>1. QED
      BY <1>1, <1>2, <1>5, <2>1, <2>2, <2>4, AwaitedAfter
  <2>6. mode' = "manual"
    BY <1>3, <1>5 DEF Served, Receive
  <2>7. QED
    BY <2>3, <2>5, <2>6 DEF SpeedInv, SpeedComesWithAMode, LevelModes
\* It ends.
<1>6. CASE Own(r) /\ (queue' = q \/ ~(outcome = "done" /\ calls.present.kind = "speed"))
  <2>1. queue' = q
    BY <1>1, <1>6 DEF Served, Succeeds, Fails, LevelNext, Own
  <2>2. Len(q) # Len(queue)
    BY <1>1
  <2>3. calls'.present = NoCall
    BY <1>1, <1>6, <2>1, <2>2 DEF Served, Succeeds, Fails, Own, TypeOK
  <2>4. QED
    BY <1>2, <1>4, <1>6, <2>1, <2>3 DEF SpeedInv, SpeedComesWithAMode
\* The request was of something else.
<1>7. CASE ~Own(r)
  <2>1. calls'.present = calls.present
    BY <1>1, <1>7 DEF Served, Succeeds, Fails, Own, TypeOK
  <2> DEFINE x == Asked(r.fan, "call", "level", "level")
  \* A removed fan may go on with its level until its hub is closed.
  <2>2. queue' = q \/ (queue' = Append(q, x) /\ r.fan = "removed")
    BY <1>1, <1>7 DEF Served, Succeeds, Fails, Own, LevelNext, Sent, Fans
  <2>3. x \in Request /\ (r.fan = "removed" => ~Own(x))
    BY <1>1 DEF Asked, Request, Own
  <2>4. Awaited(queue', calls.present)
    <3> HIDE DEF r, q, x
    <3>1. QED
      BY <1>1, <1>2, <2>2, <2>3, AwaitedAfter
  <2>5. SpeedComesWithAMode'
    BY <2>1 DEF Served, SpeedInv, SpeedComesWithAMode
  <2>6. QED
    BY <2>1, <2>4, <2>5 DEF SpeedInv
<1>8. QED
  BY <1>5, <1>6, <1>7

(***************************************************************************)
(* A speed is written to a unit whose mode keeps it.                       *)
(***************************************************************************)
THEOREM SpeedAlwaysComesWithAMode == Spec => []SpeedComesWithAMode
<1>1. Init => SpeedInv
  BY DEF Init, SpeedInv, SpeedComesWithAMode, Awaited, NoCall, Fans
<1>2. TypeOK /\ SpeedInv /\ [Next]_vars => SpeedInv'
  <2> SUFFICES ASSUME TypeOK, SpeedInv, [Next]_vars PROVE SpeedInv'
    OBVIOUS
  <2>1. /\ Asked("present", "call", "boost", "on") \in Request
        /\ Asked("present", "call", "level", "level") \in Request
        /\ \A m \in Modes : Asked("present", "call", "mode", m) \in Request
        /\ \A f \in Fans :
             /\ \A m \in Modes : Asked(f, "other", "mode", m) \in Request
             /\ \A v \in Switch : Asked(f, "other", "boost", v) \in Request
             /\ Asked(f, "timer", "boost", "off") \in Request
    BY DEF Asked, Request, Fans, Switch
  <2>2. ASSUME UNCHANGED <<mode, queue, calls, speed>> PROVE SpeedInv'
    BY <2>2 DEF SpeedInv, SpeedComesWithAMode
  <2>3. ASSUME NEW minutes \in Durations, Boost(minutes) PROVE SpeedInv'
    <3>1. CASE UNCHANGED <<queue, calls>>
      BY <2>2, <2>3, <3>1 DEF Boost, unitVars
    <3>2. CASE Await("boost", minutes, "boost", "on")
      <4>1. calls'.present.kind = "boost" /\ Awaited(queue', calls'.present)
        BY <2>1, <2>3, <3>2, AwaitSpeed DEF Boost, CanCall
      <4>2. QED
        BY <4>1 DEF SpeedInv, SpeedComesWithAMode
    <3>3. QED
      BY <2>3, <3>1, <3>2 DEF Boost
  <2>4. CASE SetSpeed
    <3>1. calls.present = NoCall /\ mode' = mode
      BY <2>4 DEF SetSpeed, CanCall, unitVars
    <3>2. CASE data.mode \in LevelModes /\ SpeedCall("level", "level", "level")
      <4>1. Awaited(queue', calls'.present)
        BY <2>1, <3>1, <3>2, AwaitSpeed DEF SpeedCall
      <4>2. speed' = "informed" => mode' \in LevelModes
        BY <3>1, <3>2 DEF SpeedCall, LevelModes
      <4>3. QED
        BY <4>1, <4>2 DEF SpeedInv, SpeedComesWithAMode
    <3>3. CASE SpeedCall("speed", "mode", "manual")
      <4>1. calls'.present.kind = "speed" /\ Awaited(queue', calls'.present)
        BY <2>1, <3>1, <3>3, AwaitSpeed, ModesAssumption DEF SpeedCall
      <4>2. QED
        BY <4>1 DEF SpeedInv, SpeedComesWithAMode
    <3>4. QED
      BY <2>4, <3>2, <3>3 DEF SetSpeed
  <2>5. ASSUME NEW m \in Modes, SetMode(m) PROVE SpeedInv'
    <3>1. calls'.present.kind = "mode" /\ Awaited(queue', calls'.present)
      BY <2>1, <2>5, AwaitSpeed DEF SetMode, CanCall
    <3>2. QED
      BY <3>1 DEF SpeedInv, SpeedComesWithAMode
  <2>6. CASE TurnOn
    BY <2>5, <2>6 DEF TurnOn, TypeOK, Presets
  <2>7. CASE OtherEntity
    BY <2>1, <2>7, OtherSpeed DEF OtherEntity, OtherWrite, unitVars, fanVars, Fans
  <2>8. ASSUME NEW f \in Fans, TimeUp(f) PROVE SpeedInv'
    BY <2>1, <2>8, OtherSpeed DEF TimeUp, unitVars
  <2>9. ASSUME NEW outcome, Served(outcome) PROVE SpeedInv'
    BY <2>9, ServedSpeed
  <2>10. CASE PollReads \/ PollEnds \/ PollFails \/ Tick \/ Reload
    BY <2>2, <2>10 DEF PollReads, PollEnds, PollFails, Tick, Reload, unitVars, fanVars
  <2>11. CASE Panel
    <3>1. UNCHANGED <<queue, calls>> /\ (UNCHANGED <<mode, speed>> \/ speed' # "informed")
      BY <2>11 DEF Panel, fanVars
    <3>2. QED
      BY <3>1 DEF SpeedInv, SpeedComesWithAMode
  <2>12. CASE Remove
    <3>1. calls'.present = NoCall
      BY <2>12 DEF Remove
    <3>2. \A n \in DOMAIN queue' : ~Own(queue'[n])
      BY <2>12, RemovedRequests DEF Own
    <3>3. QED
      BY <3>1, <3>2 DEF SpeedInv, SpeedComesWithAMode, Awaited, NoCall
  <2>13. CASE UNCHANGED vars
    BY <2>2, <2>13 DEF vars, unitVars, fanVars
  <2>14. QED
    BY <2>3, <2>4, <2>5, <2>6, <2>7, <2>8, <2>9, <2>10, <2>11, <2>12, <2>13 DEF Next
<1>3. SpeedInv => SpeedComesWithAMode
  BY DEF SpeedInv
<1>4. QED
  BY <1>1, <1>2, <1>3, FanTypeCorrect, PTL DEF Spec
=============================================================================
