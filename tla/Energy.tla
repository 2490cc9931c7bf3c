------------------------------- MODULE Energy -------------------------------
(***************************************************************************)
(* The recovered energy: MaicoHeatRecoveryEnergySensor of sensor.py with   *)
(* the formulas of derived.py and the polls it follows.                    *)
(*                                                                         *)
(* Energy is counted in half watt ticks, so that the mean of two readings  *)
(* over a number of ticks is a whole number.                               *)
(***************************************************************************)
EXTENDS Integers, Sequences, Functions

CONSTANTS
  Polled,           \* the data that polls bring: values by register
  Missing,          \* the register is missing from a poll
  NoReading,
  Gates,            \* RECOVERY_GATES that are present
  HasExtract,       \* temp_extract_air is present
  Low, High,        \* INPUT_RANGES, by register
  AirHeatCapacity,  \* in hundredths
  MinSpread,        \* MIN_EFFICIENCY_SPREAD
  MaxPower,         \* MAX_RECOVERY_POWER
  MaxGap,           \* _max_gap, in ticks
  Shown,            \* the digits that are shown and restored: 1 Wh
  TimeLimit, ReadingLimit, RestoredLimit      \* bounds: see Tick, Reading, Restart

ASSUME EnergyAssumption ==
  /\ HasExtract \in BOOLEAN
  /\ {AirHeatCapacity, MinSpread, MaxPower, MaxGap} \subseteq Nat
  /\ {TimeLimit, ReadingLimit, RestoredLimit} \subseteq Nat
  /\ Shown \in Nat \ {0}

Sources == {"airflow_supply", "temp_air_intake", "temp_supply_air"}

\* A poll brings a number for a register, or misses it.
ASSUME PolledAssumption ==
  /\ \A d \in Polled, key \in Sources : d[key] \in Int \union {Missing}
  /\ NoReading \notin [at : Nat, power : Nat]

VARIABLES
  data, pollOk,     \* coordinator.data, last_update_success
  now,
  total,            \* _energy
  last,             \* _last: the time and power of a reading, or NoReading
  base, readings    \* history: the total restored, what polls brought since

energyVars == <<data, pollOk, now, total, last, base, readings>>

-----------------------------------------------------------------------------
\* round of Python: a half to the even neighbour.
Rounded(n, unit) ==
  LET q == n \div unit
      r == n % unit
  IN IF 2 * r > unit \/ (2 * r = unit /\ q % 2 = 1) THEN q + 1 ELSE q

\* valid_input of a value that is there.
ValidInput(key, d) == d[key] # Missing /\ Low[key] <= d[key] /\ d[key] <= High[key]

\* heat_recovery_power.
HeatRecoveryPower(d) ==
  Rounded(d["airflow_supply"] * AirHeatCapacity
            * (d["temp_supply_air"] - d["temp_air_intake"]), 100)

\* recovery_counts.
RecoveryCounts(d) ==
  /\ \A g \in Gates : d[g] = 0
  /\ HasExtract =>
       /\ \A key \in {"temp_extract_air", "temp_air_intake"} : ValidInput(key, d)
       /\ d["temp_extract_air"] - d["temp_air_intake"] >= MinSpread

\* Heat that the supply air loses counts nothing.
Recovered(d) == IF HeatRecoveryPower(d) < 0 THEN 0 ELSE HeatRecoveryPower(d)

\* A reading that counts; any other is a gap.
Counts(d) ==
  /\ \A key \in Sources : ValidInput(key, d)
  /\ RecoveryCounts(d)
  /\ Recovered(d) <= MaxPower

\* Mutant of Gain: the gap does not matter.
GainAcrossGaps(power) == (last.power + power) * (now - last.at)

\* What the time since the last reading adds.
Gain(power) ==
  IF now - last.at <= MaxGap THEN (last.power + power) * (now - last.at) ELSE 0

\* _add_reading of a successful poll.
AddReading(d) ==
  /\ last' = IF Counts(d) THEN [at |-> now, power |-> Recovered(d)] ELSE NoReading
  /\ total' = IF Counts(d) /\ last # NoReading THEN total + Gain(Recovered(d)) ELSE total

-----------------------------------------------------------------------------
\* A poll succeeds.
Reading ==
  /\ Len(readings) < ReadingLimit
  /\ \E d \in Polled :
       /\ data' = d
       /\ AddReading(d)
       /\ readings' = Append(readings, [at |-> now, data |-> d])
  /\ pollOk' = TRUE
  /\ UNCHANGED <<now, base>>

\* Mutant of NoNewReading: the data that a failed poll keeps count again.
ReadingOfOldData == AddReading(data)

\* A poll that fails is no reading.
NoNewReading == UNCHANGED <<total, last>>

\* A poll fails; the entity hears of the first failure only.
PollFails ==
  /\ pollOk' = FALSE
  /\ IF pollOk THEN NoNewReading ELSE UNCHANGED <<total, last>>
  /\ UNCHANGED <<data, now, base, readings>>

Tick ==
  /\ now < TimeLimit
  /\ now' = now + 1
  /\ UNCHANGED <<data, pollOk, total, last, base, readings>>

\* async_added_to_hass after a restart: the total shown last is restored, and
\* the first poll is a reading.
Restart ==
  /\ base <= RestoredLimit
  /\ now' = 0
  /\ base' = Shown * Rounded(total, Shown)
  /\ total' = base'
  /\ \E d \in Polled :
       /\ data' = d
       /\ last' = IF Counts(d) THEN [at |-> 0, power |-> Recovered(d)] ELSE NoReading
       /\ readings' = <<[at |-> 0, data |-> d]>>
  /\ pollOk' = TRUE

EnergyInit ==
  /\ now = 0 /\ base = 0 /\ total = 0
  /\ data \in Polled
  /\ last = IF Counts(data) THEN [at |-> 0, power |-> Recovered(data)] ELSE NoReading
  /\ readings = <<[at |-> 0, data |-> data]>>
  /\ pollOk = TRUE

EnergyNext == Reading \/ PollFails \/ Tick \/ Restart

EnergySpec == EnergyInit /\ [][EnergyNext]_energyVars

-----------------------------------------------------------------------------
\* The intervals between two readings that both count, one right after the
\* other and at most MaxGap apart.
Intervals(rs) ==
  {n \in 1..(Len(rs) - 1) :
     /\ Counts(rs[n].data) /\ Counts(rs[n + 1].data)
     /\ rs[n + 1].at - rs[n].at <= MaxGap}

AreaOf(rs, n) ==
  (Recovered(rs[n].data) + Recovered(rs[n + 1].data)) * (rs[n + 1].at - rs[n].at)

AreaUnder(rs) == SumFunction([n \in Intervals(rs) |-> AreaOf(rs, n)])

(***************************************************************************)
(* The total is the one restored plus the area under the readings since,   *)
(* over the intervals whose both ends are measurements of recovered heat   *)
(* and that are not too long; polls that failed in between change nothing. *)
(***************************************************************************)
TotalIsTheArea == total = base + AreaUnder(readings)
=============================================================================
