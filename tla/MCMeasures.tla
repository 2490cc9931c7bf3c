----------------------------- MODULE MCMeasures -----------------------------
(***************************************************************************)
(* The computations of the integration on bounded inputs for TLC: a series *)
(* of polls for Energy, values and words for Codec, sets of registers for  *)
(* Blocks.  A behaviour is about one of them.                              *)
(***************************************************************************)
EXTENDS Energy, Codec, Blocks, TLC

CONSTANTS Scales, ValueLimit

ASSUME InputsAssumption == Scales \subseteq Nat \ {0} /\ ValueLimit \in Nat

VARIABLES topic, type, scale, value, defs

vars == <<energyVars, topic, type, scale, value, defs>>

\* Polls of a unit with a bypass: recovered heat twice, lost heat, an open
\* bypass, little spread, a fault of the intake sensor, a missing bypass and
\* more power than there can be.
Data(flow, intake, supply, extract, bypass) ==
  ("airflow_supply" :> flow) @@ ("temp_air_intake" :> intake)
    @@ ("temp_supply_air" :> supply) @@ ("temp_extract_air" :> extract)
    @@ ("summer_bypass_open" :> bypass)
MCPolled ==
  {Data(50, 0, 9, 20, 0), Data(50, 0, 3, 20, 0), Data(50, 10, 4, 20, 0), Data(50, 0, 9, 20, 1),
   Data(50, 0, 9, 4, 0), Data(50, 200, 9, 20, 0), Data(50, 0, 9, 20, Missing),
   Data(1000, 0, 100, 20, 0)}
Measured == {"airflow_supply", "temp_air_intake", "temp_supply_air", "temp_extract_air"}
MCLow == [key \in Measured |-> IF key = "airflow_supply" THEN 0 ELSE -30]
MCHigh == [key \in Measured |-> IF key = "airflow_supply" THEN 1000 ELSE 120]

MCRegisters ==
  {[address |-> a, words |-> IF a \in {2, 6} THEN 2 ELSE 1] : a \in {0, 1, 2, 4, 5, 6}}

Init ==
  /\ topic \in {"energy", "codec", "blocks"}
  /\ EnergyInit
  /\ topic # "energy" => data = Data(50, 0, 9, 20, 0)
  /\ type \in (IF topic = "codec" THEN Types ELSE {[signed |-> FALSE, words |-> 1]})
  /\ scale \in (IF topic = "codec" THEN Scales ELSE {1})
  /\ value = -ValueLimit
  /\ defs = {}

Next ==
  \/ /\ topic = "energy" /\ EnergyNext
     /\ UNCHANGED <<topic, type, scale, value, defs>>
  \/ /\ topic = "codec"
     /\ value' = IF value = ValueLimit THEN -ValueLimit ELSE value + 1
     /\ UNCHANGED <<energyVars, topic, type, scale, defs>>
  \/ /\ topic = "blocks"
     /\ \E reg \in Registers : defs' = (defs \ {reg}) \union ({reg} \ defs)
     /\ UNCHANGED <<energyVars, topic, type, scale, value>>

Spec == Init /\ [][Next]_vars

-----------------------------------------------------------------------------
(***************************************************************************)
(* A value written is read back as the step nearest to it, a half away     *)
(* from zero, of either sign and across both words, or it is refused       *)
(* because no word of the type holds that step; a bit field is the sum of  *)
(* the bits it reports (encode, decode, active_bits).                      *)
(***************************************************************************)
CodecAgrees == topic = "codec" => Agreed(value, type, scale)

(***************************************************************************)
(* The blocks read each register once and no word between registers; none  *)
(* is too long, and two that follow each other could not be one            *)
(* (build_blocks).                                                         *)
(***************************************************************************)
BlocksAgree == topic = "blocks" => Blocked(BuildBlocks(defs), defs)
=============================================================================
