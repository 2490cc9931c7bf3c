------------------------------ MODULE MCEntry ------------------------------
(***************************************************************************)
(* An entry of a unit with a filter and a sensor, and a second connection  *)
(* with a unit of which a probe can find one register only, or, if that    *)
(* stays silent, none, for TLC.                                            *)
(***************************************************************************)
EXTENDS Entry, TLC

MCGroups == << <<"mode", "filter">>, <<"sensor">> >>
MCProbeVia == "reset" :> "filter"
MCKeys == ("filters" :> {"filter", "reset"}) @@ ("sensors" :> {"sensor"})
MCHas == ("here" :> {"mode", "filter", "sensor"}) @@ ("there" :> {"filter"})
MCPlatformOf == [r \in AllRegisters |-> IF r = "reset" THEN "button" ELSE "sensor"]
=============================================================================
