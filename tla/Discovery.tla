----------------------------- MODULE Discovery -----------------------------
(***************************************************************************)
(* Discovery: which registers a unit has, which accessories are fitted,    *)
(* what of this is stored and what is used (discovery.py).                 *)
(*                                                                         *)
(* A stored discovery is a record: valid stands for its version, its       *)
(* format and the registers it knows (_valid_cache, "probed"); what is     *)
(* left of one that was dropped is not valid and holds at most the         *)
(* accessories.                                                            *)
(***************************************************************************)
EXTENDS Integers, Sequences

CONSTANTS
  Registers,        \* the registers that can be read
  Groups,           \* the blocks of all of them (see the module Blocks)
  WriteOnly,        \* the registers that cannot
  ProbeVia,         \* their siblings, by write-only register
  Accessories,
  Keys,             \* the registers of each accessory
  Detectable,       \* accessories whose values tell whether they are fitted
  Kept,             \* those that are kept once detected
  Legacy,           \* ACCESSORIES_UNTIL_0_4_0
  Unset,            \* an option that is not stored
  ProbeAttempts     \* PROBE_ATTEMPTS

AllRegisters == Registers \union WriteOnly

ASSUME DiscoveryAssumption ==
  /\ Groups \in Seq(Seq(Registers)) /\ Groups # <<>>
  /\ \A n \in DOMAIN Groups : Groups[n] # <<>>
  /\ \A r \in Registers : \E n \in DOMAIN Groups :
       \E k \in DOMAIN Groups[n] : r = Groups[n][k]
  /\ Registers \intersect WriteOnly = {}
  /\ ProbeVia \in [WriteOnly -> Registers]
  /\ Keys \in [Accessories -> SUBSET AllRegisters]
  /\ ProbeAttempts \in Nat \ {0}
  /\ Kept \subseteq Detectable /\ Detectable \subseteq Accessories
  /\ Legacy \subseteq Accessories

ASSUME UnsetAssumption == \A chosen \in SUBSET Accessories : chosen # Unset

-----------------------------------------------------------------------------
NoDiscovery == [valid |-> FALSE, present |-> {}, accessories |-> {}]
Discoveries == [valid : BOOLEAN, present : SUBSET Registers,
                accessories : SUBSET Accessories]

\* _resolve_probe_via.
Resolved(present) == present \union {w \in WriteOnly : ProbeVia[w] \in present}

\* present_from_cache: whether the unit has to be probed.
MustProbe(cache) == ~cache.valid \/ cache.present = {}

\* Mutant of WithoutDiscovery: nothing is left.
WithoutDiscoveryAtAll(cache, sameUnit) == NoDiscovery

\* data_without_discovery: the accessories detected on the same unit stay.
WithoutDiscovery(cache, sameUnit) ==
  [NoDiscovery EXCEPT !.accessories = IF sameUnit THEN cache.accessories ELSE {}]

\* offered_accessories.
Offered(present) == {a \in Accessories : Keys[a] \intersect present # {}}

\* _detect_accessories.  readings: what the values tell of an accessory,
\* "unknown" if they could not be read.
Detected(present, readings, before) ==
  {a \in Offered(present) :
     \/ a \notin Detectable
     \/ readings[a] # "no"
     \/ a \in Kept \intersect before}

-----------------------------------------------------------------------------
\* The choice of accessories in the options: the accessories chosen, and those
\* that were offered.
MaybeSet == {Unset} \union (SUBSET Accessories)
Choices == [chosen : MaybeSet, offered : MaybeSet]
NoChoice == [chosen |-> Unset, offered |-> Unset]

\* Mutant of Decides: an accessory that is not chosen is not fitted.
DecidesOnAll(choice) == Accessories

\* What a choice decides on; up to 0.4.0 it was stored alone.
Decides(choice) == IF choice.offered = Unset THEN Legacy ELSE choice.offered

\* active_accessories: detection decides on the others.
Active(cache, choice) ==
  IF choice.chosen = Unset THEN cache.accessories
  ELSE choice.chosen \union (cache.accessories \ Decides(choice))

\* registers_in_use.
InUse(present, active) == present \ UNION {Keys[a] : a \in Accessories \ active}

\* What a setup uses of its discovery.
Used(cache, choice) == InUse(Resolved(cache.present), Active(cache, choice))

-----------------------------------------------------------------------------
(***************************************************************************)
(* The probe.  group: the group it is at; single: the register of the      *)
(* group that is probed on its own, 0 for the group at once; attempt: that *)
(* of this register.                                                       *)
(***************************************************************************)
Probes == [group : 1..(Len(Groups) + 1), single : Nat, attempt : 1..ProbeAttempts,
           present : SUBSET Registers]

\* _probe_group: a group of one is probed like a register of its own.
AtGroup(n, present) ==
  [group |-> n, single |-> IF n <= Len(Groups) /\ Len(Groups[n]) = 1 THEN 1 ELSE 0,
   attempt |-> 1, present |-> present]

FirstProbe == AtGroup(1, {})
Probed(p) == p.group > Len(Groups)

Asked(p) == LET group == Groups[p.group]
            IN IF p.single = 0 THEN {group[n] : n \in DOMAIN group} ELSE {group[p.single]}

NextProbe(p) ==
  IF p.single \in 1..(Len(Groups[p.group]) - 1)
  THEN [p EXCEPT !.single = @ + 1, !.attempt = 1]
  ELSE AtGroup(p.group + 1, p.present)

\* The registers answer.
Answers(p) == NextProbe([p EXCEPT !.present = @ \union Asked(p)])

\* _probe gives up: the registers of a group are probed one by one, a single
\* one is absent.
Gone(p) == IF p.single = 0 THEN [p EXCEPT !.single = 1] ELSE NextProbe(p)

\* Any other exception is asked again, a single register up to
\* ProbeAttempts times.
Unexpected(p) ==
  IF p.single # 0 /\ p.attempt < ProbeAttempts THEN [p EXCEPT !.attempt = @ + 1]
  ELSE Gone(p)
=============================================================================
