---------------------------- MODULE EntryProofs ----------------------------
(***************************************************************************)
(* Proofs about module Entry, for any registers, accessories, connections  *)
(* and platforms.                                                          *)
(***************************************************************************)
EXTENDS Entry, FiniteSetTheorems, TLAPS

-----------------------------------------------------------------------------
(***************************************************************************)
(* A probe stays within its groups, which a member of Probes need not.     *)
(***************************************************************************)
WellFormed(p) ==
  /\ p \in Probes
  /\ p.group <= Len(Groups) => p.single <= Len(Groups[p.group])

\* A probe that comes to a group.
LEMMA AtGroupWellFormed ==
  ASSUME NEW n \in 1..(Len(Groups) + 1), NEW present \in SUBSET Registers
  PROVE  /\ WellFormed(AtGroup(n, present))
         /\ AtGroup(n, present).group = n /\ AtGroup(n, present).present = present
         /\ AtGroup(n, present).single \in {0, 1}
<1>1. 1 \in 1..ProbeAttempts
  BY DiscoveryAssumption
<1>2. n <= Len(Groups) => Len(Groups[n]) \in Nat
  BY DiscoveryAssumption
<1>3. QED
  BY <1>1, <1>2 DEF AtGroup, WellFormed, Probes

\* A request asks for registers.
LEMMA AskedRegisters ==
  ASSUME NEW p, WellFormed(p), ~Probed(p)
  PROVE  /\ Asked(p) \subseteq Registers
         /\ p.group \in DOMAIN Groups /\ Len(Groups[p.group]) \in Nat \ {0}
         /\ p.single \in 0..Len(Groups[p.group])
<1>1. p.group \in 1..Len(Groups) /\ p.single \in Nat /\ p.single <= Len(Groups[p.group])
  BY DiscoveryAssumption DEF WellFormed, Probes, Probed
<1>2. Groups[p.group] \in Seq(Registers) /\ Groups[p.group] # <<>>
  BY <1>1, DiscoveryAssumption
<1>3. \A n \in DOMAIN Groups[p.group] : Groups[p.group][n] \in Registers
  BY <1>2
<1>4. p.single # 0 => p.single \in DOMAIN Groups[p.group]
  BY <1>1, <1>2
<1>5. Asked(p) \subseteq Registers
  BY <1>3, <1>4 DEF Asked
<1>6. QED
  BY <1>1, <1>2, <1>5

\* The probe that follows.
LEMMA NextProbeWellFormed ==
  ASSUME NEW p, WellFormed(p), ~Probed(p)
  PROVE  WellFormed(NextProbe(p)) /\ NextProbe(p).present = p.present
<1>1. /\ p.group \in DOMAIN Groups /\ Len(Groups[p.group]) \in Nat \ {0}
      /\ p.single \in 0..Len(Groups[p.group]) /\ p \in Probes
  BY AskedRegisters DEF WellFormed
<1>2. CASE p.single \in 1..(Len(Groups[p.group]) - 1)
  <2> DEFINE q == [p EXCEPT !.single = p.single + 1, !.attempt = 1]
  <2>1. 1 \in 1..ProbeAttempts /\ p.single + 1 \in Nat
        /\ p.single + 1 <= Len(Groups[p.group])
    BY <1>1, <1>2, DiscoveryAssumption
  <2>2. /\ q \in Probes /\ q.group = p.group /\ q.single = p.single + 1
        /\ q.present = p.present
    BY <1>1, <2>1 DEF Probes
  <2>3. NextProbe(p) = q
    BY <1>2 DEF NextProbe
  <2> HIDE DEF q
  <2>4. QED
    BY <2>1, <2>2, <2>3 DEF WellFormed
<1>3. CASE p.single \notin 1..(Len(Groups[p.group]) - 1)
  <2>1. p.group + 1 \in 1..(Len(Groups) + 1) /\ p.present \in SUBSET Registers
    BY <1>1, DiscoveryAssumption DEF Probes
  <2>2. NextProbe(p) = AtGroup(p.group + 1, p.present)
    BY <1>3 DEF NextProbe
  <2>3. QED
    BY <2>1, <2>2, AtGroupWellFormed
<1>4. QED
  BY <1>2, <1>3

\* Whatever a request brings, the probe goes on within its groups.
LEMMA ProbeWellFormed ==
  ASSUME NEW p, WellFormed(p), ~Probed(p)
  PROVE  WellFormed(Answers(p)) /\ WellFormed(Gone(p)) /\ WellFormed(Unexpected(p))
<1>1. /\ p.group \in DOMAIN Groups /\ Len(Groups[p.group]) \in Nat \ {0}
      /\ p.single \in 0..Len(Groups[p.group]) /\ p \in Probes
      /\ Asked(p) \subseteq Registers
  BY AskedRegisters DEF WellFormed
<1>2. WellFormed(Answers(p))
  <2> DEFINE q == [p EXCEPT !.present = @ \union Asked(p)]
  <2>1. WellFormed(q) /\ ~Probed(q)
    BY <1>1 DEF WellFormed, Probes, Probed
  <2> HIDE DEF q
  <2>2. WellFormed(NextProbe(q))
    BY <2>1, NextProbeWellFormed
  <2>3. QED
    BY <2>2 DEF q, Answers
<1>3. WellFormed(Gone(p))
  <2>1. CASE p.single = 0
    BY <1>1, <2>1 DEF Gone, WellFormed, Probes
  <2>2. CASE p.single # 0
    BY <2>2, NextProbeWellFormed DEF Gone
  <2>3. QED
    BY <2>1, <2>2
<1>4. WellFormed(Unexpected(p))
  <2>1. CASE p.single # 0 /\ p.attempt < ProbeAttempts
    <3> DEFINE q == [p EXCEPT !.attempt = p.attempt + 1]
    <3>1. p.attempt + 1 \in 1..ProbeAttempts
      BY <1>1, <2>1, DiscoveryAssumption DEF Probes
    <3>2. q \in Probes /\ q.group = p.group /\ q.single = p.single
      BY <1>1, <3>1 DEF Probes
    <3>3. Unexpected(p) = q
      BY <2>1 DEF Unexpected
    <3> HIDE DEF q
    <3>4. QED
      BY <1>1, <3>2, <3>3 DEF WellFormed
  <2>2. CASE ~(p.single # 0 /\ p.attempt < ProbeAttempts)
    BY <1>3, <2>2 DEF Unexpected
  <2>3. QED
    BY <2>1, <2>2
<1>5. QED
  BY <1>2, <1>3, <1>4

-----------------------------------------------------------------------------
\* Types, with the probe within its groups.
TypeInv ==
  /\ TypeOK
  /\ WellFormed(probe)
  /\ state = "probe" => ~Probed(probe)

\* The hub and the feeder by the phase of the setup.
LEMMA RunsByPhase ==
  ASSUME TypeOK
  PROVE  /\ state \in {"identity", "probe", "detect", "refresh"} =>
              hubOpen = TRUE /\ feeding = FALSE
         /\ state \in {"feeder", "platforms", "loaded"} => hubOpen = TRUE /\ feeding = TRUE
         /\ state \in {"retry", "error", "not_loaded"} => hubOpen = FALSE /\ feeding = FALSE
<1>1. /\ hubOpen = (state \in Phases \union {"loaded"})
      /\ feeding = (state \in {"feeder", "platforms", "loaded"})
  BY DEF TypeOK
<1>2. CASE state \in {"identity", "probe", "detect", "refresh"}
  <2>1. (state \in Phases \union {"loaded"}) = TRUE
    BY <1>2 DEF Phases
  <2>2. (state \in {"feeder", "platforms", "loaded"}) = FALSE
    BY <1>2
  <2>3. state \notin {"feeder", "platforms", "loaded", "retry", "error", "not_loaded"}
    BY <1>2
  <2>4. QED
    BY <1>1, <2>1, <2>2, <2>3, Zenon
<1>3. CASE state \in {"feeder", "platforms", "loaded"}
  <2>1. (state \in Phases \union {"loaded"}) = TRUE
    BY <1>3 DEF Phases
  <2>2. (state \in {"feeder", "platforms", "loaded"}) = TRUE
    BY <1>3
  <2>3. state \notin {"identity", "probe", "detect", "refresh", "retry", "error", "not_loaded"}
    BY <1>3
  <2>4. QED
    BY <1>1, <2>1, <2>2, <2>3, Zenon
<1>4. CASE state \in {"retry", "error", "not_loaded"}
  <2>1. (state \in Phases \union {"loaded"}) = FALSE
    BY <1>4 DEF Phases
  <2>2. (state \in {"feeder", "platforms", "loaded"}) = FALSE
    BY <1>4
  <2>3. state \notin {"identity", "probe", "detect", "refresh", "feeder", "platforms", "loaded"}
    BY <1>4
  <2>4. QED
    BY <1>1, <2>1, <2>2, <2>3, Zenon
<1>5. QED
  BY <1>2, <1>3, <1>4

\* And after a step.
LEMMA RunsByNextPhase ==
  ASSUME \/ /\ state' \in {"identity", "probe", "detect", "refresh"}
            /\ hubOpen' = TRUE /\ feeding' = FALSE
         \/ /\ state' \in {"feeder", "platforms", "loaded"}
            /\ hubOpen' = TRUE /\ feeding' = TRUE
         \/ /\ state' \in {"retry", "error", "not_loaded"}
            /\ hubOpen' = FALSE /\ feeding' = FALSE
  PROVE  /\ hubOpen' = (state' \in Phases \union {"loaded"})
         /\ feeding' = (state' \in {"feeder", "platforms", "loaded"})
<1>1. state' \in {"identity", "probe", "detect", "refresh"} =>
        /\ (state' \in Phases \union {"loaded"}) = TRUE
        /\ (state' \in {"feeder", "platforms", "loaded"}) = FALSE
  BY DEF Phases
<1>2. state' \in {"feeder", "platforms", "loaded"} =>
        /\ (state' \in Phases \union {"loaded"}) = TRUE
        /\ (state' \in {"feeder", "platforms", "loaded"}) = TRUE
  BY DEF Phases
<1>3. state' \in {"retry", "error", "not_loaded"} =>
        /\ (state' \in Phases \union {"loaded"}) = FALSE
        /\ (state' \in {"feeder", "platforms", "loaded"}) = FALSE
  BY DEF Phases
<1>4. QED
  BY <1>1, <1>2, <1>3, Zenon

\* What a discovery brings.
LEMMA UsedRegisters ==
  ASSUME NEW cache \in Discoveries, NEW c \in Choices
  PROVE  Used(cache, c) \subseteq AllRegisters
<1>1. cache.present \subseteq Registers
  BY DEF Discoveries
<1>2. QED
  BY <1>1 DEF Used, InUse, Resolved, AllRegisters

\* What is left of a stored discovery.
LEMMA WithoutDiscoveryType ==
  ASSUME NEW cache \in Discoveries, NEW same \in BOOLEAN
  PROVE  /\ WithoutDiscovery(cache, same) \in Discoveries
         /\ ~WithoutDiscovery(cache, same).valid
         /\ WithoutDiscovery(cache, same).accessories =
              IF same THEN cache.accessories ELSE {}
BY DEF WithoutDiscovery, NoDiscovery, Discoveries

\* The steps of a setup up to its discovery.
LEMMA ProbeTypes ==
  ASSUME TypeInv, \/ \E from \in {"not_loaded", "retry", "loaded", "error"} : Setup(from)
                  \/ IdentityChecked \/ ProbeAnswered \/ ProbeUnexpected
  PROVE  TypeInv'
<1> USE DEF unitVars, dataVars, runVars, registryVars, historyVars
<1>1. ASSUME NEW from, Setup(from) PROVE TypeInv'
  <2>1. state' = "identity" /\ hubOpen' = TRUE /\ feeding' = FALSE
    BY <1>1 DEF Setup, SetupBegins
  <2>2. QED
    BY <1>1, <2>1, RunsByNextPhase DEF Setup, SetupBegins, TypeInv, TypeOK, Phases
<1>2. CASE IdentityChecked
  <2>1. CASE MustProbe(stored)
    <3>1. WellFormed(FirstProbe) /\ ~Probed(FirstProbe)
      <4>1. 1 \in 1..Len(Groups)
        BY DiscoveryAssumption
      <4>2. QED
        BY <4>1, AtGroupWellFormed DEF FirstProbe, Probed
    <3>2. before' \subseteq Accessories
      BY <1>2, <2>1 DEF IdentityChecked, TypeInv, TypeOK, Discoveries
    <3>3. QED
      BY <1>2, <2>1, <3>1, <3>2 DEF IdentityChecked, TypeInv, TypeOK, Phases, WellFormed
  <2>2. CASE ~MustProbe(stored)
    <3>1. Used(stored, choice) \subseteq AllRegisters
      BY UsedRegisters DEF TypeInv, TypeOK
    <3>2. QED
      BY <1>2, <2>2, <3>1 DEF IdentityChecked, TypeInv, TypeOK, Phases
  <2>3. QED
    BY <2>1, <2>2
<1>3. ASSUME NEW p, WellFormed(p), ProbeGoesOn(p), state = "probe",
             trouble' \in 0..TroubleLimit, silent' \subseteq Registers
      PROVE  TypeInv'
  BY <1>3 DEF ProbeGoesOn, TypeInv, TypeOK, Phases, WellFormed
<1>4. CASE ProbeAnswered
  BY <1>3, <1>4, ProbeWellFormed DEF ProbeAnswered, TypeInv, TypeOK
<1>5. CASE ProbeUnexpected
  <2>1. trouble' \in 0..TroubleLimit
    BY <1>5, EntryAssumption DEF ProbeUnexpected, TypeInv, TypeOK
  <2>2. silent' \subseteq Registers
    BY <1>5, AskedRegisters DEF ProbeUnexpected, TypeInv, TypeOK
  <2>3. QED
    BY <1>3, <1>5, <2>1, <2>2, ProbeWellFormed DEF ProbeUnexpected, TypeInv
<1>6. QED
  BY <1>1, <1>2, <1>4, <1>5

\* The discovery.
LEMMA DiscoverTypes ==
  ASSUME TypeInv, Discover
  PROVE  /\ TypeInv'
         /\ stored'.valid /\ stored'.present = probe.present
         /\ known \subseteq before => known' \subseteq stored'.accessories
<1>1. PICK missing \in SUBSET Detectable :
        LET present == Resolved(probe.present)
            readings == [a \in Detectable |->
                           IF a \in missing THEN "unknown" ELSE reads[unit][a]]
        IN /\ Cardinality(missing) <= TroubleLimit - trouble
           /\ trouble' = trouble + Cardinality(missing)
           /\ stored' = [valid |-> TRUE, present |-> probe.present, accessories |->
                           Detected(present, readings, before)]
           /\ known' = (known \intersect Offered(present))
                         \union {a \in stored'.accessories \intersect Kept : unit = host}
  BY DEF Discover
<1> DEFINE present == Resolved(probe.present)
           readings == [a \in Detectable |->
                          IF a \in missing THEN "unknown" ELSE reads[unit][a]]
           found == Detected(present, readings, before)
<1>2. found \subseteq Accessories
  BY DEF Detected, Offered
<1>3. stored' = [valid |-> TRUE, present |-> probe.present, accessories |-> found]
  BY <1>1
<1>4. known \subseteq before /\ known \subseteq Kept =>
        known \intersect Offered(present) \subseteq found
  BY DEF Detected
<1> HIDE DEF found, readings
<1>5. /\ stored' \in Discoveries /\ stored'.valid /\ stored'.present = probe.present
      /\ stored'.accessories = found
  BY <1>2, <1>3 DEF Discoveries, TypeInv, WellFormed, Probes
<1>6. trouble' \in 0..TroubleLimit
  <2>1. Cardinality(missing) \in Nat
    BY FS_Subset, FS_CardinalityType, EntryAssumption
  <2>2. QED
    BY <1>1, <2>1, EntryAssumption DEF TypeInv, TypeOK
<1>7. known' \subseteq Kept
  BY <1>1 DEF TypeInv, TypeOK
<1>8. used' \subseteq AllRegisters
  BY <1>5, UsedRegisters DEF Discover, TypeInv, TypeOK
<1>9. TypeInv'
  <2>1. state' = "refresh" /\ hubOpen' = TRUE /\ feeding' = FALSE
    BY RunsByPhase DEF Discover, TypeInv
  <2>2. QED
    BY <1>5, <1>6, <1>7, <1>8, <2>1, RunsByNextPhase
    DEF Discover, TypeInv, TypeOK, unitVars, registryVars, Phases
<1>10. known \subseteq before => known' \subseteq stored'.accessories
  BY <1>1, <1>4, <1>5 DEF TypeInv, TypeOK
<1>11. QED
  BY <1>5, <1>9, <1>10

\* The steps of a setup after it, and its end.
LEMMA SetupTypes ==
  ASSUME TypeInv, \/ Refreshed \/ FeederStarted
                  \/ \E p \in Platforms : PlatformSetUp(p)
                  \/ Loaded \/ NotReady \/ SetupError \/ DiscoverNothing \/ Unload
  PROVE  TypeInv'
<1> USE DEF unitVars, dataVars, runVars, registryVars, historyVars
<1>1. CASE Refreshed \/ FeederStarted
  <2>1. state' \in {"feeder", "platforms"} /\ hubOpen' = TRUE /\ feeding' = TRUE
    BY <1>1, RunsByPhase DEF Refreshed, FeederStarted, TypeInv
  <2>2. QED
    BY <1>1, <2>1, RunsByNextPhase DEF Refreshed, FeederStarted, TypeInv, TypeOK, Phases
<1>2. ASSUME NEW p \in Platforms, PlatformSetUp(p) PROVE TypeInv'
  <2>1. created' \subseteq AllRegisters /\ platformsUp' \subseteq Platforms
    BY <1>2 DEF PlatformSetUp, TypeInv, TypeOK
  <2>2. /\ registry' \in [AllRegisters -> InRegistry] /\ reload' \in BOOLEAN
        /\ marked' \subseteq AllRegisters /\ declined' \subseteq AllRegisters
    BY <1>2 DEF PlatformSetUp, InRegistry, TypeInv, TypeOK
  <2>3. QED
    BY <1>2, <2>1, <2>2 DEF PlatformSetUp, TypeInv, TypeOK
<1>3. CASE Loaded
  <2>1. Cardinality(Platforms \ platformsUp) \in Nat
    BY FS_Subset, FS_CardinalityType, EntryAssumption
  <2>2. trouble' \in 0..TroubleLimit
    BY <1>3, <2>1, EntryAssumption DEF Loaded, TypeInv, TypeOK
  <2>3. registry' \in [AllRegisters -> InRegistry] /\ marked' \subseteq AllRegisters
    BY <1>3 DEF Loaded, InRegistry, TypeInv, TypeOK
  <2>4. state' = "loaded" /\ hubOpen' = TRUE /\ feeding' = TRUE
    BY <1>3, RunsByPhase DEF Loaded, TypeInv
  <2>5. QED
    BY <1>3, <2>2, <2>3, <2>4, RunsByNextPhase DEF Loaded, TypeInv, TypeOK
<1>4. CASE NotReady \/ SetupError \/ DiscoverNothing
  <2>1. PICK result \in {"retry", "error"} : trouble' \in 0..TroubleLimit /\ Fails(result)
    BY <1>4, EntryAssumption DEF NotReady, SetupError, DiscoverNothing, TypeInv, TypeOK
  <2>2. state' \in {"retry", "error"} /\ hubOpen' = FALSE /\ feeding' = FALSE
    BY <2>1 DEF Fails, Stopped
  <2>3. QED
    BY <2>1, <2>2, RunsByNextPhase DEF Fails, TypeInv, TypeOK
<1>5. CASE Unload
  <2>1. changes' \in 0..ChangeLimit
    BY <1>5, EntryAssumption DEF Unload, TypeInv, TypeOK
  <2>2. state' = "not_loaded" /\ hubOpen' = FALSE /\ feeding' = FALSE
    BY <1>5 DEF Unload, Stopped
  <2>3. QED
    BY <1>5, <2>1, <2>2, RunsByNextPhase DEF Unload, TypeInv, TypeOK
<1>6. QED
  BY <1>1, <1>2, <1>3, <1>4, <1>5

\* What the user changes.
LEMMA UserTypes ==
  ASSUME TypeInv, \/ ShowOptions \/ SaveOptions
                  \/ \E h \in Hosts : Reconfigure(h)
                  \/ Rediscover \/ EntityChanges \/ UnitChanges
  PROVE  TypeInv'
<1> USE DEF unitVars, dataVars, runVars, registryVars, historyVars
<1>1. CASE ShowOptions
  <2>1. shown' \in (SUBSET Accessories) \union {Closed}
    BY <1>1 DEF ShowOptions, OfferedNow, Offered
  <2>2. QED
    BY <1>1, <2>1 DEF ShowOptions, TypeInv, TypeOK, Phases
<1> DEFINE Changes == /\ changes' \in 0..ChangeLimit
                      /\ unheard' \in BOOLEAN /\ reload' \in BOOLEAN
                      /\ UNCHANGED <<unitVars, state, probe, before, runVars, registryVars,
                                     trouble, silent, storedOf, declined>>
<1>2. ASSUME NEW late, NEW scheduled, EntryChanges(late, scheduled) PROVE Changes
  BY <1>2, EntryAssumption DEF EntryChanges, Heard, TypeInv, TypeOK
<1>3. CASE SaveOptions
  <2>1. PICK submitted \in MaybeSet : choice' = ChoiceOf(submitted)
    BY <1>3 DEF SaveOptions, MaybeSet, TypeInv, TypeOK
  <2>2. OfferedNow \subseteq Accessories /\ shown \subseteq Accessories
    BY <1>3 DEF SaveOptions, OfferedNow, Offered, TypeInv, TypeOK
  <2>3. choice' \in Choices
    BY <2>1, <2>2 DEF ChoiceOf, NoChoice, Choices, MaybeSet, TypeInv, TypeOK
  <2>4. covered' \subseteq Accessories
    BY <1>3, <2>2, DiscoveryAssumption DEF SaveOptions, CoveredNow, TypeInv, TypeOK
  <2>5. Changes
    BY <1>3, <1>2 DEF SaveOptions
  <2>6. UNCHANGED <<host, stored, known>> /\ shown' = Closed
    BY <1>3 DEF SaveOptions
  <2>7. QED
    BY <2>3, <2>4, <2>5, <2>6 DEF TypeInv, TypeOK
<1>4. ASSUME NEW h \in Hosts, Reconfigure(h) PROVE TypeInv'
  <2>1. stored' \in Discoveries
    <3>1. (h = host) \in BOOLEAN /\ stored' = WithoutDiscovery(stored, h = host)
      BY <1>4 DEF Reconfigure
    <3>2. QED
      BY <3>1, WithoutDiscoveryType DEF TypeInv, TypeOK
  <2>2. /\ choice' \in Choices /\ covered' \subseteq Accessories
        /\ known' \subseteq Kept /\ host' = h /\ UNCHANGED shown
    BY <1>4 DEF Reconfigure, NoChoice, Choices, MaybeSet, TypeInv, TypeOK
  <2>3. Changes
    BY <1>2, <1>4 DEF Reconfigure
  <2>4. QED
    BY <2>1, <2>2, <2>3 DEF TypeInv, TypeOK
<1>5. CASE Rediscover
  <2>1. stored' \in Discoveries
    BY <1>5, WithoutDiscoveryType DEF Rediscover, TypeInv, TypeOK
  <2>2. Changes
    BY <1>2, <1>5 DEF Rediscover
  <2>3. UNCHANGED <<host, choice, shown, covered, known>>
    BY <1>5 DEF Rediscover
  <2>4. QED
    BY <2>1, <2>2, <2>3 DEF TypeInv, TypeOK
<1>6. CASE EntityChanges
  <2>1. changes' \in 0..ChangeLimit
    BY <1>6, EntryAssumption DEF EntityChanges, TypeInv, TypeOK
  <2>2. PICK r \in AllRegisters : UserDisables(r) \/ UserEnables(r)
    BY <1>6 DEF EntityChanges
  <2>3. /\ registry' \in [AllRegisters -> InRegistry]
        /\ declined' \subseteq AllRegisters /\ reload' \in BOOLEAN
    BY <2>2 DEF UserDisables, UserEnables, InRegistry, TypeInv, TypeOK
  <2>4. QED
    BY <1>6, <2>1, <2>3 DEF EntityChanges, TypeInv, TypeOK
<1>7. CASE UnitChanges
  <2>1. changes' \in 0..ChangeLimit
    BY <1>7, EntryAssumption DEF UnitChanges, TypeInv, TypeOK
  <2>2. reads' \in [Hosts -> [Detectable -> {"yes", "no"}]]
    BY <1>7 DEF UnitChanges, TypeInv, TypeOK
  <2>3. QED
    BY <1>7, <2>1, <2>2 DEF UnitChanges, TypeInv, TypeOK
<1>8. QED
  BY <1>1, <1>3, <1>4, <1>5, <1>6, <1>7

(***************************************************************************)
(* Type correctness of Entry, and a probe never leaves its groups.         *)
(***************************************************************************)
THEOREM EntryTypeInvariant == Spec => []TypeInv
<1>1. Init => TypeInv
  <2> SUFFICES ASSUME Init PROVE TypeInv
    OBVIOUS
  <2>1. WellFormed(probe)
    <3>1. 1 \in 1..(Len(Groups) + 1)
      BY DiscoveryAssumption
    <3>2. QED
      BY <3>1, AtGroupWellFormed DEF Init, FirstProbe
  <2>2. stored \in Discoveries /\ choice \in Choices
    BY DEF Init, NoDiscovery, Discoveries, NoChoice, Choices, MaybeSet
  <2>3. trouble \in 0..TroubleLimit /\ changes \in 0..ChangeLimit
    BY EntryAssumption DEF Init
  <2>4. registry \in [AllRegisters -> InRegistry]
    BY DEF Init, InRegistry
  <2>5. state = "not_loaded" /\ hubOpen = FALSE /\ feeding = FALSE
    BY DEF Init
  <2>6. /\ hubOpen = (state \in Phases \union {"loaded"})
        /\ feeding = (state \in {"feeder", "platforms", "loaded"})
    <3>1. /\ (state \in Phases \union {"loaded"}) = FALSE
          /\ (state \in {"feeder", "platforms", "loaded"}) = FALSE
      BY <2>5 DEF Phases
    <3>2. QED
      BY <2>5, <3>1, Zenon
  <2>7. QED
    BY <2>1, <2>2, <2>3, <2>4, <2>6 DEF Init, TypeInv, TypeOK, WellFormed
<1>2. TypeInv /\ [Next]_vars => TypeInv'
  <2> SUFFICES ASSUME TypeInv, [Next]_vars PROVE TypeInv'
    OBVIOUS
  <2>1. CASE UNCHANGED vars
    BY <2>1 DEF vars, TypeInv, TypeOK
  <2>2. CASE SetupStep
    BY <2>2, ProbeTypes, DiscoverTypes, SetupTypes DEF SetupStep, Retry, Reload, ProbeLost
  <2>3. CASE NotReady \/ SetupError \/ UserStep \/ UnitChanges
    BY <2>3, ProbeTypes, SetupTypes, UserTypes DEF UserStep, UserSetup
  <2>4. QED
    BY <2>1, <2>2, <2>3 DEF Next
<1>3. QED
  BY <1>1, <1>2, PTL DEF Spec

(***************************************************************************)
(* Type correctness of Entry.                                              *)
(***************************************************************************)
THEOREM EntryTypeCorrect == Spec => []TypeOK
<1>1. TypeInv => TypeOK
  BY DEF TypeInv
<1>2. QED
  BY <1>1, EntryTypeInvariant, PTL

-----------------------------------------------------------------------------
\* The setup has decided what it uses, and nothing is to replace it.
Settled == state \in {"refresh", "feeder", "platforms"} \/ (state = "loaded" /\ ~reload)

(***************************************************************************)
(* What makes LoadedRunsWhatIsStored inductive: from when the setup reads  *)
(* the connection, and later the discovery and the choice, a change of     *)
(* them is either unheard or makes the entry reload.                       *)
(***************************************************************************)
RunInv ==
  /\ (state \in Phases \/ Settled) /\ ~unheard => unit = host
  /\ Settled /\ ~unheard => ~MustProbe(stored) /\ used = Used(stored, choice)

\* The steps of a setup.
LEMMA SetupRuns ==
  ASSUME TypeInv, RunInv, SetupStep \/ UserSetup
  PROVE  RunInv'
<1> USE DEF unitVars, dataVars, runVars, registryVars, historyVars
<1>1. ASSUME NEW from, Setup(from) PROVE RunInv'
  BY <1>1 DEF Setup, SetupBegins, RunInv, Settled
<1>2. CASE IdentityChecked
  BY <1>2 DEF IdentityChecked, RunInv, Settled, Phases
<1>3. CASE ProbeAnswered \/ ProbeUnexpected
  <2>1. /\ state = "probe" /\ state' \in {"probe", "detect"}
        /\ UNCHANGED <<host, stored, choice, unit, used, unheard, reload>>
    BY <1>3 DEF ProbeAnswered, ProbeUnexpected, ProbeGoesOn
  <2>2. QED
    BY <2>1 DEF RunInv, Settled, Phases
<1>4. CASE Discover
  <2>1. ~MustProbe(stored')
    BY <1>4, DiscoverTypes DEF Discover, MustProbe
  <2>2. /\ state = "detect" /\ state' = "refresh" /\ used' = Used(stored', choice)
        /\ UNCHANGED <<host, choice, unit, unheard>>
    BY <1>4 DEF Discover
  <2>3. QED
    BY <2>1, <2>2 DEF RunInv, Settled, Phases
<1>5. CASE Refreshed \/ FeederStarted \/ Loaded \/ \E p \in Platforms : PlatformSetUp(p)
  <2>1. /\ state \in {"refresh", "feeder", "platforms"}
        /\ state' \in {"feeder", "platforms", "loaded"}
        /\ UNCHANGED <<host, stored, choice, unit, used, unheard>>
    BY <1>5 DEF Refreshed, FeederStarted, Loaded, PlatformSetUp
  <2>2. QED
    BY <2>1 DEF RunInv, Settled, Phases
<1>6. CASE ProbeLost \/ DiscoverNothing
  BY <1>6 DEF ProbeLost, NotReady, DiscoverNothing, Fails, RunInv, Settled, Phases
<1>7. QED
  BY <1>1, <1>2, <1>3, <1>4, <1>5, <1>6 DEF SetupStep, Retry, Reload, UserSetup

\* What the user changes is heard, or noted as unheard.
LEMMA UserRuns ==
  ASSUME TypeInv, RunInv, \/ NotReady \/ SetupError \/ Unload
                          \/ ShowOptions \/ SaveOptions
                          \/ \E h \in Hosts : Reconfigure(h)
                          \/ Rediscover \/ EntityChanges \/ UnitChanges
  PROVE  RunInv'
<1> USE DEF unitVars, dataVars, runVars, registryVars, historyVars
<1>1. CASE NotReady \/ SetupError \/ Unload
  BY <1>1 DEF NotReady, SetupError, Fails, Unload, RunInv, Settled, Phases
<1>2. CASE ShowOptions \/ UnitChanges
  BY <1>2 DEF ShowOptions, UnitChanges, RunInv, Settled
<1>3. CASE EntityChanges
  <2>1. reload' = reload \/ reload' = TRUE
    BY <1>3 DEF EntityChanges, UserDisables, UserEnables
  <2>2. UNCHANGED <<host, stored, choice, unit, used, unheard, state>>
    BY <1>3 DEF EntityChanges
  <2>3. QED
    BY <2>1, <2>2 DEF RunInv, Settled
<1>4. ASSUME NEW late, NEW scheduled, EntryChanges(late, scheduled)
      PROVE  /\ UNCHANGED <<unit, used, state>> /\ unheard' = (unheard \/ late)
             /\ state = "loaded" /\ ~reload' =>
                  ~reload /\ UNCHANGED <<host, stored, choice>>
  BY <1>4 DEF EntryChanges, Heard
<1>5. CASE SaveOptions
  <2>1. /\ UNCHANGED <<unit, used, state, host, stored>>
        /\ unheard' = (unheard \/ state \in {"refresh", "feeder", "platforms"})
        /\ state = "loaded" /\ ~reload' => ~reload /\ UNCHANGED choice
    BY <1>5 DEF SaveOptions, EntryChanges, Heard
  <2>2. QED
    BY <2>1 DEF RunInv, Settled, Phases
<1>6. ASSUME NEW h \in Hosts, Reconfigure(h) PROVE RunInv'
  <2>1. /\ UNCHANGED <<unit, used, state>>
        /\ unheard' = (unheard \/ state \in Phases)
        /\ state = "loaded" /\ ~reload' => ~reload /\ UNCHANGED <<host, stored, choice>>
    BY <1>6 DEF Reconfigure, EntryChanges, Heard
  <2>2. QED
    BY <2>1 DEF RunInv, Settled, Phases
<1>7. CASE Rediscover
  <2>1. /\ UNCHANGED <<unit, used>> /\ state = "loaded" /\ state' = "loaded"
        /\ unheard' = (unheard \/ FALSE)
        /\ ~reload' => ~reload /\ UNCHANGED <<host, stored, choice>>
    BY <1>4, <1>7 DEF Rediscover
  <2>2. QED
    BY <2>1 DEF RunInv, Settled, Phases
<1>8. QED
  BY <1>1, <1>2, <1>3, <1>5, <1>6, <1>7

\* What a choice decides on are accessories it was made from.
CoveredInv ==
  /\ choice.offered # Unset => choice.offered \subseteq covered
  /\ choice.chosen # Unset /\ choice.offered = Unset => Legacy \subseteq covered

\* However late a form is sent and whatever was discovered in between.
LEMMA SavedIsCovered ==
  ASSUME TypeInv, CoveredInv, SaveOptions
  PROVE  CoveredInv'
<1>1. PICK submitted \in MaybeSet : choice' = ChoiceOf(submitted)
  BY DEF SaveOptions, MaybeSet, TypeInv, TypeOK
<1>2. covered' = CoveredNow /\ choice \in Choices
  BY DEF SaveOptions, TypeInv, TypeOK
<1>3. CASE choice' = NoChoice
  BY <1>3 DEF NoChoice, CoveredInv
<1>4. CASE choice' # NoChoice /\ choice' = choice
  BY <1>2, <1>4 DEF CoveredNow, CoveredInv
<1>5. CASE choice' # NoChoice /\ choice' # choice /\ OfferedNow # {}
  <2>1. choice' = [chosen |-> submitted, offered |-> OfferedNow] /\ covered' = OfferedNow
    BY <1>1, <1>2, <1>5 DEF ChoiceOf, CoveredNow
  <2>2. OfferedNow # Unset
    BY UnsetAssumption DEF OfferedNow, Offered
  <2>3. QED
    BY <2>1, <2>2 DEF CoveredInv
<1>6. CASE choice' # NoChoice /\ choice' # choice /\ OfferedNow = {}
  <2>1. choice'.offered = choice.offered
    BY <1>1, <1>2, <1>6 DEF ChoiceOf, Choices
  <2>2. covered' = covered \union shown \union Legacy
    BY <1>2, <1>6 DEF CoveredNow
  <2>3. QED
    BY <2>1, <2>2 DEF CoveredInv
<1>7. QED
  BY <1>3, <1>4, <1>5, <1>6

\* A choice always decides on what it was made from.
LEMMA ChoiceIsCovered == Spec => []CoveredInv
<1>1. Init => CoveredInv
  BY DEF Init, NoChoice, CoveredInv
<1>2. TypeInv /\ CoveredInv /\ [Next]_vars => CoveredInv'
  <2> SUFFICES ASSUME TypeInv, CoveredInv, [Next]_vars PROVE CoveredInv'
    OBVIOUS
  <2> USE DEF unitVars, dataVars, runVars, registryVars, historyVars
  <2>1. CASE UNCHANGED <<choice, covered>>
    BY <2>1 DEF CoveredInv
  <2>2. ASSUME NEW h \in Hosts, Reconfigure(h) PROVE CoveredInv'
    BY <2>2 DEF Reconfigure, NoChoice, CoveredInv
  <2>3. CASE SetupStep
    <3>1. UNCHANGED <<choice, covered>>
      BY <2>3 DEF SetupStep, Retry, Reload, Setup, IdentityChecked, ProbeAnswered,
         ProbeUnexpected, ProbeGoesOn, ProbeLost, NotReady, Discover, DiscoverNothing, Fails,
         Refreshed, FeederStarted, PlatformSetUp, Loaded
    <3>2. QED
      BY <2>1, <3>1
  <2>4. CASE \/ NotReady \/ SetupError \/ UserSetup \/ Unload \/ ShowOptions
             \/ Rediscover \/ EntityChanges \/ UnitChanges \/ UNCHANGED vars
    <3>1. UNCHANGED <<choice, covered>>
      BY <2>4 DEF NotReady, SetupError, Fails, UserSetup, Setup, Unload, ShowOptions,
         Rediscover, EntityChanges, UnitChanges, vars
    <3>2. QED
      BY <2>1, <3>1
  <2>5. QED
    BY <2>2, <2>3, <2>4, SavedIsCovered DEF Next, UserStep
<1>3. QED
  BY <1>1, <1>2, EntryTypeInvariant, PTL DEF Spec

\* What is detected, and that no choice covers, is in use.
LEMMA UncoveredIsUsed ==
  ASSUME CoveredInv, NEW r \in Resolved(stored.present),
         {a \in Accessories : r \in Keys[a]} \subseteq stored.accessories \ covered
  PROVE  r \in Used(stored, choice)
<1>1. ASSUME NEW a \in Accessories, r \in Keys[a] PROVE a \in Active(stored, choice)
  <2>1. a \in stored.accessories /\ a \notin covered
    BY <1>1
  <2>2. CASE choice.chosen = Unset
    BY <2>1, <2>2 DEF Active
  <2>3. CASE choice.chosen # Unset
    <3>1. Decides(choice) \subseteq covered
      BY <2>3 DEF CoveredInv, Decides
    <3>2. QED
      BY <2>1, <2>3, <3>1 DEF Active
  <2>4. QED
    BY <2>2, <2>3
<1>2. QED
  BY <1>1 DEF Used, InUse

(***************************************************************************)
(* A loaded entry runs with what is stored, and what was detected after    *)
(* the choice was made is in use.                                          *)
(***************************************************************************)
THEOREM LoadedAlwaysRunsWhatIsStored == Spec => []LoadedRunsWhatIsStored
<1>1. Init => RunInv
  BY DEF Init, RunInv, Settled, Phases
<1>2. TypeInv /\ RunInv /\ [Next]_vars => RunInv'
  <2> SUFFICES ASSUME TypeInv, RunInv, [Next]_vars PROVE RunInv'
    OBVIOUS
  <2>1. CASE UNCHANGED vars
    BY <2>1 DEF vars, RunInv, Settled
  <2>2. CASE Next
    BY <2>2, SetupRuns, UserRuns DEF Next, UserStep
  <2>3. QED
    BY <2>1, <2>2
<1>3. RunInv /\ CoveredInv => LoadedRunsWhatIsStored
  BY UncoveredIsUsed DEF RunInv, Settled, LoadedRunsWhatIsStored
<1>4. QED
  BY <1>1, <1>2, <1>3, EntryTypeInvariant, ChoiceIsCovered, PTL DEF Spec

-----------------------------------------------------------------------------
\* What makes DetectedFilterStays inductive: a discovery has read the filters
\* before it probes.
KnownInv ==
  /\ DetectedFilterStays
  /\ state \in {"probe", "detect"} => known \subseteq before

(***************************************************************************)
(* A detected filter is kept while the connection is the same.             *)
(***************************************************************************)
THEOREM DetectedFilterAlwaysStays == Spec => []DetectedFilterStays
<1>1. Init => KnownInv
  BY DEF Init, KnownInv, DetectedFilterStays
<1>2. TypeInv /\ KnownInv /\ [Next]_vars => KnownInv'
  <2> SUFFICES ASSUME TypeInv, KnownInv, [Next]_vars PROVE KnownInv'
    OBVIOUS
  <2> USE DEF unitVars, dataVars, runVars, registryVars, historyVars
  <2>1. ASSUME UNCHANGED <<stored, known, before>>,
               state' \in {"probe", "detect"} => state \in {"probe", "detect"}
        PROVE  KnownInv'
    BY <2>1 DEF KnownInv, DetectedFilterStays
  <2>2. CASE Discover
    <3>1. state = "detect" /\ state' = "refresh"
      BY <2>2 DEF Discover
    <3>2. QED
      BY <2>2, <3>1, DiscoverTypes DEF KnownInv, DetectedFilterStays
  <2>3. ASSUME NEW h \in Hosts, Reconfigure(h) PROVE KnownInv'
    <3>1. UNCHANGED <<state, before>>
      BY <2>3 DEF Reconfigure, EntryChanges
    <3>2. CASE h = host
      <4>1. stored' = WithoutDiscovery(stored, TRUE) /\ known' = known
        BY <2>3, <3>2 DEF Reconfigure
      <4>2. QED
        BY <3>1, <4>1, WithoutDiscoveryType DEF KnownInv, DetectedFilterStays, TypeInv, TypeOK
    <3>3. CASE h # host
      <4>1. known' = {}
        BY <2>3, <3>3 DEF Reconfigure
      <4>2. QED
        BY <4>1 DEF KnownInv, DetectedFilterStays
    <3>4. QED
      BY <3>2, <3>3
  <2>4. CASE Rediscover
    <3>1. /\ stored' = WithoutDiscovery(stored, TRUE) /\ known' = known
          /\ UNCHANGED <<state, before>>
      BY <2>4 DEF Rediscover, EntryChanges
    <3>2. QED
      BY <3>1, WithoutDiscoveryType DEF KnownInv, DetectedFilterStays, TypeInv, TypeOK
  <2>5. CASE IdentityChecked
    <3>1. /\ UNCHANGED <<stored, known>>
          /\ state' = "refresh" \/ before' = stored.accessories
      BY <2>5 DEF IdentityChecked
    <3>2. QED
      BY <3>1 DEF KnownInv, DetectedFilterStays
  <2>6. CASE \/ Retry \/ Reload \/ UserSetup \/ ProbeAnswered \/ ProbeUnexpected
             \/ Refreshed \/ FeederStarted \/ (\E p \in Platforms : PlatformSetUp(p))
             \/ Loaded
    <3>1. /\ UNCHANGED <<stored, known, before>>
          /\ state' \in {"probe", "detect"} => state \in {"probe", "detect"}
      BY <2>6 DEF Retry, Reload, UserSetup, Setup, SetupBegins, ProbeAnswered,
         ProbeUnexpected, ProbeGoesOn, Refreshed, FeederStarted, PlatformSetUp, Loaded
    <3>2. QED
      BY <2>1, <3>1
  <2>7. CASE NotReady \/ SetupError \/ DiscoverNothing \/ ProbeLost \/ Unload
    <3>1. /\ UNCHANGED <<stored, known, before>>
          /\ state' \in {"probe", "detect"} => state \in {"probe", "detect"}
      BY <2>7 DEF NotReady, SetupError, DiscoverNothing, ProbeLost, Fails, Unload
    <3>2. QED
      BY <2>1, <3>1
  <2>8. CASE ShowOptions \/ SaveOptions \/ EntityChanges \/ UnitChanges \/ UNCHANGED vars
    <3>1. UNCHANGED <<stored, known, before, state>>
      BY <2>8 DEF ShowOptions, SaveOptions, EntryChanges, EntityChanges, UnitChanges, vars
    <3>2. QED
      BY <2>1, <3>1
  <2>9. QED
    BY <2>2, <2>3, <2>4, <2>5, <2>6, <2>7, <2>8 DEF Next, SetupStep, UserStep
<1>3. KnownInv => DetectedFilterStays
  BY DEF KnownInv
<1>4. QED
  BY <1>1, <1>2, <1>3, EntryTypeInvariant, PTL DEF Spec

-----------------------------------------------------------------------------
(***************************************************************************)
(* What makes EntitiesFollowTheSetup inductive: a setup has created the    *)
(* entities of the platforms that are through, which are none before the   *)
(* platforms, and they are enabled unless the user or their default        *)
(* disabled them.                                                          *)
(***************************************************************************)
EntityInv ==
  /\ EntitiesFollowTheSetup
  /\ \A r \in marked : registry[r] # "absent"
  /\ state \in Phases \ {"platforms"} => platformsUp = {}
  /\ state \in Phases \union {"loaded"} =>
       /\ created = {r \in used : PlatformOf[r] \in platformsUp}
       /\ \A r \in created \ declined : registry[r] = "enabled"

\* The steps of a setup that are not about entities.
LEMMA SetupEntities ==
  ASSUME TypeInv, EntityInv,
         \/ \E from \in {"not_loaded", "retry", "loaded", "error"} : Setup(from)
         \/ IdentityChecked \/ ProbeAnswered \/ ProbeUnexpected \/ Discover
         \/ Refreshed \/ FeederStarted \/ NotReady \/ SetupError \/ DiscoverNothing
         \/ Unload
  PROVE  EntityInv'
<1> USE DEF unitVars, dataVars, runVars, registryVars, historyVars
<1>1. UNCHANGED <<registry, marked, declined>> /\ state' # "loaded"
  BY DEF Setup, SetupBegins, IdentityChecked, ProbeAnswered, ProbeUnexpected, ProbeGoesOn,
     Discover, Refreshed, FeederStarted, NotReady, SetupError, DiscoverNothing, Fails,
     Unload
<1>2. EntitiesFollowTheSetup' /\ \A r \in marked' : registry'[r] # "absent"
  BY <1>1 DEF EntityInv, EntitiesFollowTheSetup
<1>3. ASSUME NEW from, Setup(from) PROVE EntityInv'
  <2>1. platformsUp' = {} /\ created' = {}
    BY <1>3 DEF Setup, SetupBegins
  <2>2. QED
    BY <1>2, <2>1 DEF EntityInv
<1>4. CASE IdentityChecked \/ ProbeAnswered \/ ProbeUnexpected \/ Discover \/ Refreshed
           \/ FeederStarted
  <2>1. state \in Phases \ {"platforms"} /\ UNCHANGED <<platformsUp, created>>
    BY <1>4 DEF IdentityChecked, ProbeAnswered, ProbeUnexpected, ProbeGoesOn, Discover,
       Refreshed, FeederStarted, Phases
  <2>2. platformsUp' = {} /\ created' = {}
    BY <2>1 DEF EntityInv
  <2>3. QED
    BY <1>2, <2>2 DEF EntityInv
<1>5. CASE NotReady \/ SetupError \/ DiscoverNothing \/ Unload
  <2>1. state' \notin Phases \union {"loaded"}
    BY <1>5 DEF NotReady, SetupError, DiscoverNothing, Fails,
     Unload, Phases
  <2>2. QED
    BY <1>2, <2>1 DEF EntityInv
<1>6. QED
  BY <1>3, <1>4, <1>5

\* An entity that the user or its default left disabled.
LeftDisabled(r) == registry[r] = "user" \/ (registry[r] = "integration" /\ r \notin marked)

\* By entity.
LEMMA DeclinedByEntity ==
  ASSUME declined \subseteq AllRegisters
  PROVE  declined = {r \in AllRegisters :
           registry[r] = "user" \/ (registry[r] = "integration" /\ r \notin marked)}
           <=> \A r \in AllRegisters : r \in declined <=> LeftDisabled(r)
BY DEF LeftDisabled

\* A platform that is set up enables what it creates, unless the user or its
\* default left it disabled.
LEMMA PlatformEntities ==
  ASSUME TypeInv, EntityInv, NEW p \in Platforms, PlatformSetUp(p)
  PROVE  EntityInv'
<1> DEFINE entities == {r \in used : PlatformOf[r] = p}
           new == {r \in entities : registry[r] = "absent"}
           returned == {r \in entities : Returned(r)}
<1>1. /\ state = "platforms" /\ state' = "platforms" /\ UNCHANGED used
      /\ platformsUp' = platformsUp \union {p} /\ created' = created \union entities
      /\ registry' = [r \in AllRegisters |->
           IF r \in (new \ DefaultOff) \union returned THEN "enabled"
           ELSE IF r \in new THEN "integration" ELSE registry[r]]
      /\ marked' = marked \ returned
      /\ declined' = declined \union (new \intersect DefaultOff)
  BY DEF PlatformSetUp
<1>2. /\ used \subseteq AllRegisters /\ created \subseteq AllRegisters
      /\ registry \in [AllRegisters -> InRegistry] /\ declined \subseteq AllRegisters
      /\ declined' \subseteq AllRegisters /\ marked \subseteq AllRegisters
  BY <1>1 DEF TypeInv, TypeOK
<1>3. created' = {r \in used' : PlatformOf[r] \in platformsUp'}
  BY <1>1 DEF EntityInv, Phases
<1>4. ASSUME NEW r \in AllRegisters PROVE r \in declined' <=> LeftDisabled(r)'
  <2>1. r \in declined <=> LeftDisabled(r)
    BY <1>2, <1>4, DeclinedByEntity DEF EntityInv, EntitiesFollowTheSetup
  <2>2. CASE r \in new \intersect DefaultOff
    <3>1. r \notin marked'
      BY <1>1, <2>2 DEF EntityInv
    <3>2. registry'[r] = "integration" /\ r \in declined'
      BY <1>1, <1>4, <2>2 DEF Returned
    <3>3. QED
      BY <3>1, <3>2 DEF LeftDisabled
  <2>3. CASE r \in (new \ DefaultOff) \union returned
    BY <1>1, <1>4, <2>1, <2>3 DEF LeftDisabled, Returned
  <2>4. CASE r \notin new \union returned
    BY <1>1, <1>4, <2>1, <2>4 DEF LeftDisabled
  <2>5. QED
    BY <2>2, <2>3, <2>4
<1>5. ASSUME NEW r \in created' \ declined' PROVE registry'[r] = "enabled"
  <2>1. r \in AllRegisters /\ r \notin declined /\ registry[r] \in InRegistry
    BY <1>1, <1>2, <1>5
  <2>2. CASE r \in created
    <3>1. registry[r] = "enabled"
      BY <1>1, <2>1, <2>2 DEF EntityInv, Phases
    <3>2. QED
      BY <1>1, <2>1, <3>1
  <2>3. CASE r \in entities
    <3>1. registry[r] = "absent" \/ registry[r] = "enabled" \/ Returned(r)
      BY <1>2, <2>1, DeclinedByEntity
      DEF EntityInv, EntitiesFollowTheSetup, LeftDisabled, InRegistry, Returned
    <3>2. QED
      BY <1>1, <1>5, <2>1, <2>3, <3>1
  <2>4. QED
    BY <1>1, <1>5, <2>2, <2>3
<1>6. EntitiesFollowTheSetup'
  <2>1. declined' = {r \in AllRegisters :
          registry'[r] = "user" \/ (registry'[r] = "integration" /\ r \notin marked')}
    BY <1>2, <1>4 DEF LeftDisabled
  <2>2. QED
    BY <1>1, <2>1 DEF EntitiesFollowTheSetup
<1>7. \A r \in marked' : registry'[r] # "absent"
  BY <1>1, <1>2 DEF EntityInv
<1>8. QED
  BY <1>1, <1>3, <1>5, <1>6, <1>7 DEF EntityInv

\* The cleanup disables what the setup did not create.
LEMMA LoadedEntities ==
  ASSUME TypeInv, EntityInv, Loaded
  PROVE  EntityInv'
<1>1. /\ state = "platforms" /\ state' = "loaded"
      /\ UNCHANGED <<used, declined, platformsUp, created, reload>>
      /\ registry' = [r \in AllRegisters |->
                        IF Orphaned(r) THEN "integration" ELSE registry[r]]
      /\ marked' = marked \union {r \in AllRegisters : Orphaned(r)}
  BY DEF Loaded, runVars, historyVars
<1>2. /\ used \subseteq AllRegisters /\ created \subseteq AllRegisters
      /\ registry \in [AllRegisters -> InRegistry] /\ declined \subseteq AllRegisters
      /\ marked \subseteq AllRegisters
  BY DEF TypeInv, TypeOK
<1>3. /\ created = {r \in used : PlatformOf[r] \in platformsUp}
      /\ \A r \in created \ declined : registry[r] = "enabled"
      /\ \A r \in AllRegisters : r \in declined <=> LeftDisabled(r)
  BY <1>1, <1>2, DeclinedByEntity DEF EntityInv, EntitiesFollowTheSetup, Phases
<1>4. \A r \in AllRegisters : r \in declined' <=> LeftDisabled(r)'
  BY <1>1, <1>3 DEF Orphaned, LeftDisabled
<1>5. \A r \in created' \ declined' : registry'[r] = "enabled"
  BY <1>1, <1>2, <1>3 DEF Orphaned
<1>6. ASSUME NEW r \in AllRegisters \ declined', PlatformOf[r] \in platformsUp'
      PROVE  registry'[r] = "enabled" <=> r \in used'
  <2>1. CASE r \in used
    BY <1>1, <1>3, <1>5, <1>6, <2>1
  <2>2. CASE r \notin used
    <3>1. r \notin created
      BY <1>3, <2>2
    <3>2. registry'[r] # "enabled"
      BY <1>1, <1>6, <3>1 DEF Orphaned
    <3>3. QED
      BY <1>1, <2>2, <3>2
  <2>3. QED
    BY <2>1, <2>2
<1>7. EntitiesFollowTheSetup'
  <2>1. declined' = {r \in AllRegisters :
          registry'[r] = "user" \/ (registry'[r] = "integration" /\ r \notin marked')}
    BY <1>1, <1>2, <1>4 DEF LeftDisabled
  <2>2. QED
    BY <1>6, <2>1 DEF EntitiesFollowTheSetup
<1>8. \A r \in marked' : registry'[r] # "absent"
  BY <1>1, <1>2 DEF EntityInv
<1>9. QED
  BY <1>1, <1>3, <1>5, <1>7, <1>8 DEF EntityInv, Phases

\* The user disables an entity or enables it again.
LEMMA UserEntities ==
  ASSUME TypeInv, EntityInv, EntityChanges
  PROVE  EntityInv'
<1>1. PICK r \in AllRegisters : UserDisables(r) \/ UserEnables(r)
  BY DEF EntityChanges
<1>2. UNCHANGED <<state, used, created, platformsUp, marked>>
  BY DEF EntityChanges, runVars
<1>3. registry \in [AllRegisters -> InRegistry] /\ declined \subseteq AllRegisters
      /\ created \subseteq AllRegisters
  BY DEF TypeInv, TypeOK
<1>4. \A q \in AllRegisters : q \in declined <=> LeftDisabled(q)
  BY <1>3, DeclinedByEntity DEF EntityInv, EntitiesFollowTheSetup
<1>5. /\ registry' = [registry EXCEPT ![r] = registry'[r]]
      /\ \/ registry'[r] = "user" /\ declined' = declined \union {r} /\ reload' = reload
         \/ registry'[r] = "enabled" /\ declined' = declined \ {r} /\ reload' = TRUE
  BY <1>1, <1>3 DEF UserDisables, UserEnables
<1>6. \A q \in AllRegisters : q # r =>
        registry'[q] = registry[q] /\ (q \in declined' <=> q \in declined)
  BY <1>3, <1>5
<1>7. \A q \in AllRegisters : q \in declined' <=> LeftDisabled(q)'
  BY <1>2, <1>4, <1>5, <1>6 DEF LeftDisabled
<1>8. EntitiesFollowTheSetup'
  <2>1. declined' \subseteq AllRegisters
    BY <1>3, <1>5
  <2>2. declined' = {q \in AllRegisters :
          registry'[q] = "user" \/ (registry'[q] = "integration" /\ q \notin marked')}
    BY <1>7, <2>1 DEF LeftDisabled
  <2>3. QED
    BY <1>2, <1>5, <1>6, <2>2 DEF EntityInv, EntitiesFollowTheSetup
<1>9. ASSUME state \in Phases \union {"loaded"}, NEW q \in created' \ declined'
       PROVE  registry'[q] = "enabled"
  BY <1>2, <1>3, <1>5, <1>6, <1>9 DEF EntityInv
<1>10. \A q \in marked' : registry'[q] # "absent"
  BY <1>2, <1>3, <1>5 DEF EntityInv, TypeInv, TypeOK
<1>11. QED
  BY <1>2, <1>8, <1>9, <1>10 DEF EntityInv

(***************************************************************************)
(* The registry follows the setups and leaves the user his say.            *)
(***************************************************************************)
THEOREM EntitiesAlwaysFollowTheSetup == Spec => []EntitiesFollowTheSetup
<1>1. Init => EntityInv
  BY DEF Init, EntityInv, EntitiesFollowTheSetup, Phases
<1>2. TypeInv /\ EntityInv /\ [Next]_vars => EntityInv'
  <2> SUFFICES ASSUME TypeInv, EntityInv, [Next]_vars PROVE EntityInv'
    OBVIOUS
  <2>1. CASE \/ ShowOptions \/ SaveOptions \/ (\E h \in Hosts : Reconfigure(h))
             \/ Rediscover \/ UnitChanges \/ UNCHANGED vars
    <3>1. ASSUME UNCHANGED <<state, registry, marked, used, created, platformsUp, declined>>,
                 reload => reload'
          PROVE  EntityInv'
      BY <3>1 DEF EntityInv, EntitiesFollowTheSetup
    <3>2. CASE ShowOptions \/ UnitChanges \/ UNCHANGED vars
      BY <3>1, <3>2 DEF ShowOptions, UnitChanges, vars, runVars, registryVars, historyVars
    <3>3. CASE SaveOptions
      BY <3>1, <3>3 DEF SaveOptions, EntryChanges, runVars, registryVars
    <3>4. ASSUME NEW h \in Hosts, Reconfigure(h) PROVE EntityInv'
      BY <3>1, <3>4 DEF Reconfigure, EntryChanges, runVars, registryVars
    <3>5. CASE Rediscover
      BY <3>1, <3>5 DEF Rediscover, EntryChanges, runVars, registryVars
    <3>6. QED
      BY <2>1, <3>2, <3>3, <3>4, <3>5
  <2>2. CASE SetupStep \/ NotReady \/ SetupError \/ UserSetup \/ Unload
    BY <2>2, SetupEntities, PlatformEntities, LoadedEntities
       DEF SetupStep, Retry, Reload, UserSetup, ProbeLost
  <2>3. QED
    BY <2>1, <2>2, UserEntities DEF Next, UserStep
<1>3. EntityInv => EntitiesFollowTheSetup
  BY DEF EntityInv
<1>4. QED
  BY <1>1, <1>2, <1>3, EntryTypeInvariant, PTL DEF Spec

-----------------------------------------------------------------------------
(***************************************************************************)
(* What makes DiscoveryIsTrue inductive: a probe has found registers of    *)
(* the unit only, and of those it has passed it misses only the silent     *)
(* ones.  The discovery stored is never an empty one, which would be       *)
(* probed again beside it.                                                 *)
(***************************************************************************)
Passed(p, r) ==
  \E n \in DOMAIN Groups : \E k \in DOMAIN Groups[n] :
    /\ r = Groups[n][k]
    /\ n < p.group \/ (n = p.group /\ k < p.single)

ProbeIsTrue ==
  /\ probe.present \subseteq Has[unit]
  /\ \A r \in Has[unit] : Passed(probe, r) => r \in probe.present \union silent

DiscoveryInv ==
  /\ DiscoveryIsTrue
  /\ stored.valid => stored.present # {}
  /\ state \in {"probe", "detect"} => ProbeIsTrue
  /\ state = "detect" => Probed(probe)

\* The next probe has passed what was asked, besides what was passed before.
LEMMA NextProbePassed ==
  ASSUME NEW p, WellFormed(p), ~Probed(p), NEW r, Passed(NextProbe(p), r)
  PROVE  Passed(p, r) \/ r \in Asked(p)
<1>1. /\ p.group \in DOMAIN Groups /\ Len(Groups[p.group]) \in Nat \ {0}
      /\ p.single \in 0..Len(Groups[p.group]) /\ p \in Probes
      /\ Groups \in Seq(Seq(Registers)) /\ Groups[p.group] \in Seq(Registers)
  BY AskedRegisters, DiscoveryAssumption DEF WellFormed
<1>2. PICK n \in DOMAIN Groups : \E k \in DOMAIN Groups[n] :
        /\ r = Groups[n][k]
        /\ n < NextProbe(p).group \/ (n = NextProbe(p).group /\ k < NextProbe(p).single)
  BY DEF Passed
<1>3. PICK k \in DOMAIN Groups[n] :
        /\ r = Groups[n][k]
        /\ n < NextProbe(p).group \/ (n = NextProbe(p).group /\ k < NextProbe(p).single)
  BY <1>2
<1>4. /\ n \in Nat /\ k \in Nat \ {0} /\ Groups[n] \in Seq(Registers)
      /\ k <= Len(Groups[n])
  BY <1>1, <1>2, <1>3
<1>5. CASE n < p.group \/ (n = p.group /\ k < p.single)
  BY <1>3, <1>5 DEF Passed
<1>6. CASE n = p.group /\ k >= p.single
  <2>1. p.single = 0 \/ k = p.single
    <3>1. CASE p.single \in 1..(Len(Groups[p.group]) - 1)
      <4>1. NextProbe(p).group = p.group /\ NextProbe(p).single = p.single + 1
        BY <1>1, <3>1 DEF NextProbe, Probes
      <4>2. QED
        BY <1>1, <1>3, <1>4, <1>6, <4>1
    <3>2. CASE p.single \notin 1..(Len(Groups[p.group]) - 1)
      BY <1>1, <1>4, <1>6, <3>2
    <3>3. QED
      BY <3>1, <3>2
  <2>2. QED
    BY <1>1, <1>3, <1>4, <1>6, <2>1 DEF Asked
<1>7. CASE n > p.group
  <2>1. CASE p.single \in 1..(Len(Groups[p.group]) - 1)
    <3>1. NextProbe(p).group = p.group
      BY <1>1, <2>1 DEF NextProbe, Probes
    <3>2. QED
      BY <1>1, <1>3, <1>4, <1>7, <3>1
  <2>2. CASE p.single \notin 1..(Len(Groups[p.group]) - 1)
    <3>1. p.group + 1 \in 1..(Len(Groups) + 1) /\ p.present \in SUBSET Registers
      BY <1>1 DEF Probes
    <3>2. NextProbe(p) = AtGroup(p.group + 1, p.present)
      BY <2>2 DEF NextProbe
    <3>3. NextProbe(p).group = p.group + 1 /\ NextProbe(p).single \in {0, 1}
      BY <3>1, <3>2, AtGroupWellFormed
    <3>4. QED
      BY <1>1, <1>3, <1>4, <1>7, <3>3
  <2>3. QED
    BY <2>1, <2>2
<1>8. QED
  BY <1>1, <1>4, <1>5, <1>6, <1>7

\* Only a register asked on its own is given up; a group at once is not.
LEMMA ProbePassed ==
  ASSUME NEW p, WellFormed(p), ~Probed(p), NEW r
  PROVE  /\ Passed(Answers(p), r) => Passed(p, r) \/ r \in Asked(p)
         /\ Passed(Gone(p), r) => Passed(p, r) \/ (p.single # 0 /\ r \in Asked(p))
         /\ Passed(Unexpected(p), r) =>
              \/ Passed(p, r)
              \/ p.single # 0 /\ p.attempt = ProbeAttempts /\ r \in Asked(p)
         /\ Answers(p).present = p.present \union Asked(p)
         /\ Gone(p).present = p.present /\ Unexpected(p).present = p.present
<1>1. /\ p.group \in DOMAIN Groups /\ Len(Groups[p.group]) \in Nat \ {0}
      /\ p.single \in 0..Len(Groups[p.group]) /\ p \in Probes
      /\ Asked(p) \subseteq Registers
  BY AskedRegisters DEF WellFormed
<1>2. /\ Passed(Answers(p), r) => Passed(p, r) \/ r \in Asked(p)
      /\ Answers(p).present = p.present \union Asked(p)
  <2> DEFINE q == [p EXCEPT !.present = @ \union Asked(p)]
  <2>1. /\ WellFormed(q) /\ ~Probed(q) /\ q.present = p.present \union Asked(p)
        /\ q.group = p.group /\ q.single = p.single
    BY <1>1 DEF WellFormed, Probes, Probed
  <2>2. Answers(p) = NextProbe(q)
    BY DEF Answers
  <2> HIDE DEF q
  <2>3. Asked(q) = Asked(p) /\ (Passed(q, r) => Passed(p, r))
    BY <2>1 DEF Asked, Passed
  <2>4. QED
    BY <2>1, <2>2, <2>3, NextProbePassed, NextProbeWellFormed
<1>3. /\ Passed(Gone(p), r) => Passed(p, r) \/ (p.single # 0 /\ r \in Asked(p))
      /\ Gone(p).present = p.present
  <2>1. CASE p.single = 0
    <3> DEFINE q == [p EXCEPT !.single = 1]
    <3>1. q.group = p.group /\ q.single = 1 /\ q.present = p.present
      BY <1>1 DEF Probes
    <3>2. Gone(p) = q
      BY <2>1 DEF Gone
    <3> HIDE DEF q
    <3>3. \A n \in DOMAIN Groups : \A k \in DOMAIN Groups[n] : ~(k < 1)
      BY DiscoveryAssumption
    <3>4. QED
      BY <3>1, <3>2, <3>3 DEF Passed
  <2>2. CASE p.single # 0
    BY <2>2, NextProbePassed, NextProbeWellFormed DEF Gone
  <2>3. QED
    BY <2>1, <2>2
<1>4. /\ Passed(Unexpected(p), r) =>
           \/ Passed(p, r)
           \/ p.single # 0 /\ p.attempt = ProbeAttempts /\ r \in Asked(p)
      /\ Unexpected(p).present = p.present
  <2>1. CASE p.single # 0 /\ p.attempt < ProbeAttempts
    <3> DEFINE q == [p EXCEPT !.attempt = p.attempt + 1]
    <3>1. q.group = p.group /\ q.single = p.single /\ q.present = p.present
      BY <1>1 DEF Probes
    <3>2. Unexpected(p) = q
      BY <2>1 DEF Unexpected
    <3> HIDE DEF q
    <3>3. QED
      BY <3>1, <3>2 DEF Passed
  <2>2. CASE ~(p.single # 0 /\ p.attempt < ProbeAttempts)
    <3>1. p.single # 0 => p.attempt = ProbeAttempts
      BY <1>1, <2>2, DiscoveryAssumption DEF Probes
    <3>2. Unexpected(p) = Gone(p)
      BY <2>2 DEF Unexpected
    <3>3. QED
      BY <1>3, <3>1, <3>2
  <2>3. QED
    BY <2>1, <2>2
<1>5. QED
  BY <1>2, <1>3, <1>4

\* A probe that begins has passed nothing.
LEMMA FirstProbePassed ==
  /\ FirstProbe.present = {}
  /\ \A r : ~Passed(FirstProbe, r)
<1>1. 1 \in 1..(Len(Groups) + 1) /\ {} \in SUBSET Registers
  BY DiscoveryAssumption
<1>2. FirstProbe.group = 1 /\ FirstProbe.single \in {0, 1} /\ FirstProbe.present = {}
  BY <1>1, AtGroupWellFormed DEF FirstProbe
<1>3. \A n \in DOMAIN Groups : ~(n < 1) /\ \A k \in DOMAIN Groups[n] : ~(k < 0) /\ ~(k < 1)
  BY DiscoveryAssumption
<1>4. QED
  BY <1>2, <1>3 DEF Passed

\* Whatever the unit answers to a probe, the probe stays true.
LEMMA ProbeStaysTrue ==
  ASSUME TypeInv, DiscoveryInv, ProbeAnswered \/ ProbeUnexpected
  PROVE  DiscoveryInv'
<1> USE DEF unitVars, dataVars, runVars, registryVars, historyVars
<1>1. /\ state = "probe" /\ WellFormed(probe) /\ ~Probed(probe) /\ ProbeIsTrue
      /\ UNCHANGED <<unit, stored, storedOf>> /\ silent \subseteq silent'
      /\ state' = IF Probed(probe') THEN "detect" ELSE "probe"
  BY DEF TypeInv, DiscoveryInv, ProbeAnswered, ProbeUnexpected, ProbeGoesOn
<1>2. /\ probe'.present \subseteq Has[unit]
      /\ \A r \in Has[unit] : Passed(probe', r) => r \in probe'.present \union silent'
  <2>1. CASE ProbeAnswered /\ Asked(probe) \subseteq Has[unit]
    <3>1. probe' = Answers(probe)
      BY <2>1 DEF ProbeAnswered, ProbeGoesOn
    <3>2. QED
      BY <1>1, <2>1, <3>1, ProbePassed DEF ProbeIsTrue
  <2>2. CASE ProbeAnswered /\ ~(Asked(probe) \subseteq Has[unit])
    <3>1. probe' = Gone(probe)
      BY <2>2 DEF ProbeAnswered, ProbeGoesOn
    <3>2. \A r \in Has[unit] : ~(probe.single # 0 /\ r \in Asked(probe))
      BY <2>2 DEF Asked
    <3>3. QED
      BY <1>1, <3>1, <3>2, ProbePassed DEF ProbeIsTrue
  <2>3. CASE ProbeUnexpected
    <3>1. /\ probe' = Unexpected(probe)
          /\ probe.single # 0 /\ probe.attempt = ProbeAttempts =>
               Asked(probe) \subseteq silent'
      BY <2>3 DEF ProbeUnexpected, ProbeGoesOn
    <3>2. QED
      BY <1>1, <3>1, ProbePassed DEF ProbeIsTrue
  <2>4. QED
    BY <2>1, <2>2, <2>3
<1>3. ProbeIsTrue'
  BY <1>1, <1>2 DEF ProbeIsTrue, Passed
<1>4. DiscoveryIsTrue'
  BY <1>1 DEF DiscoveryInv, DiscoveryIsTrue
<1>5. QED
  BY <1>1, <1>3, <1>4 DEF DiscoveryInv

\* What is stored is what a probe that has passed all registers found.
LEMMA DiscoverIsTrue ==
  ASSUME TypeInv, DiscoveryInv, Discover
  PROVE  DiscoveryInv'
<1>1. /\ state = "detect" /\ state' = "refresh" /\ storedOf' = unit /\ silent' = silent
      /\ probe.present # {} /\ stored'.valid /\ stored'.present = probe.present
  BY DEF Discover
<1>2. Probed(probe) /\ ProbeIsTrue /\ unit \in Hosts
  BY <1>1 DEF DiscoveryInv, TypeInv, TypeOK
<1>3. \A r \in Registers : Passed(probe, r)
  <2>1. \A n \in DOMAIN Groups : n < probe.group
    BY <1>2, DiscoveryAssumption DEF Probed, TypeInv, WellFormed, Probes
  <2>2. QED
    BY <2>1, DiscoveryAssumption DEF Passed
<1>4. Has[unit] \subseteq Registers
  BY <1>2, EntryAssumption
<1>5. QED
  BY <1>1, <1>2, <1>3, <1>4 DEF DiscoveryInv, DiscoveryIsTrue, ProbeIsTrue

(***************************************************************************)
(* A stored discovery is complete and true of the unit it was made on.     *)
(***************************************************************************)
THEOREM DiscoveryIsAlwaysTrue == Spec => []DiscoveryIsTrue
<1>1. Init => DiscoveryInv
  BY DEF Init, DiscoveryInv, DiscoveryIsTrue, NoDiscovery
<1>2. TypeInv /\ DiscoveryInv /\ [Next]_vars => DiscoveryInv'
  <2> SUFFICES ASSUME TypeInv, DiscoveryInv, [Next]_vars PROVE DiscoveryInv'
    OBVIOUS
  <2> USE DEF unitVars, dataVars, runVars, registryVars, historyVars
  <2>1. ASSUME UNCHANGED <<stored, storedOf, silent>>, state' \notin {"probe", "detect"}
        PROVE  DiscoveryInv'
    BY <2>1 DEF DiscoveryInv, DiscoveryIsTrue
  <2>2. ASSUME \/ ~stored'.valid \/ UNCHANGED <<stored, storedOf>>,
               UNCHANGED <<state, unit, probe, silent>>
        PROVE  DiscoveryInv'
    BY <2>2 DEF DiscoveryInv, DiscoveryIsTrue, ProbeIsTrue, Passed, Probed
  <2>3. CASE IdentityChecked
    <3>1. CASE MustProbe(stored)
      <4>1. /\ state' = "probe" /\ probe' = FirstProbe /\ UNCHANGED <<stored, storedOf>>
        BY <2>3, <3>1 DEF IdentityChecked
      <4>2. ~stored.valid
        BY <3>1 DEF DiscoveryInv, MustProbe
      <4>3. ProbeIsTrue'
        BY <4>1, FirstProbePassed DEF ProbeIsTrue, Passed
      <4>4. QED
        BY <4>1, <4>2, <4>3 DEF DiscoveryInv, DiscoveryIsTrue
    <3>2. CASE ~MustProbe(stored)
      BY <2>1, <2>3, <3>2 DEF IdentityChecked
    <3>3. QED
      BY <3>1, <3>2
  <2>4. CASE \/ (\E from \in {"not_loaded", "retry", "loaded", "error"} : Setup(from))
             \/ Refreshed \/ FeederStarted \/ (\E p \in Platforms : PlatformSetUp(p))
             \/ Loaded \/ NotReady \/ SetupError \/ DiscoverNothing \/ Unload
    BY <2>1, <2>4 DEF Setup, SetupBegins, Refreshed, FeederStarted, PlatformSetUp, Loaded,
       NotReady, SetupError, DiscoverNothing, Fails, Unload
  <2>5. CASE ShowOptions \/ EntityChanges \/ UnitChanges \/ UNCHANGED vars
    BY <2>2, <2>5 DEF ShowOptions, EntityChanges, UnitChanges, vars
  <2>6. CASE SaveOptions
    BY <2>2, <2>6 DEF SaveOptions, EntryChanges
  <2>7. ASSUME NEW h \in Hosts, Reconfigure(h) PROVE DiscoveryInv'
    <3>1. ~stored'.valid
      BY <2>7, WithoutDiscoveryType DEF Reconfigure, TypeInv, TypeOK
    <3>2. QED
      BY <2>2, <2>7, <3>1 DEF Reconfigure, EntryChanges
  <2>8. CASE Rediscover
    <3>1. ~stored'.valid
      BY <2>8, WithoutDiscoveryType DEF Rediscover, TypeInv, TypeOK
    <3>2. QED
      BY <2>2, <2>8, <3>1 DEF Rediscover, EntryChanges
  <2>9. QED
    BY <2>3, <2>4, <2>5, <2>6, <2>7, <2>8, ProbeStaysTrue, DiscoverIsTrue
       DEF Next, SetupStep, Retry, Reload, UserStep, UserSetup, ProbeLost
<1>3. DiscoveryInv => DiscoveryIsTrue
  BY DEF DiscoveryInv
<1>4. QED
  BY <1>1, <1>2, <1>3, EntryTypeInvariant, PTL DEF Spec
=============================================================================
