------------------------------- MODULE Entry -------------------------------
(***************************************************************************)
(* A config entry: its setup with the discovery of the unit, its unload    *)
(* and reload (__init__.py), the options and reconfigure flows             *)
(* (config_flow.py), the rediscover button (button.py) and the entities in *)
(* the registry (entity.py).                                               *)
(*                                                                         *)
(* The setup awaits the unit; each request is a step, and the flows and    *)
(* the user act between any two of them.  The update listener that reloads *)
(* the entry is there only once the entry is loaded.  A reload is one step *)
(* up to the first request of the new setup.                               *)
(*                                                                         *)
(* An entity stands for each register, on the platform PlatformOf.         *)
(***************************************************************************)
EXTENDS Discovery, FiniteSets

CONSTANTS
  Hosts,            \* the connections that can be configured
  Has,              \* the registers of the unit there, by host
  Platforms,
  PlatformOf,       \* by register
  DefaultOff,       \* registers whose entity is created disabled
  Closed,           \* no options form is open
  UserChanges,      \* what the user does in this instance
  TroubleLimit,     \* bound: requests and platforms that fail
  ChangeLimit       \* bound: what the user changes

ASSUME EntryAssumption ==
  /\ Has \in [Hosts -> SUBSET Registers]
  /\ PlatformOf \in [AllRegisters -> Platforms] /\ DefaultOff \subseteq AllRegisters
  /\ UserChanges \subseteq {"options", "reconfigure", "rediscover", "entities", "unload"}
  /\ IsFiniteSet(Detectable) /\ IsFiniteSet(Platforms)
  /\ TroubleLimit \in Nat /\ ChangeLimit \in Nat

VARIABLES           \* the units
  reads             \* what the values of detectable accessories tell, by host

VARIABLES           \* Home Assistant
  state,            \* of the entry; a setup in progress is one of Phases
  host, stored,     \* entry.data: the connection, the discovery
  choice,           \* entry.options: the choice of accessories
  shown,            \* the accessories that an open options form shows
  reload,           \* a reload is pending
  probe, before,    \* the probe in progress, the accessories known before it
  unit, used,       \* what the setup runs with: connection, registers
  hubOpen, feeding, \* the hub is not closed, the feeder is not stopped
  created,          \* runtime_data.unique_ids
  platformsUp,      \* runtime_data.platforms
  registry, marked  \* the entities in the registry, those marked as orphaned

VARIABLES           \* bounds and history
  trouble, changes,
  unheard,          \* entry data or options changed while a setup ran
  covered,          \* accessories that the choice was made from
  silent,           \* registers whose last probe was given up unanswered
  storedOf,         \* the connection the stored discovery was made on
  known,            \* kept accessories that discoveries of this unit found
  declined          \* entities that the user or their default left disabled

unitVars == <<reads>>
dataVars == <<host, stored, choice>>
runVars == <<unit, used, hubOpen, feeding, created, platformsUp>>
registryVars == <<registry, marked>>
historyVars == <<unheard, covered, silent, storedOf, known, declined>>
vars == <<reads, state, host, stored, choice, shown, reload, probe, before, unit, used,
          hubOpen, feeding, created, platformsUp, registry, marked, trouble, changes,
          unheard, covered, silent, storedOf, known, declined>>

-----------------------------------------------------------------------------
\* The phases of a setup, by what they await.
Phases == {"identity", "probe", "detect", "refresh", "feeder", "platforms"}
\* Enabled, or disabled by the user or by the integration.
InRegistry == {"absent", "enabled", "user", "integration"}

TypeOK ==
  /\ reads \in [Hosts -> [Detectable -> {"yes", "no"}]]
  /\ state \in Phases \union {"loaded", "retry", "error", "not_loaded"}
  /\ host \in Hosts /\ stored \in Discoveries /\ choice \in Choices
  /\ shown \in (SUBSET Accessories) \union {Closed} /\ reload \in BOOLEAN
  /\ probe \in Probes /\ before \subseteq Accessories
  /\ unit \in Hosts /\ used \subseteq AllRegisters
  /\ hubOpen = (state \in Phases \union {"loaded"})
  /\ feeding = (state \in {"feeder", "platforms", "loaded"})
  /\ created \subseteq AllRegisters /\ platformsUp \subseteq Platforms
  /\ registry \in [AllRegisters -> InRegistry] /\ marked \subseteq AllRegisters
  /\ trouble \in 0..TroubleLimit /\ changes \in 0..ChangeLimit
  /\ unheard \in BOOLEAN /\ covered \subseteq Accessories
  /\ silent \subseteq Registers
  /\ storedOf \in Hosts
  /\ known \subseteq Kept
  /\ declined \subseteq AllRegisters

-----------------------------------------------------------------------------
\* async_setup_entry up to its first request.
SetupBegins ==
  /\ state' = "identity"
  /\ unit' = host
  /\ hubOpen' = TRUE /\ feeding' = FALSE
  /\ created' = {} /\ platformsUp' = {}
  /\ unheard' = FALSE
  /\ UNCHANGED used

Setup(from) ==
  /\ state = from
  /\ SetupBegins
  /\ reload' = FALSE
  /\ UNCHANGED <<unitVars, dataVars, shown, probe, before, registryVars, trouble, changes,
                 covered, silent, storedOf, known, declined>>

\* Home Assistant tries again.
Retry == Setup("retry")

\* A pending reload runs; it includes the unload.
Reload == reload /\ (Setup("loaded") \/ Setup("error"))

\* The user sets the entry up.
UserSetup == Setup("not_loaded") \/ Setup("error")

\* Mutant of Stopped: the feeder runs on.
StoppedHubOnly == hubOpen' = FALSE /\ UNCHANGED feeding

\* The feeder is stopped and the hub is closed.
Stopped == hubOpen' = FALSE /\ feeding' = FALSE

\* The setup ends with an exception.
Fails(result) ==
  /\ state' = result
  /\ Stopped
  /\ UNCHANGED <<unitVars, dataVars, shown, reload, probe, before, unit, used, created,
                 platformsUp, registryVars, changes, historyVars>>

\* ConfigEntryNotReady, for what goes wrong with the unit up to the first
\* poll: the setup is tried again.
NotReady ==
  /\ state \in {"identity", "probe", "detect", "refresh"} /\ trouble < TroubleLimit
  /\ trouble' = trouble + 1
  /\ Fails("retry")

\* ConfigEntryError (the connection is in use), any other exception, or the
\* setup is cancelled: it is not tried again.
SetupError ==
  /\ state \in Phases /\ trouble < TroubleLimit
  /\ trouble' = trouble + 1
  /\ Fails("error")

\* async_check_identity passes: the stored discovery is used or the unit is
\* probed.
IdentityChecked ==
  /\ state = "identity"
  /\ IF MustProbe(stored)
     THEN /\ state' = "probe" /\ probe' = FirstProbe /\ silent' = {}
          /\ before' = stored.accessories
          /\ UNCHANGED used
     ELSE /\ state' = "refresh" /\ used' = Used(stored, choice)
          /\ UNCHANGED <<probe, before, silent>>
  /\ UNCHANGED <<unitVars, dataVars, shown, reload, unit, hubOpen, feeding, created,
                 platformsUp, registryVars, trouble, changes, unheard, covered, storedOf,
                 known, declined>>

ProbeGoesOn(p) ==
  /\ probe' = p
  /\ state' = IF Probed(p) THEN "detect" ELSE "probe"
  /\ UNCHANGED <<unitVars, dataVars, shown, reload, before, runVars, registryVars, changes,
                 unheard, covered, storedOf, known, declined>>

\* The unit answers if it has the registers, else says that they are absent.
ProbeAnswered ==
  /\ state = "probe"
  /\ ProbeGoesOn(IF Asked(probe) \subseteq Has[unit] THEN Answers(probe) ELSE Gone(probe))
  /\ UNCHANGED <<trouble, silent>>

\* An unexpected exception response.
ProbeUnexpected ==
  /\ state = "probe" /\ trouble < TroubleLimit
  /\ trouble' = trouble + 1
  /\ ProbeGoesOn(Unexpected(probe))
  /\ silent' = IF probe.single # 0 /\ probe.attempt = ProbeAttempts
               THEN silent \union Asked(probe) ELSE silent

\* Mutant of ProbeLost: a unit that does not answer lacks the registers.
ProbeLostIsAbsent ==
  /\ state = "probe" /\ trouble < TroubleLimit
  /\ trouble' = trouble + 1
  /\ ProbeGoesOn(Gone(probe))
  /\ UNCHANGED silent

\* The connection is lost, or the unit or a gateway is busy: no register is
\* taken for absent, the setup fails.
ProbeLost == state = "probe" /\ NotReady

\* The values of the accessories are read; those of a rejected read are
\* unknown.  The discovery is stored and used.  None found: the setup fails.
Discover ==
  /\ state = "detect" /\ probe.present # {}
  /\ \E missing \in SUBSET Detectable :
       LET present == Resolved(probe.present)
           readings == [a \in Detectable |->
                          IF a \in missing THEN "unknown" ELSE reads[unit][a]]
       IN /\ Cardinality(missing) <= TroubleLimit - trouble
          /\ trouble' = trouble + Cardinality(missing)
          /\ stored' = [valid |-> TRUE, present |-> probe.present, accessories |->
                          Detected(present, readings, before)]
          /\ known' = (known \intersect Offered(present))
                        \union {a \in stored'.accessories \intersect Kept : unit = host}
  /\ used' = Used(stored', choice)
  /\ storedOf' = unit
  /\ state' = "refresh"
  /\ UNCHANGED <<unitVars, host, choice, shown, reload, probe, before, unit, hubOpen,
                 feeding, created, platformsUp, registryVars, changes, unheard, covered,
                 silent, declined>>

DiscoverNothing ==
  /\ state = "detect" /\ probe.present = {}
  /\ Fails("retry")
  /\ UNCHANGED trouble

\* The first poll succeeds; the feeder starts and writes.
Refreshed ==
  /\ state = "refresh"
  /\ state' = "feeder" /\ feeding' = TRUE
  /\ UNCHANGED <<unitVars, dataVars, shown, reload, probe, before, unit, used, hubOpen,
                 created, platformsUp, registryVars, trouble, changes, historyVars>>

FeederStarted ==
  /\ state = "feeder"
  /\ state' = "platforms"
  /\ UNCHANGED <<unitVars, dataVars, shown, reload, probe, before, runVars, registryVars,
                 trouble, changes, historyVars>>

\* Mutant of Returned: whatever the integration disabled.
ReturnedUnmarked(r) == registry[r] = "integration"

\* _async_enable_returned_entities: what the cleanup disabled, and only that.
Returned(r) == registry[r] = "integration" /\ r \in marked

\* async_add_maico_entities of a platform.  Home Assistant registers new
\* entities, and reloads the entry after an entity has been enabled.
PlatformSetUp(p) ==
  LET entities == {r \in used : PlatformOf[r] = p}
      new == {r \in entities : registry[r] = "absent"}
      returned == {r \in entities : Returned(r)}
  IN
  /\ state = "platforms" /\ p \notin platformsUp
  /\ platformsUp' = platformsUp \union {p}
  /\ created' = created \union entities
  /\ registry' = [r \in AllRegisters |->
       IF r \in (new \ DefaultOff) \union returned THEN "enabled"
       ELSE IF r \in new THEN "integration"
       ELSE registry[r]]
  /\ marked' = marked \ returned
  /\ declined' = declined \union (new \intersect DefaultOff)
  /\ reload' = (reload \/ returned # {})
  /\ UNCHANGED <<unitVars, state, dataVars, shown, probe, before, unit, used, hubOpen,
                 feeding, trouble, changes, unheard, covered, silent, storedOf, known>>

\* Mutant of Orphaned: also what this setup created.
OrphanedAlways(r) == PlatformOf[r] \in platformsUp /\ registry[r] = "enabled"

\* _async_disable_orphaned_entities.
Orphaned(r) ==
  /\ PlatformOf[r] \in platformsUp
  /\ r \notin created
  /\ registry[r] = "enabled"

\* The platforms are through, the ones that failed recorded nothing.  The
\* entry is loaded and the update listener added.
Loaded ==
  /\ state = "platforms"
  /\ Cardinality(Platforms \ platformsUp) <= TroubleLimit - trouble
  /\ trouble' = trouble + Cardinality(Platforms \ platformsUp)
  /\ state' = "loaded"
  /\ registry' = [r \in AllRegisters |-> IF Orphaned(r) THEN "integration" ELSE registry[r]]
  /\ marked' = marked \union {r \in AllRegisters : Orphaned(r)}
  /\ UNCHANGED <<unitVars, dataVars, shown, reload, probe, before, runVars, changes,
                 historyVars>>

\* async_unload_entry on behalf of the user.
Unload ==
  /\ "unload" \in UserChanges
  /\ state = "loaded" /\ changes < ChangeLimit
  /\ changes' = changes + 1
  /\ state' = "not_loaded"
  /\ Stopped
  /\ UNCHANGED <<unitVars, dataVars, shown, reload, probe, before, unit, used, created,
                 platformsUp, registryVars, trouble, historyVars>>

-----------------------------------------------------------------------------
\* Mutant of Heard: a change of the options alone is not heard.
HeardForData == state = "loaded" /\ choice' = choice

\* The update listener is there.
Heard == state = "loaded"

\* The entry is changed.  late: a setup in progress has already read that;
\* scheduled: a reload, whether the change is heard or not.
EntryChanges(late, scheduled) ==
  /\ changes < ChangeLimit
  /\ changes' = changes + 1
  /\ unheard' = (unheard \/ late)
  /\ LET changed == <<host', stored', choice'>> # <<host, stored, choice>>
     IN reload' = (reload \/ scheduled \/ (Heard /\ changed))
  /\ UNCHANGED <<unitVars, state, probe, before, runVars, registryVars, trouble, silent,
                 storedOf, declined>>

OfferedNow == IF MustProbe(stored) THEN {} ELSE Offered(Resolved(stored.present))

\* The options form is opened, or left without saving.
ShowOptions ==
  /\ "options" \in UserChanges
  /\ shown' = IF shown = Closed THEN OfferedNow ELSE Closed
  /\ UNCHANGED <<unitVars, state, dataVars, reload, probe, before, runVars, registryVars,
                 trouble, changes, historyVars>>

\* What a form that is sent leaves in the options.  Without a discovery the last
\* choice stays, and what a form that was opened before brings is stored
\* alone; a choice that is the same as detected is not stored.
ChoiceOf(submitted) ==
  IF OfferedNow = {}
  THEN [choice EXCEPT !.chosen = IF @ = Unset THEN submitted ELSE @]
  ELSE IF submitted = stored.accessories \/ (submitted = Unset /\ stored.accessories = {})
  THEN NoChoice
  ELSE [chosen |-> submitted, offered |-> OfferedNow]

\* The accessories of a choice that is made now.
CoveredNow ==
  IF choice' = NoChoice THEN {}
  ELSE IF choice' = choice THEN covered
  ELSE IF OfferedNow # {} THEN OfferedNow
  ELSE covered \union shown \union Legacy

\* The form is sent: async_step_init of MaicoOptionsFlow.  It has a choice if
\* it showed accessories.
SaveOptions ==
  /\ shown # Closed
  /\ \E submitted \in IF shown = {} THEN {Unset} ELSE SUBSET shown :
       choice' = ChoiceOf(submitted)
  /\ covered' = CoveredNow
  /\ shown' = Closed
  /\ UNCHANGED <<host, stored, known>>
  /\ EntryChanges(state \in {"refresh", "feeder", "platforms"}, FALSE)

\* async_step_reconfigure after its check of the unit.  An entry that failed
\* to set up is reloaded.
Reconfigure(h) ==
  LET sameUnit == h = host
  IN
  /\ "reconfigure" \in UserChanges
  /\ host' = h
  /\ stored' = WithoutDiscovery(stored, sameUnit)
  /\ choice' = IF sameUnit THEN choice ELSE NoChoice
  /\ covered' = IF sameUnit THEN covered ELSE {}
  /\ known' = IF sameUnit THEN known ELSE {}
  /\ UNCHANGED shown
  /\ EntryChanges(state \in Phases, state \in {"retry", "error"})

\* MaicoRediscoverButton.async_press.
Rediscover ==
  /\ "rediscover" \in UserChanges
  /\ state = "loaded"
  /\ stored' = WithoutDiscovery(stored, TRUE)
  /\ UNCHANGED <<host, choice, shown, covered, known>>
  /\ EntryChanges(FALSE, FALSE)

\* The user disables an entity or enables it again.
UserDisables(r) ==
  /\ registry[r] = "enabled"
  /\ registry' = [registry EXCEPT ![r] = "user"]
  /\ declined' = declined \union {r}
  /\ UNCHANGED reload

UserEnables(r) ==
  /\ registry[r] \in {"user", "integration"}
  /\ registry' = [registry EXCEPT ![r] = "enabled"]
  /\ declined' = declined \ {r}
  /\ reload' = TRUE

EntityChanges ==
  /\ "entities" \in UserChanges
  /\ changes < ChangeLimit
  /\ changes' = changes + 1
  /\ \E r \in AllRegisters : UserDisables(r) \/ UserEnables(r)
  /\ UNCHANGED <<unitVars, state, dataVars, shown, probe, before, runVars, marked, trouble,
                 unheard, covered, silent, storedOf, known>>

\* A filter is fitted or runs out, a sensor is connected or not.
UnitChanges ==
  /\ \E h \in Hosts, a \in Detectable :
       reads' = [reads EXCEPT ![h][a] = IF @ = "yes" THEN "no" ELSE "yes"]
  /\ changes < ChangeLimit
  /\ changes' = changes + 1
  /\ UNCHANGED <<state, dataVars, shown, reload, probe, before, runVars, registryVars,
                 trouble, historyVars>>

\* A new entry.  One of an older version, without accessories, is the same.
Init ==
  /\ reads \in [Hosts -> [Detectable -> {"yes", "no"}]]
  /\ state = "not_loaded"
  /\ host \in Hosts
  /\ stored = NoDiscovery /\ choice = NoChoice
  /\ shown = Closed /\ reload = FALSE
  /\ probe = FirstProbe /\ before = {}
  /\ unit = host /\ used = {}
  /\ hubOpen = FALSE /\ feeding = FALSE
  /\ created = {} /\ platformsUp = {}
  /\ registry = [r \in AllRegisters |-> "absent"] /\ marked = {}
  /\ trouble = 0 /\ changes = 0
  /\ unheard = FALSE /\ covered = {} /\ silent = {} /\ storedOf = host
  /\ known = {} /\ declined = {}

SetupStep ==
  \/ Retry \/ Reload
  \/ IdentityChecked
  \/ ProbeAnswered \/ ProbeUnexpected \/ ProbeLost
  \/ Discover \/ DiscoverNothing
  \/ Refreshed \/ FeederStarted
  \/ \E p \in Platforms : PlatformSetUp(p)
  \/ Loaded

UserStep ==
  \/ UserSetup \/ Unload
  \/ ShowOptions \/ SaveOptions
  \/ \E h \in Hosts : Reconfigure(h)
  \/ Rediscover \/ EntityChanges

Next == SetupStep \/ NotReady \/ SetupError \/ UserStep \/ UnitChanges

Spec == Init /\ [][Next]_vars

\* A setup goes on, and is tried again; a pending reload runs.
Fairness == WF_vars(SetupStep)

FairSpec == Spec /\ Fairness

-----------------------------------------------------------------------------
(***************************************************************************)
(* A loaded entry runs with what is stored: its connection, its discovery  *)
(* and the choice of accessories, unless a reload is pending.  The choice  *)
(* decides on the accessories it was made from and on no others: what is   *)
(* detected only later is in use (active_accessories).  A change that came *)
(* while the setup ran, after the setup had read what it changed, is left  *)
(* out: there is no update listener yet.                                   *)
(***************************************************************************)
LoadedRunsWhatIsStored ==
  state = "loaded" /\ ~reload /\ ~unheard =>
    /\ unit = host /\ ~MustProbe(stored) /\ used = Used(stored, choice)
    /\ \A r \in Resolved(stored.present) :
         {a \in Accessories : r \in Keys[a]} \subseteq stored.accessories \ covered
           => r \in used

(***************************************************************************)
(* A stored discovery is complete and true of the unit it was made on:     *)
(* only a register whose last probe stayed without an expected answer is   *)
(* left out, however often the probe was interrupted (async_discover).     *)
(***************************************************************************)
DiscoveryIsTrue ==
  stored.valid =>
    /\ stored.present \subseteq Has[storedOf]
    /\ Has[storedOf] \ stored.present \subseteq silent

(***************************************************************************)
(* A filter that was detected is kept while the connection is the same,    *)
(* through rediscoveries and setups that fail, unless a discovery does not *)
(* find its registers (kept_once_detected, data_without_discovery).        *)
(***************************************************************************)
DetectedFilterStays == known \subseteq stored.accessories

(***************************************************************************)
(* The registry follows the setups but leaves the user his say: an entity  *)
(* that he disabled, or that was created disabled and he did not enable,   *)
(* stays so; of the others, a loaded entry has enabled those it created    *)
(* and no others, except on a platform that did not set up.                *)
(***************************************************************************)
EntitiesFollowTheSetup ==
  /\ declined = {r \in AllRegisters :
       registry[r] = "user" \/ (registry[r] = "integration" /\ r \notin marked)}
  /\ state = "loaded" /\ ~reload =>
       \A r \in AllRegisters \ declined : PlatformOf[r] \in platformsUp =>
         (registry[r] = "enabled" <=> r \in used)

(***************************************************************************)
(* Once the user and the network leave it alone, the entry gets loaded and *)
(* stays so, unless its last setup ended with an error, which nobody tries *)
(* again: neither the discovery that a setup stores nor the entities it    *)
(* enables or disables make it reload for ever.                            *)
(***************************************************************************)
SetupSettles ==
  \/ <>[](state = "not_loaded")
  \/ <>[](state = "error" /\ ~reload)
  \/ <>[](state = "loaded" /\ ~reload)
=============================================================================
