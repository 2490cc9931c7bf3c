# A formal model of the Maico KWL integration

This directory holds TLA+ modules that model the Home Assistant integration
`custom_components/maico_kwl` of this repository, TLC configurations that
check them on small instances, and proofs that TLAPS checks. Paths below
without a directory are relative to `src/custom_components/maico_kwl/`.

Contents: [the system](#the-system), [modules](#modules), [how the bus feeder is
modelled](#how-the-bus-feeder-is-modelled), [how the rest is
modelled](#how-the-rest-is-modelled), [properties](#properties), [runs and
bounds](#runs-and-bounds), [fairness](#fairness), [proofs](#proofs), [where the
code and its documents disagree](#where-the-code-and-its-documents-disagree),
[what is not modelled](#what-is-not-modelled), [plan](#plan).

## The system

A ventilation unit is reached by Modbus TCP over one connection that Home
Assistant shares between integrations. Everything runs in one event loop:
handlers run to their next `await` without interruption, and whatever is
awaited (a Modbus request, a sleep, a forwarded setup) lets other handlers run.

| component | state it keeps | operations | interacts with |
|---|---|---|---|
| Bus feeder, `bus_feed.py` `BusFeeder` | last words written, values sent, skipped inputs, time of the last usable value, tasks, listeners | start, stop, state event, registry event, interval, write | sources (events, states), hub (requests), its log and deliveries, repair issues |
| Bus log, `bus_feed.py` `BusLog` | per input: last value logged and when, waiting value, timer | `sent`, `forget`, `fire`, `stop`, timer | called by feeder and deliveries; logbook events |
| Bus delivery, `bus_feed.py` `BusDelivery` | per input: last success, retry timer, failing, expired | `succeeded`, `failed`, `stop`, timer | called by the feeder's writes; calls the feeder back to retry; a repair issue |
| Modbus hub, `modbus_hub.py` | closed or not | read, probe, write, close | the shared connection |
| Poll, `coordinator.py` | blocks, last data, identity problem, write listeners | poll, notify write | hub; every entity listens |
| Identity check, `register_defs.py`, `discovery.py` | none | `identity_problem`, `async_check_identity` | poll, setup, feeder, entity writes |
| Discovery, `discovery.py` | result stored in the config entry | probe groups, detect accessories, validate the stored result | hub, entry data and options |
| Entry lifecycle, `__init__.py`, `config_flow.py` | state of the config entry, its data and options | setup, unload, reload, options and reconfigure flows | all of the above |
| Orphan cleanup, `__init__.py`, `entity.py` | disabled-by and a mark in the entity registry | disable, enable again | platforms, entity registry |
| Fan and boost, `fan.py`, `services.py` | last mode, boost timer, "551 was seen on" | speed, preset, boost, time up, poll, write notice | poll data, entity writes |
| Energy, `sensor.py`, `derived.py` | total, last reading | reading per poll, restore | poll data |
| Issues of a unit, `issues.py` | repair issues | update per poll, delete | poll data |
| Register codec, `register_defs.py`, blocks in `coordinator.py` | none | encode, decode, `build_blocks` | poll, discovery, writes |
| Dashboard card, `frontend-src/src/card.ts` | pending change per control, energy of today | change, report, timeout, refusal | entity states, services |
| Blueprints, `blueprints/automation/` | snapshot scenes | trigger, change, restore | fan, select, number entities |

What is hard in it:

* **Awaits between a decision and its effect.** A bus write decides with what
  was written last, awaits the request and only then records it; a state
  change, a refresh or a retry of the same input can come in between. The
  fan and the boost decide with the data of a poll that may be stale.
* **Timers against each other.** Refresh (8 min), retry (1 min), validity
  (10 min), log throttle (8 min), source check (30 min) and requests that take
  time; the boost timer against polls and the unit's own timer.
* **Failure and partial failure.** Lost requests, answers that are lost while
  the unit has the value, a unit that stops looking like a Maico KWL, blocks
  and probes that are rejected.
* **Lifecycle.** Setup that fails or is cancelled half way, unload with
  requests in flight, options changed while a setup runs.

`PROJECT.json` lists every hazard with its line. What makes each component
correct, in a sentence: the *log* never loses the latest value and never floods;
a *delivery* is retried until it works, and its issue and entries tell its
state; the *feeder* brings the value of a usable source to the unit, keeps it
valid, and says so when it cannot; a *stopped* feeder leaves nothing behind; the
*boost* ends by whichever of its ends comes first and a timer never ends
another boost; a *poll* shows values of one poll only and nothing is written
to a device that is no Maico KWL; *discovery* never stores an incomplete
result; an *entry* runs with the options and data it has; the *cleanup* never
touches what the user disabled; the *energy* never decreases; a *pending
change* of the card ends, and only by what concerns it.

## Modules

| module | models | kind |
|---|---|---|
| `BusLog` | class `BusLog` | component, also the specification the feeder implements for its log |
| `BusDelivery` | class `BusDelivery` | component, also the specification the feeder implements for its deliveries |
| `BusFeed` | class `BusFeeder`, its sources, the connection and the unit | composition; instances of `BusLog` and `BusDelivery` |
| `Fan` | class `MaicoFan`, the writes of other entities beside it, its polls and the unit | component |
| `Poll` | coordinator, hub reads, identity check, entity writes, issues of the unit | composition; the blocks are those of `Blocks` |
| `Discovery` | probe, accessories, stored discovery and choice, as operators | functions, used by `Entry` |
| `Entry` | setup, unload, reload, options, reconfigure and rediscover, entity registry | composition |
| `Blocks`, `Codec` | `build_blocks`; `encode`, `decode` and what they use | functions |
| `Energy` | the integration of the recovered energy, formulas of `derived.py` it uses | component |
| `MCBusFeed`, `MCPoll`, `MCEntry` | - | instances for TLC |
| `MCMeasures` | - | `Energy`, `Codec` and `Blocks` on bounded inputs |
| `BusFeedClaims`, `PollClaims`, `EntryClaims` | - | statements of comments and documents that the code does not keep |
| `BusLogProofs`, `BusDeliveryProofs` | - | theorems about one log, one delivery |
| `BusFeedTypes`, `BusFeedProofs` | - | theorems about the feeder, and that it implements the two others |
| `FanProofs`, `PollProofs`, `EntryProofs` | - | theorems about the fan, the polls, the entry |
| `MeasureProofs` | - | theorems about `Energy`, `Codec` and `Blocks`, and about the sums and folds they use |

`BusLog` and `BusDelivery` define each method of the class as an operator on
the record of one input (`Sent(l, v)`, `Failed(d)`), and around them a
specification that calls them in any order. `BusFeed` applies the same
operators, several in one step where a handler calls several. A run checks that
it behaves as both specifications allow (`LogSpec`, `DeliverySpec`), and
`BusFeedProofs` proves it, so what is proved of them holds for the feeder.

`Fan`, `Poll` and `Entry` share the unit and the hub in the code but hardly
any state: each has its own environment that does whatever the others could do
to it. In `Fan` the polls are three steps (read, end, fail); what a poll is
made of is in `Poll`. In `Entry` the first poll and the start of the feeder
are one phase each; what they do is in `Poll` and `BusFeed`.

Definitions whose comment starts with "Mutant of" are not part of the model.
Each is a plausible mistake in the definition that follows it, and a property
of a run fails when the definition is replaced by it: they show that the
property depends on the code it is about.

## How the bus feeder is modelled

| state | in the code |
|---|---|
| `source[i]`, `registered[i]` | the state object of the source entity; its entry in the entity registry |
| `coreRunning`, `problem`, `reachable` | `hass.state`, `coordinator.identity_problem`, whether requests are answered |
| `unit[i]`, `unitAge[i]` | what the unit received last, and when (the unit forgets it after `ValueValid`) |
| `phase`, `todo`, `awaited` | where `async_start` is: the inputs left, and the write it awaits |
| `refreshIn` | the timer of `async_track_time_interval` |
| `inflight[i]`, `waited[i]` | the tasks that await `hub.write`, in the order of their requests |
| `written[i]` | `_written` and the value of `_sent` |
| `skipped[i]`, `usableAge[i]` | `_skipped`, and the time since `_usable_at` (or `_started_at`) |
| `missing[i]`, `noData[i]` | the issues `bus_source_missing` and `bus_source_no_data` |
| `log[i]`, `delivery[i]` | the `BusLog` and the `BusDelivery` objects, see their modules |
| `reading`, `steady`, `checked` | history, read by properties only |

| action | in the code |
|---|---|
| `Start`, `StartNext`, `Listen` | `__init__` and `async_start`: one write after the other, each awaited, then the listeners |
| `Stop` | `async_stop`, on unload or when the setup fails; a cancelled request may still reach the unit |
| `SourceReport` | the source changes; `_handle_state_event` runs at once if the feeder listens |
| `RegistryChange` | the source leaves the registry (`_handle_registry_event`) or is back |
| `Refresh` | `_handle_interval`: `_check_sources`, then a forced write of every input |
| `Retry` | `BusDelivery._handle_retry` and the callback of `_retry_callback` |
| `Flush` | `BusLog._flush` |
| `WriteSucceeds`, `WriteFails` | `_async_write` after its await |
| `CoreStarted`, `PollResult`, `ConnectionChange`, `Tick` | environment and time |

`Attempt` is `_async_write` up to its await for the inputs a handler writes:
background tasks of Home Assistant start eagerly, so this part runs within the
handler. A source is one of a few raw words (`Values`), or has no state
(`NoState`), an invalid one (`Invalid`: empty, unknown, unavailable) or one that
`source_raw` refuses (`Unsuitable`: no number, wrong unit, out of range). Two
states with the same raw words are one value: that is all the code compares.

Requests of one input are served in order (one connection), those of different
inputs in any order. The three ways a write fails are the `Faults`: `"lost"`
(the unit never got it), `"unanswered"` (it did, the answer is lost) and
`"identity"` (held back because the last poll found no Maico KWL). A unit that
rejects a write with an exception response looks like a lost one here.

Time is counted in ticks. `Tick` waits for what is due: timers, requests that
have taken `RequestTimeout`, and the next write of `async_start`. Anything else
can happen any number of times within a tick. An age stops at the bound beyond
which the code does not tell ages apart.

## How the rest is modelled

### Fan (`fan.py`, `entity.py`)

| state | in the code |
|---|---|
| `mode`, `boost`, `queue` | registers 550 and 551 of the unit; the requests on the connection |
| `data`, `pollOk`, `poll` | `coordinator.data`, `last_update_success`, the poll in progress with what it has read |
| `calls` | the service call of the fan that awaits a write; that of the fan before a reload may still wait |
| `timer`, `seenOn`, `lastMode` | `_end_boost`, `_boost_seen_on`, `_last_mode` |
| `unloading` | the fan is removed (`async_will_remove_from_hass`), its hub is not closed yet |
| `timed`, `told`, `speed` | history: the timed boost nobody ended, what polls showed of it, what a speed call knew of the mode |

| action | in the code |
|---|---|
| `Boost`, `SetSpeed`, `SetMode`, `TurnOn` | `async_boost`, `async_set_percentage`, `async_set_preset_mode` and `async_turn_off`, `async_turn_on`, up to their first await |
| `Served` | the rest of what awaited: arm the timer, write the level, tell the fan of the end of a boost (`_handle_write`) |
| `TimeUp` | `_async_boost_time_up` |
| `PollReads`, `PollEnds`, `PollFails` | a poll and `_handle_coordinator_update` with `_follow_boost` |
| `OtherEntity`, `Panel` | the boost switch and the mode select; the control panel and the unit's own end |
| `Remove`, `Reload` | the platforms are unloaded while a call may still wait; then the hub is closed and a new fan set up |
| `Tick` | time |

Service calls of one entity run one at a time (`PARALLEL_UPDATES = 1`); the
timer and the other entities write beside them. Between `Remove` and `Reload`
(`async_unload_entry` awaits the platforms before it closes the hub) a removed
fan still sends: the level of a speed, or the end of a boost whose call was
waiting. After that, `Sent` drops what it asks for. Both writes of a speed may be
held back by the identity check.

### Poll (`coordinator.py`, `modbus_hub.py`, `entity.py`, `issues.py`)

| state | in the code |
|---|---|
| `value` | the registers of whatever device answers |
| `entry` | whether there is an entry, its first poll runs, or it is loaded |
| `poll` | the block or register `_read_all` and `_read_singly` are at, and what they have read |
| `data`, `pollOk`, `age`, `problem` | `data`, `last_update_success`, the time since the last good poll, `identity_problem` |
| `issues`, `writing` | the repair issues of the unit; a write that awaits its answer |

| action | in the code |
|---|---|
| `Setup`, `Unload` | `async_check_identity` and the first refresh; `async_unload_entry` with `async_delete_issues` |
| `PollStarts` | the interval or a refresh after a write; one that comes while a poll runs is dropped |
| `Answered`, `Rejected`, `ConnectionLost` | what a request brings: go on, read singly or leave the register out, end the poll |
| `WriteStarts`, `WriteEnds` | `async_write_register` (and the feeder's check) up to its await, and after it |
| `DeviceChanges`, `Tick` | another value, or another device at the address; time |

A register has a usual and an odd value; odd is what `IDENTITY_RANGES` or the
condition of an issue is about. An entity may write a register of the identity
check (the language, the mode), but only a value within its range (`Writable`).

### Entry and Discovery (`__init__.py`, `config_flow.py`, `discovery.py`, `button.py`, `entity.py`)

| state | in the code |
|---|---|
| `reads` | what the values of filters and sensors tell of being fitted, on each connection |
| `state` | the state of the config entry; while a setup is in progress, what it awaits |
| `host`, `stored`, `choice` | entry data (connection, discovery) and options: the accessories chosen and those that were offered, each `Unset` if not stored |
| `shown` | an options form that is open |
| `reload` | a reload that the update listener or the entity registry has scheduled |
| `probe`, `before` | where `async_discover` is: group, register, attempt, found so far; the accessories it was called with |
| `unit`, `used` | the connection the setup read when it began, the registers it uses |
| `hubOpen`, `feeding` | the hub is not closed, the feeder not stopped |
| `created`, `platformsUp` | `runtime_data.unique_ids` and `.platforms` |
| `registry`, `marked` | the entities: absent, enabled, disabled by the user, disabled by the integration; those that carry the mark of the cleanup |
| `unheard`, `covered`, `silent`, `storedOf`, `known`, `declined` | history, read by properties only |

| action | in the code |
|---|---|
| `Retry`, `Reload`, `UserSetup` | Home Assistant or the user starts `async_setup_entry`, after the unload if the entry is loaded |
| `IdentityChecked`, `Discover`, `DiscoverNothing`, `Refreshed`, `FeederStarted`, `Loaded` | `async_setup_entry` from one await to the next |
| `ProbeAnswered`, `ProbeUnexpected`, `ProbeLost` | `_probe_group` and `_probe`, one request each |
| `NotReady`, `ProbeLost` | `ConfigEntryNotReady` up to the first poll: the state is `retry`, and the setup is tried again |
| `SetupError` | `ConfigEntryError`, any other exception or a cancellation in any phase: the state is `error`, and nobody tries again but the user or a reload |
| `Unload` | `async_unload_entry` on behalf of the user |
| `PlatformSetUp` | `async_add_maico_entities` with `_async_enable_returned_entities`; new entities are registered, those with `enabled_default=False` (`DefaultOff`) disabled |
| `ShowOptions`, `SaveOptions`, `Reconfigure`, `Rediscover` | the options flow (form and answer are two steps), the reconfigure flow, the button |
| `EntityChanges`, `UnitChanges` | the user disables or enables an entity; a filter is fitted or runs out |

`Discovery` has the functions these call: `Detected` is `_detect_accessories`,
`Active` is `active_accessories`, `Used` what the setup makes of a discovery. A
choice may be stored without what was offered: by versions up to 0.4.0, and by
an options form that was opened before the discovery was dropped. `Decides`
then takes `ACCESSORIES_UNTIL_0_4_0` (`Legacy`), as the code does.

### Energy, Codec and Blocks (`sensor.py`, `derived.py`, `register_defs.py`, `coordinator.py`)

`Energy` has `total` (`_energy`) and `last` (`_last`); `Reading`, `PollFails`
and `Restart` are `_handle_coordinator_update` after a good and a failed poll
and `async_added_to_hass`. Energy is counted in half watt ticks, so everything
is a whole number. `Codec` counts values in a grid finer than the steps of a
register, for the rounding of `to_raw`. `Blocks` folds the sorted registers as
`build_blocks` does; `Sorted` is the order of their addresses, which no two
share. Each module ends with what its results are compared with: `AreaUnder`
sums the intervals between readings, `Agreed` looks for a raw value and words
whatever `encode` computes, `Blocked` speaks of words covered.

## Properties

| property | what it says | could fail through |
|---|---|---|
| `LatestIsShownOrWaits` | the logbook shows the latest value, or a timer that is on time will | changes back and forth, skips and stops around the throttle |
| `AtMostOneEntryPerInterval` | never two sent entries of an input within the interval | an off-by-one, a forgotten timer, a skip in between |
| `LatestIsShownEventually` | a value that stays the latest is logged | a waiting value that is dropped |
| `IssueIsJustified` | the issue "not delivered" exists exactly for an expired outage of a feeder that runs | an unload or success at the wrong moment |
| `LogbookTellsTheOutage` | failed, expired and recovered are logged once each and tell the state | repeated failures, late expiry |
| `SentValueIsHonest` | the value the feeder takes for the unit's is not older than it thinks, and is the unit's unless a write failed since | recording too early, lost answers |
| `SteadySourceIsRetried` | with a source that stays usable, a failed delivery has a retry or a request under way | races between retry, refresh and state change |
| `SteadySourceStaysValid` | then the unit only loses its value when writes fail | refreshes that do not write, slow requests |
| `OutageIsReported` | an outage has its issue once the value has expired and one more retry had time to fail | retries that stop or are too slow |
| `ForcedWriteSettles` | a start, refresh or retry that read the present state brings it to the unit, whatever was in flight | an old request overtaking, a write dropped while one is in flight |
| `NoDataMeansUnusable` | the issue "no data" is about a source that gives nothing now | order of check and write in the refresh |
| `LongGapIsReported` | a source that gives nothing for long has an issue after the next check | removal and return, late start of Home Assistant |
| `StoppedIsQuiet` | no timer, request or issue outlives the stop | a stop during start, refresh or retry |
| `LogSpec`, `DeliverySpec` | the feeder uses its logs and deliveries as their specifications allow | a method called for the wrong input or at the wrong time |
| `UnitFollowsSource` | once everything settles, the unit has the source's value for good | a lost retry, a refresh that is not started |
| `TimedBoostKeepsItsTimer` | a timed boost nobody ended has its timer, on time | a poll that read before the boost was written |
| `KnownEndDropsTheTimer` | after an end Home Assistant knows of, no timer is left for the next boost | notices and polls that overtake each other |
| `SpeedComesWithAMode` | a level is written in a mode that keeps it | two writes, an unread mode |
| `RemovedFanIsDone` | what a removed fan still sends is served before anything of the fan after it, and in no timed boost of that fan | a call that waits during the unload, a timer it sets, a hub that is not closed |
| `TimedBoostEnds` | a timed boost ends when its time is up | a timer dropped or held back |
| `DataIsOfOnePoll` | what is shown was read in one poll | rejected blocks, values taken over |
| `StrangerIsNotWritten` | nothing is written to a device that is no Maico KWL | failed polls after the odd one |
| `IssuesTellTheData` | issues are those of the data, the clock's compared at the last success or first failure, and none is left after unload | missing registers, failed polls, the clock's age |
| `IssueNeedsAReading` | only a reading of its register starts or ends an issue, for the clock also the first failed poll | a register that is rejected |
| `ViewSettles` | once the device is steady, entities and issues show it | a refresh dropped while a poll runs |
| `LoadedRunsWhatIsStored` | a loaded entry runs with its data and options, unless a reload is due, and uses what was detected only after the choice | changes at any moment of a setup, a choice that outlives its discovery |
| `DiscoveryIsTrue` | a stored discovery is complete and true of its unit | a probe that is interrupted |
| `DetectedFilterStays` | a filter once detected is not forgotten when it runs out | rediscoveries and failed setups in a row |
| `EntitiesFollowTheSetup` | the cleanup touches only what it should, and its own entities come back | the user's disabling, entities created disabled, platforms that fail |
| `SetupSettles` | setups and the reloads they cause come to an end: loaded, unloaded by the user, or with an error | enabling and disabling in turns |
| `TotalIsTheArea` | the energy total is the area under the readings that count | gaps, failed polls, restarts |
| `CodecAgrees` | writing and reading back is rounding, or refusal | signs, two words, the ends of the range |
| `BlocksAgree` | blocks read every register once, and nothing between | the size limit, registers of two words |

`TypeOK` of each module is its type invariant; in `Entry` it also says in which
phases the hub is open and the feeder runs.

## Runs and bounds

| run | instance | states | time |
|---|---|---|---|
| `bus_log` | 2 inputs, 2 values, interval 3 | 4 thousand | 2 s |
| `bus_delivery` | 2 inputs, retry 1, validity 3 | 1 thousand | 1 s |
| `feed_delivery` | 1 input, 2 values and no state, all faults, removal from the registry, 2 requests in flight | 2.4 million | 1 min |
| `feed_two` | 2 inputs (symmetric), 1 value and unsuitable, lost requests, unloads at any step | 1.1 million | 1 min |
| `feed_live` | 1 input, 2 values and invalid, requests of up to 1 tick, 2 in flight, lost requests, fairness | 0.5 million | 1 min |
| `fan` | 3 modes, boosts of no, 1 and 2 minutes, all faults, 3 requests waiting, fairness | 0.3 million | 30 s |
| `poll` | 3 registers in 2 blocks, 2 of them written, 3 requests that fail, a scan interval longer than the clock limit, fairness | 0.6 million | 2 min |
| `entry` | 3 registers in 2 groups and a write-only one, 2 accessories, 2 connections, 2 platforms, one register whose entity is created disabled, 2 failures, 2 changes, fairness | 2.3 million | 100 s |
| `measures` | 8 kinds of polls, up to 4 readings; words of 3 bits; all sets of 6 registers | 2.8 million | 65 s |

Why the bounds are enough to see the interesting cases:

* Two values make a change and a change back; a third would only be another
  change. One value suffices where the properties are about issues and timers.
* Two requests of an input in flight (`MaxInFlight`) make an older request
  that is overtaken by a decision; with it a state change, a refresh and a
  retry overlap in pairs. The bound delays a handler that finds no room.
* The durations keep the order of those in `const.py` (retry < refresh <
  validity) and the margin of one retry after a refresh, in a few ticks:
  `feed_live` has refresh 3, retry 1, validity 5 (8, 1 and 10 minutes), so a
  refresh that fails leaves time for retries. `feed_delivery` and `feed_two`
  check nothing about the margin and use shorter ones. `AgeLimit` is where the
  age of a success stops: just beyond what a property asks.
* One input is enough where inputs do not interact: they share only
  `async_start`, the refresh and the connection, and `feed_two` has two.
* `fan`: a behaviour is about the boost or about modes and levels (`Topics`),
  which share nothing but the order of requests. Three requests waiting are a
  service call, the timer and another entity at once. Boosts of two minutes
  leave room for polls and changes before the end. `UnitMinutes` is only the
  limit that a call must keep; the unit's own end comes at any time (`Panel`).
* `poll`: two blocks make a poll that goes on after a block, one of them with
  two registers that are read singly when it is rejected; three failures are a
  rejected block, a rejected register and a lost poll. The scan
  interval (2) is longer than the clock limit (1), as the options allow, so a
  right clock is beyond the limit at the first failed poll; an odd one is wrong
  by 3.
* `entry`: a group of one register and one of two take both ways through a
  probe, with a register that stays silent for both attempts or a connection
  that is lost twice. Two changes are a reconfiguration or rediscovery and
  something else before or after it. The second connection has a unit with one
  register, which a probe may miss, so that it finds nothing. One accessory is
  in `Legacy` and one is not, and the entity of the latter is created disabled.
* `measures`: 3-bit words make every two-word value and all ends of ranges
  enumerable; scales 1, 4 and 5 have exact values, halves and no halves. Blocks
  of 4 words over 8 addresses fill up, end at gaps and end at two-word
  registers. Gaps of up to 2 ticks count, 3 ticks make one that does not.
* `Reloads` is set only in `feed_two`; elsewhere the feeder starts once, and
  time, faults and sources do the rest.

A run with the name `claim_...` expects a violation; it belongs to a finding
below.

## Fairness

`FairSpec` of `BusLog` assumes that a due timer fires and time passes.
`Fairness` of `BusFeed` assumes, weakly, that the event loop runs what is ready
(`Start`, `StartNext`, `Listen`, `Refresh`, `Retry`, `Flush`) and that a
request ends (the Modbus client has a timeout, and a request is served when
the ones before it are). Time gets strong fairness: `Tick` is disabled again
and again by what is due, and sources can report any number of times in a
tick, but real time goes on all the same. Nothing is assumed about sources, the
connection, polls, unloads or the registry: `UnitFollowsSource` has their
settling as its hypothesis.

`Fan`: a request ends and a due timer fires (weak), time passes (strong, for the
same reason). Nothing about users, the panel or polls: `TimedBoostEnds` holds
without any poll. `Poll`: the coordinator schedules its next poll whether the
last one failed or not, and a request is answered, rejected or lost; which of
them is not assumed, but the number of failures is bounded. `Entry`: a setup
goes on, Home Assistant tries one that was not ready again, and runs a reload
that is due (`SetupStep`). A setup that ended with an error is not tried again,
so `SetupSettles` allows that end. What the user does is not fair, and failures
are bounded.

## Proofs

`tlapm` checks every step of the eight proof modules. Assumed of the constants,
by name in the modules that declare them: in the bus modules, the durations are
positive (`NoDataAfter` and `RequestTimeout` may be zero), `NoValue` and the
states that cannot be sent are no values, and `AgeLimit` is at least
`ValueValid`. No relation between the durations is assumed by name, and the
inputs need not be finite. In `Fan`: there are the modes off and manual. In
`Poll`: there are blocks, and each holds at least one register. In `Discovery`
and `Entry`: the groups cover the registers that can be read, which
`build_blocks` does, accessories and platforms are finite, and `Unset` is no set
of accessories (`UnsetAssumption`). In `Energy`: the limits are numbers, and a
poll brings a number for a register or misses it. In `Codec`: a word has bits.
In `Blocks`: no register is larger than a block or overlaps another, which holds
of the table in `register_defs.py`. Two theorems about the feeder have a
hypothesis about durations, `RefreshesInTime`, which is explained below; no
other theorem has one.

**BusLog.** `LogInv(l)` is the inductive invariant of one log. The property
`LatestIsShownOrWaits` is not inductive: a timer that fires would log whatever
is pending. `LogInv` adds that what is pending is the latest value and has a
timer, that a running timer ends with the throttle (so `_flush` never logs
early, which `AtMostOneEntryPerInterval` needs), that what counts as logged is
what was shown or nothing, and that the throttle runs exactly while there is a
recent entry. Each method has a lemma that it preserves `LogInv`;
`LogInvariant` lifts them to all inputs, and `LogTypeCorrect`,
`LatestIsNeverLost` and `ThrottleHolds` follow.

**BusDelivery.** `DeliveryInv(d)` says of one delivery that an expired outage is
failing and old enough, and that the last entry tells its state; `IInv` adds
that the issue exists exactly for an expired outage of an open feeder. The
lemmas also give the fields of the record each method returns.
`DeliveryInvariant` gives `DeliveryTypeCorrect`, `IssueIsAlwaysJustified` and
`LogbookAlwaysTells`.

**BusFeed, types.** `TInv` is `TypeOK` with `LogInv` and `DeliveryInv` of every
log and delivery. The method lemmas of the two modules above are used through
instances of them (`LP`, `DP`); `SameLog` and `SameDelivery` say that these
instances define what the feeder's own do. The other lemmas say what
`_async_write` up to its await (`Attempt`) does to one input: to its issues
(`ForcedIssues`, `ChangedIssues`) and to its requests and delivery
(`ForcedRequests`, `ChangedRequests`).

**BusFeed, invariants.** Each is proved of one step at a time, given `TInv`:

| theorem | inductive invariant, and why it is needed |
|---|---|
| `StoppedFeederIsQuiet` | itself: what a stopped feeder lacks is what every handler starts from |
| `SentValueIsAlwaysHonest` | itself |
| `NoDataIsHonest` | `NoDataInv`: only the running feeder, which hears every report, has the issue or the timer that makes it |
| `SteadySourceIsAlwaysRetried` | `RetriedInv`: a steady source is usable, so a retry that fires sends or fails and arms itself again |
| `ForcedWriteAlwaysSettles` | `SettleInv`: with requests in flight, the last of them carries the present state |
| `LongGapIsAlwaysReported` | `GapInv`: the refresh timer runs exactly while the feeder does, and no check is from before the start |
| `SteadySourceAlwaysStaysValid` | `FedInv`: the last success is no older than the refresh timer, the request in flight and the start explain |
| `OutageIsAlwaysReported` | `OnTimeInv`: until an outage has its issue, its retry comes in time, or its request was sent in time |

The last two are about time and assume `RefreshesInTime`: there are finitely
many inputs, and `RewriteInterval + Cardinality(Inputs) * RequestTimeout` is
less than `ValueValid`. With the 8 and 10 minutes of `const.py` that leaves two
minutes for one request of each input. The factor is needed: `async_start`
awaits one write after the other, so the first input's value is as old as the
writes of all the others when the refresh timer starts. `FedInv` bounds the age
of the last success by that, plus the time since the last refresh or the wait of
the request it sent (`AgeBound`); `SentValueIsHonest` then says that the unit
has the value for as long. For an outage, a retry is armed when a write
fails, and each failure comes a request after the retry before it: the failure
that sees the value expired comes at most `RetryInterval + RequestTimeout`
later, which is the bound that `OutageIsReported` has.

**BusFeed, refinement.** `FeederImplementsDelivery` and `FeederImplementsLog`:
the mapping is the identity on the records, and `open` is `phase # "stopped"`.
Every step is a step of the other module or leaves its variables alone; that no
handler works on a stopped feeder comes from `StoppedIsQuiet`. Through the
refinement the theorems about one log and one delivery hold of the feeder
(`FeederIssueIsJustified`, `FeederLogbookTellsTheOutage`,
`FeederNeverLosesTheLatest`, `FeederIsThrottled`).

**Fan.** For any modes, durations and queue:

| theorem | inductive invariant, and why it is needed |
|---|---|
| `FanTypeCorrect` | `TypeOK` |
| `KnownEndAlwaysDropsTheTimer` | `KnownInv`: what polls have shown as on, `_boost_seen_on` remembers while there is a timer |
| `TimedBoostAlwaysKeepsItsTimer` | `TimedInv`: a boost nobody ended is on, and once it was seen on neither the data nor the poll in progress has an older "off" |
| `SpeedAlwaysComesWithAMode` | `SpeedInv`: a call has at most one write in the queue, and the first of a speed is the mode manual |
| `RemovedFanIsAlwaysDone` | `RemovedInv`: the requests of the removed fan come first; those of the present one, and its timed boost, begin only when a call of its own was served after them; while the hub is still open there is no present fan |

**Poll.** `PollInvariant` proves `PollInv`: a poll has read what the device had
since it began, and `problem` is what the data say. `PollTypeCorrect`,
`StrangerIsNeverWritten` and `DataIsAlwaysOfOnePoll` follow.
`IssuesAlwaysTellTheData` and `IssueAlwaysNeedsAReading` hold for any scan
interval, clock limit and clock: they say what the issue of the clock does at the
first failed poll, which is not what issues.py promises of it (`claim_clock`
below).

**Entry.** For any registers, groups, accessories, connections and platforms:

| theorem | inductive invariant, and why it is needed |
|---|---|
| `EntryTypeCorrect` | `TypeInv`: a probe stays within its groups (`WellFormed`) |
| `LoadedAlwaysRunsWhatIsStored` | `RunInv`: from the moment the setup reads it, stored data that change are unheard or make the entry reload; `CoveredInv`: a choice decides on no more than it was made from |
| `DiscoveryIsAlwaysTrue` | `DiscoveryInv`: of the registers a probe has passed it misses only absent and silent ones; one that is through has passed them all |
| `DetectedFilterAlwaysStays` | `KnownInv`: while a setup discovers, the filters known are among those it read before it began |
| `EntitiesAlwaysFollowTheSetup` | `EntityInv`: created are the used entities of the platforms that are through, and they are enabled unless the user or their default disabled them; a marked entity is in the registry |

**Energy, codec, blocks.** What they compute is a recursion over data (a sum
over intervals or bits, a fold over sorted registers), and the provers
cannot instantiate the induction theorems of the library, whose parameter is an
operator. `MeasureProofs` therefore starts with induction over a *set*:
`Induction` for a set of numbers and `SubsetInduction` for a set of subsets, both
from the minimal element that a well-founded order has (`WFMin`). From them
follow that a fold over a finite set exists (`FoldExists`) and that a sum is what
it should be whichever element is taken first (`SumsAgree`, `SumOfMore`). Then:

| theorem | argument |
|---|---|
| `TotalIsAlwaysTheArea` | `EnergyInv`: the reading the entity keeps is the last one of the history if that counts, so the next reading adds to the total what it adds to the sum (`AreaGrows`) |
| `TotalOnlyFallsByRounding` | the same invariant: what a reading adds is not negative, and `RoundedIsNear` bounds what a restart takes |
| `ValuesSurvive` | 2^n doubles with n, shown of the number of subsets (`Powers`), so the words of a type are the digits of its raw values: `EncodedIsDecoded`, and `DecodedInRange` for the other way; `BitsAddUp` is by induction on the bits |
| `BlocksAreRight` | `Sorted` is the order of addresses (`SortedOrders`); the fold goes register by register (`AddedOneByOne`), and `GoodBlocks` holds after each (`OneRegisterMore`) |

`CodecAlwaysAgrees` and `BlocksAlwaysAgree` are the last two as invariants of
what the run `measures` enumerates.

Every safety invariant and action property of the runs is stated by a
theorem. Only model-checked is liveness under fairness
(`LatestIsShownEventually`, `UnitFollowsSource`, `TimedBoostEnds`, `ViewSettles`,
`SetupSettles`): the prover has neither fairness nor `ENABLED`.

## Where the code and its documents disagree

Three are runs that TLC ends with a counterexample.

1. `claim_handled` (bus_feed.py:525). The source goes A, B, A while the write of
   B is on its way: the last A equals `_written` and is skipped, B arrives, and
   the unit has B until the next refresh. docs/bus-inputs.md:30 says every
   change that changes the value sent is written.
2. `claim_clock` (issues.py:96). The first failed poll compares the clock of
   the poll before with the time now. With a scan interval above 5 minutes
   (config_flow.py:288 allows an hour) each first failure raises an issue about
   a clock that is right. issues.py:3-4 says an issue is shown "while the
   problem lasts".
3. `claim_connection` (\_\_init\_\_.py:252). A reconfiguration while a setup
   probes: the setup stores the discovery of the old unit beside the new
   connection, and the next setup does not probe the new unit. config_flow.py:210
   says "A new connection may lead to another unit: discover again."

Weaknesses that the models show as well, which no property claims away. Of the
feeder; the next refresh repairs the value in each, at most 8 minutes later
(`ForcedWriteSettles`, `UnitFollowsSource`):

* The source changes between its first write and the registration of the
  listeners: not heard (bus_feed.py:363-370).
* The source is unavailable at the refresh and back with the same value:
  skipped as unchanged, the value expires although no write failed
  (bus_feed.py:525).
* A retry that finds the source unavailable ends the series
  (bus_feed.py:286; the docstring at 211 says retries go on until a success).
* The second retry after a refresh comes after the 10 minutes that const.py:40
  counts on, as each is counted from the end of the failed write
  (bus_feed.py:275).
* A value that waits for the throttle is logged after a skip, and the next one
  sent, being the same, is not (bus_feed.py:162; the docstring says it is).

Of the other parts:

* A speed after `turn_off` and before a poll takes the mode of the data for the
  unit's and writes the level only, while the unit is off (fan.py:222): the
  reason for `speed = "informed"` in `SpeedComesWithAMode`.
* A boost that ends before any poll saw it on keeps its timer (fan.py:178),
  which ends a later boost: `told` must have been "on" in
  `KnownEndDropsTheTimer`.
* A new boost call whose write fails has cancelled the timer of the boost that
  runs (fan.py:139).
* Options or data changed while a setup runs are not followed by a reload
  (\_\_init\_\_.py:191): `unheard` in `LoadedRunsWhatIsStored`.
* An options form opened before a rediscovery stores its answer against
  accessories it did not show (config_flow.py:279). If it is sent before the
  new discovery and there was no choice, the answer is stored without what was
  offered (config_flow.py:266-271) and counts as one of a version up to 0.4.0:
  it decides on accessories of that version that were not shown, and not on a
  later one that was.
* A setup that ends with another exception than `ConfigEntryNotReady`, such as
  a failing start of the feeder, is not tried again (`error` in `SetupSettles`).
* A rediscovery that does not find the registers of a filter forgets the filter.
* The write that ends a timed boost is tried once (fan.py:148); if it fails, the
  boost runs for the unit's own duration: an end that `TimedBoostEnds` allows.
* Between the removal of the fan and the closing of its hub, a call that was
  waiting still writes, after Home Assistant has given the fan up.
* A clock that is wrong by about the limit may gain and lose its issue with
  the first failed poll, whatever the scan interval.
* A poll that cannot read the odd identity register clears the problem: a value
  that is missing is no reason. Writes to that device are allowed again until a
  poll reads it.
* Two user flows for the same connection check for it before their await and
  can both create an entry (config_flow.py:119; not modelled).
* The energy takes the wall clock: set back between two polls, the elapsed time
  is negative and a total that "only ever increases" decreases
  (sensor.py:298-301; `now` of `Energy` never goes back).

## What is not modelled

`PROJECT.json` lists every component with its status. Left out, and why:

* The dashboard card (TypeScript in the browser) and the blueprints (run by Home
  Assistant's script engine).
* Formatting: display values, logbook entries and diagnostics, translations.
* The table of registers itself (data), the clock register (six words that are
  taken as a date), and the formulas of `derived.py` without state (real
  arithmetic), except those the energy uses.
* Of the config flow: the first step of the user flow, and the scan interval and
  bus inputs among the options; of the setup: the registration of the card.
* Of the feeder: the rename of a source (a change of the options, which reload
  the entry) and the listeners of the "sent" sensors.
* What a value tells of an accessory is an input of `Entry`; a level is a
  request without its number in `Fan`.
* Home Assistant itself, beyond the behaviour the handlers rely on.

## Plan

Modelled as planned: the bus inputs first, then fan and boost, polls with
issues, discovery, the entry with the cleanup of its entities, codec, blocks and
energy. What is left, in this order:

1. An abstract boost (off, running without an end, running until a time) that
   `Fan` implements, as the feeder does its log.
2. `CardPending`: a pending change of the card against its timeout, the report
   of the unit and a refusal that comes late.
