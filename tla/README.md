# Bee With Me: TLA+ models, checks and proofs

Bee With Me is the map and alarm application of a rescue team's command post.
RescuerBee devices report their position and SOS state over radio; a FastAPI
backend stores the frames in PostgreSQL, evaluates a fire alarm against
satellite hotspots, and pushes what changed to browsers over a WebSocket.

This directory holds TLA+ modules that model the parts of the system where an
SOS or a fire alarm could be missed, duplicated or left behind, where data could
be lost (migrations, feeds) or one admin could undo another's change, the TLC
configurations that check them on small instances, and TLAPS proofs for all
values of the constants. Paths below are relative to the repository root.

## 1. Inventory

| Component | State it keeps | Operations | Hard behaviour |
|---|---|---|---|
| Alarm decision, `backend/fire/proximity.py` | none | `evaluate` | thresholds, missing data, order of the resolve reasons |
| Alarm service, `fire/service.py` and `fire/repository.py` | `fire_alerts`, `fire_hotspots.suppressed_by_zone_id`, an advisory lock | one tick every `TICK_S` or when woken: read, evaluate, write, repeat | many reads at different moments, savepoints that fail alone, a lock shared with one handler only |
| Handlers, `routers/fire.py`, `settings.py`, `devices.py`, `users.py` | settings row with HQ, zones, devices, users, dismissals, acknowledgements | one short transaction each | they race the tick; some end alerts themselves |
| Gateway reader, `hardware_reader/hid_reader.py`, `reader.py`, `parser.py` | `bee_last_events` (process memory), `location_events`, `sos_alerts` | frame in, confirmation out | duplicates, lost confirmations, a failure between two autocommitted statements, restart |
| Positions API, `routers/locations.py` | reads; resolves SOS | `live`, `resolve` | two sources (push, load) of one fact |
| Feed poller, `fire/poller.py`, `parse.py`, `sources.py` | feed state (process memory), `fire_hotspots`, `fire_burnt_areas`, a session lock | fetch, parse, store, notify every 30 min in every process | feeds fail separately; fetches are not locked; a lock holder dies |
| Live channel, `ws.py`, `useWebSocket.js` | connected clients, the LISTEN connection | broadcast, reconnect, resync | lost notifications, clients that come and go during a broadcast |
| Browser stores, `frontend/src/stores/*.js` | alert list, ring, positions, SOS banner, settings form, tokens | loads, pushes, clicks | loads overlap pushes; logout overlaps loads and refreshes |
| Settings row, `routers/settings.py`, `stores/settings.js`, `SettingsView.vue` | the row and its `updated_at`; per page a store, a form and its baseline | save, set or clear HQ, upload a legacy HQ, merge what arrives | several admins, stale versions, answers that arrive while the operator types or is asked a question |
| Zones, `routers/fire.py` | zone rows with `updated_at` | create, edit, enable, disable | stale versions |
| Start-up and migrations, `main.py`, `db/migrate.py`, `scripts/backup.sh` | `schema_migrations`, advisory lock, backup marker, dumps | status, backup check, one transaction per file, default admin | crash anywhere, several starters of several releases, a stale backup |
| Retention, `main.py` | none | daily deletes | keyed on the device's clock |
| Test mode, `simulation.py`, `routers/test.py` | one object with a task; rows of the demo trackers | start, stop, reset | check, await, act; a cancelled task that still writes |
| Tile download, `routers/tiles.py` | a flag, files | start, status | check-then-act |
| Restore script | database names | restore | run by hand with the backend stopped |

How they interact: the reader writes `location_events` and `sos_alerts`, which
the tick (targets) and the positions API read; the poller and admins write
hotspots, zones and settings and wake the tick (`request_evaluation`); the tick
and the handlers write `fire_alerts`; every writer of something visible issues
`pg_notify`, which `ws.py` forwards to browsers.

What makes each correct:

- *decision*: never misses a hotspot inside the radius, never closes on silence,
  one pass settles, no flapping on the boundary;
- *alert rows*: at most one open row per hotspot and target; an alert ends once;
  a called-off alert ends, a danger raises one, acknowledged ones do not ring
  again, none survives its device;
- *reader*: each event stored or dropped on purpose before it is confirmed, each
  SOS onset has one alert, a resolved one stays resolved;
- *browser lists, live channel*: they converge to what the server has;
- *feeds*: a refresh never loses stored data, the newest edition arrives, the
  status recovers;
- *settings*: no admin's change is undone by a page that has not seen it, a cleared
  HQ stays cleared, what is typed survives what arrives;
- *start-up*: each file runs once, on its own schema, with a dump at hand; nobody
  serves an incomplete schema; nobody waits for ever;
- *test mode*: after a reset the map is empty and stays so.

## 2. Modules and the code

| Module | What it models |
|---|---|
| `FireEvaluate` | the pure decision, as operators on a "world" record |
| `EvaluationPasses`, `MCEvaluationPasses` | evaluations in a row with moving targets; all small worlds |
| `EvaluationProofs` | proofs about both |
| `AlertBook` | abstract specification: the life of an alert, per (hotspot, target) |
| `FireAlarm`, `MCFireAlarm` | the tick transaction against every handler it races; two instances |
| `FireAlarmProofs` | inductive invariant, safety, refinement of `AlertBook`, liveness while ticks go on |
| `FrameIngest`, `MCFrameIngest` | the reader from frame to confirmation |
| `SosBook` | abstract specification: what a rescuer's SOS comes to, per device |
| `FrameIngestProofs` | inductive invariant and safety of the reader, refinement of `SosBook`, confirmation while frames get through |
| `BrowserAlerts`, `MCBrowserAlerts` | one browser's open-alert list: loads, pushes, acknowledgements, socket, session |
| `BrowserAlertsProofs` | inductive invariant and safety of the list; it converges while loads go on |
| `Migrate`, `MCMigrate` | start-up of several backend processes on one database, and the backup script |
| `SchemaHistory` | abstract specification: how the schema grows and who may serve it |
| `MigrateProofs` | inductive invariant and safety of start-up, refinement of `SchemaHistory`, start-ups only advance |
| `FeedRefresh`, `MCFeedRefresh` | the feed refresh in every process: parse, lock, store, status |
| `FeedRefreshProofs` | inductive invariant and the two action properties of the refresh; the status recovers while refreshes go on |
| `SharedSettings`, `MCSharedSettings` | the settings row, the admins' pages, HQ, a deleted account |
| `SharedSettingsProofs` | inductive invariant and safety of the row; what was typed stays |
| `TestMode`, `MCTestMode` | the simulator's start, loop, stop and reset |
| `TestModeProofs` | inductive invariant and the promise of reset |

`FireAlarm` EXTENDS `FireEvaluate`: the tick decides with the same operators the
first run checks exhaustively.

### The decision

A world holds what `evaluate()` is given. Geography is a finite table of
distances in whole metres instead of the haversine formula; the hysteresis
`> 1.2 * r` is the integer comparison `5 * d > 6 * r`. Time enters as the age of a
hotspot in hours (`acquired_at > now - maxAge`). A rescuer without a position in
the last 30 minutes and one that is absent are treated alike by the code
(`_fresh`, `known.get`), so both are `NoPlace`. `zones` are the active ones, each
identified with its area; editing an area replaces the element.
`hq_missing` only chooses a log line and is left out.

### The tick and its rivals

The database runs READ COMMITTED: each statement sees what is committed when it
starts. The tick is one transaction, so the model gives it

- `TickBegins`: `pg_try_advisory_xact_lock` and the settings row with HQ. When the
  lock is taken the code returns at once, which is no step here;
- `TickReadsTargets`, `TickReadsHotspots`, `TickDecides`: the reads. Hotspots
  and zones are read in one step: no transaction of the program writes both, so
  no outcome is lost;
- `TickWrites`: `set_suppression`, `resolve_alert`, `resolve_disabled_alerts`,
  `insert_alert`, into `pending`;
- `TickRepeats`: `mark_repeats_due` on what the tick itself sees (`Effective`);
- `TickCommits`, or `EvaluationFails`, `RepeatFails` (a savepoint rolls back alone)
  and `TickAborts` (the whole transaction is undone).

Merging the writes into one step is justified by isolation: nobody sees
uncommitted rows, and each row the tick changed is locked until it ends
(`LockedByTick`: a handler that would change it is disabled, as it would wait).
One difference remains: a handler that waited for a row lock would, in PostgreSQL,
not see rows the tick newly inserted (its snapshot is older), while the model's handler runs
after the tick and does. The open row it would leave behind is the one an
insert after the handler leaves, which the model has too.
What the merge hides is the order of row locks, hence a deadlock between two
multi-row updates; PostgreSQL resolves that by aborting one, which the model
has as `TickAborts` or `EvaluationFails`.

A handler is one short transaction and one action, with its ends of alerts
included (`put_hq` and `put_settings` with `resolve_hq_alerts`,
`deactivate_device` and `deactivate_user` with `resolve_disabled_alerts`).
`PutHq(p)` is `SaveSettings(settings, p)`. `delete_device_permanent` is three actions,
because it *waits* for the alarm lock before it does anything:
`DeleteTakesLock`, then `DeleteCommits` or `DeleteRollsBack`. `delete_user` is four
autocommitted statements; only the last one is visible to the alarm.

`alerts[k]` is the latest row of a key. Resolved rows are history: no statement
but anonymisation writes them, and the partial unique indexes allow one open
row per key, so the latest row says everything the properties ask.
`due` stands for "`repeat_minutes` have passed since `last_notified_at`".

### The reader

The device is outside the repository. `NewEvent` models it as `docs/PROTOCOL.md`
describes it: one event at a time, repeated until confirmed or replaced; event
ids do not repeat within the 15 s window. One reader process runs; each statement of
`_handle_bee` commits alone, so there is one action per statement that matters
and `ReaderFails` or `Restart` may come between any two.
`sending[d].outcome` records what became of the event, `raised` and `owed` are history
variables: they feed properties and no guard. A restart forgets
`bee_last_events`; a reconnect does not. `carrierActive` is chosen freely in
`PushLocation`, since users are not part of this module.

### The browser's open-alert list

The server is reduced to a status per alert (none, open, acked, resolved), which only
advances: `AlertBook` has the rest. `pushes` are messages on the way over the open
socket, in order; the ids that one transaction changes travel as one message, although the
code sends one per id: they belong to one commit, so no load can read between them, and
a load that lands between them merely shows one alert's change before the other's. `PushLost` stands for a LISTEN connection that was down, a broadcast that failed
and a half-open socket, and may happen to any message.

`socket` is `none` before the first `connect()`, then `connecting`, `open` or `closed`.
`Connect` is the map page's call and the reconnect timer's; `Opens`, with the load that follows a
reconnect, is `onopen`; `SocketCloses` is `onclose`, after a failed attempt or a drop, and may
happen any number of times. The resync timer runs from the first `connect()` (`StartLoad`), but
each `connect()` restarts its 45 s, and `onclose` schedules the next one after 3 s: what the
timer owes is `ResyncOwed`, a resync while an open socket or an attempt lasts.

`fetchOpenAlerts` keeps a sequence number and a log, so that only the newest load
counts and what changed since it started is replayed over its answer. The model has
exactly this: one `load`, replaced by a newer one, with the set `touched`; since the replay
puts the current entry of each logged id back, the set says as much as the log. A
load is two steps, the server's read and the arrival. A superseded load matters
only to a repeat message that waits for it: `waiters` holds these, and the set
does not count two with the same ids. The rows and the count of a listing are
read in one step (the code uses two statements, so `hidden` can be off by
what changed in between until the next load); the row limit is a choice of rows left
out, acknowledged ones first.

`ClickAck`, `AckArrives`, `AckReturns` are the request, the handler and the answer; one
request per alert is under way at a time. A 404 does not occur, since alert rows are not
deleted. `Logout` is `resetAlerts` with `disconnect`; requests under way are not
cancelled, as in the code. `Login` is `AppLayout` mounting, after the form or because
a page is opened with a stored token; the map page, which owns the socket and the
resync timer, may be opened later or never (`OpenMap`). A page reload is a new browser,
hence `Init`. `ringing` says that the step asks for the tone; the minimum gap between two
tones (`RING_GAP_MS`) is left out: a ring it drops falls within a tone that plays.
`restored` is a history variable: ids the silent first load listed.

### Start-up

`proc[p]` is where a process is in `lifespan()`: `guard` after `status()`, `file` between
two files of the loop, `execute` inside a file's transaction, `migrated` and `create` around
`_ensure_default_admin`, `serving`. Its local variables are in the same record and go with it
(`Plain`). A release carries the files `1..Release[p]`, so a process may know fewer files than
another one applies meanwhile. The transaction's lock, recheck and SQL are `SkipFile` or
`TakeFile`, then `CommitFile` or `FileFails`; a crash rolls back and frees the lock
(`Released`). Whether `ALLOW_MIGRATE_WITHOUT_BACKUP` is set is chosen per start (`waived`).

`backup.sh` is three steps, because it reads `schema_migrations` before it dumps and
replaces the marker last; other processes may migrate in between. Backups run one at a
time. `marker.here` stands for the system identifier and the database name, `marker.good`
for the checks of the dump file and its age. A dump's contents are the versions it holds.

The code allows a few things the properties therefore do not promise: "fresh install" is judged
before the lock, so a second process may run files over what a first has just created, without a
dump; a process that looks when another is half-way through its files is refused, since no backup
has just these versions; and a release may serve a database that a newer one then
migrates.

### The feed refresh

`refresh_once()` fetches and parses both feeds, then tries the session lock; a process that
does not get it skips the cycle. `stored` says which edition of GWIS each row is from.
`Parse` is both parsers by what they keep, drop and count: a feature is malformed, outside
the box, dated in the future, old or recent, and has an id; the first usable one of an id wins.
`Unusable` is `MAX_DROPPED_SHARE`. `StoredUnheard` is a commit whose answer is lost: the
process reports a failure although the rows are new. A lost connection leaves the lock with
a session that PostgreSQL has yet to notice (`DeadSession`). `overtaken` is a history
variable: the processes whose fetch is older than another one's store.

`_refresh_guard` is the fact that a process has one refresh at a time. `MCFeedRefresh` leaves out
the empty feature list, which the code accepts: with it nothing would oblige GWIS to
publish anything. An overtaken refresh stores its older rows, and the two
overlapped refreshes both store, which is more than "the others skip the cycle"
(`poller.py:4`) suggests; the next cycle repairs it. A process that skips keeps an
`error` status of its own although another has stored the feed.

### The settings row and its pages

`log` is the sequence of the row's contents and `updated_at` the position in it, since the trigger
renews it on every UPDATE. A page holds positions instead of copies: `store` is
`store.settings`, `form` the answer the form waits for, `side` an answer that goes to the store
alone (Clear HQ, the legacy upload, the map's `loadSettings`). `base` and `draft` are `baseline`
and `draft`. Two fields stand for all: one alarm switch, which asks before it is turned off, and
one radius. `onSave` is `Check` and `Checked`, `doSave` with its answers is `Put`, `Saved` and
`Stale`. Only pages of `Pages` are followed; the others' writes are `Elsewhere`, with any
values a current client may send. Failed requests change nothing at the server and are left out.

`DeleteUser` matters because `updated_by ... ON DELETE SET NULL` is an UPDATE of the row: it
renews the version and brings `updated_by IS NULL` back.

### Test mode

Each `await` of `simulation.py` is a boundary between actions: `Start` is the check,
`Seeded` what follows the seeding, `Place` a silent tracker's report, `CreateTask` the end;
`Report` and `Alarm` are the two statements of `record_position`. Cancelling is a flag until the
loop's next await: `LoopEnds` ends it and resumes whoever awaits it in the same turn of the
event loop. `roles` belongs to the object, so a later start changes what an orphaned loop
writes. Seeding, in the code one transaction, writes no positions and is one step. `reset`
is a transaction of two deletes and one step here.

`emptied` says that a reset has answered that was called while no start was under way,
that none disturbed, and after which none was let in. This is what `ResetLeavesEmptyMap`
promises, and no more: a stop or reset called while a start still seeds finds no task and does
nothing, so test mode runs after it; and two starts that overlap leave a loop nobody can
stop (section 4).

## 3. Runs

| Run | Instance | Shows |
|---|---|---|
| `evaluation` | one satellite hotspot (pixel 2), one field report, HQ and one device, one zone; positions at 0, 8, 10, 12, 13 around radius 8; ages 0..2 | the decision's five promises in all 110 592 worlds |
| `alarm_hq` | one hotspot, HQ, one zone, ages 0..1, alarm on or off, one fault | types; uncommitted writes still apply; first resolution wins; due alerts sound |
| `alarm_rescuer` | one hotspot, one device, one user, one fault | no orphan; refinement of `AlertBook`; danger alarms; called-off alerts end; ticks go on (`TicksGoOn`) |
| `ingest` | one device, three events, two faults | types; loss only after a fault; refinement of `SosBook` (one open SOS, a resolved one stays resolved); frames get through (`FramesGetThrough`); every event is confirmed |
| `browser` | one alert, two messages under way, one failed request; any number of lost messages, drops and failed attempts to connect | no false acknowledgement; told or restored; unless every attempt to open the socket fails, loads go on (`LoadsGoOn`), resolved alerts leave and open ones are shown |
| `migrate` | a process of the previous release (one file) and one of the next (two files), every database earlier releases leave | types; own schema; a dump before a change; refinement of `SchemaHistory` (one file at a time and in order; only complete schemas serve); start-ups end |
| `feed` | two processes, two editions, two features, two faults; answers with a duplicate, at the feature limit, half usable, unusable | the last good copy stays; rows go back only when overtaken; refreshes go on (`RefreshesGoOn`); the newest edition arrives; the status recovers |
| `settings` | one page with a legacy HQ, another admin elsewhere, three saves or HQ writes, a deleted account | a cleared HQ stays cleared; what a stale page may overwrite; no alarm is switched off unasked; typed values stay |
| `testmode` | two starts, two admins, two trackers, scenarios with one or both of them in every role | types; a reset leaves an empty map |
| `hq_race` | as `alarm_hq` | **violated**: clearing HQ leaves an open HQ alert |
| `ingest_sos` | one device, one fault | **violated**: a stored SOS onset without an alert |
| `settings_overwrite` | as `settings` | **violated**: a page puts back what another admin changed |

The types of `BrowserAlerts`, `FeedRefresh` and `SharedSettings` are no property of a run:
`BrowserTypes`, `FeedTypes` and `SettingsTypes` prove them for every instance, as the first conjunct
of the invariants that the safety properties rest on.

Why the bounds are enough. Alerts of different keys share no state but the
settings and the lock, so one hotspot and one target per instance show every
interplay of one alert with the tick; the two `FireAlarm` instances take
different targets because HQ and rescuers are ended by different handlers.
Two positions are inside and beyond the exit threshold; the exact
thresholds are the business of `evaluation`, whose places sit on and one past
each of them. `Oldest = 1` with `maxAge = 1` is a hotspot that ages out
(`Oldest = 0` in the rescuer instance leaves ageing to the other). One fault can
hit any step; a second one cannot combine with the first across ticks,
since each tick starts clean (`IdleIsClean`, proved). In `ingest` three events are SOS, clear, SOS again,
and two faults allow a failure while repairing another. In the browser's list alerts
meet only in acknowledge-all, in repeat messages and in `seen` and `rang`; one alert shows
every order of load, push and answer. An alert that arrives while others are being
acknowledged takes two; that it is not marked as well is part of what
`Acknowledged` proves for any number of alerts. In `migrate` one release carries a file the
other does not know, and the newer one has a file before and after any point at which the other
can interfere; counters need no bound, since versions only grow. In `feed` two faults allow one
failure to meet another (a lost connection while the other process has a failed feed); two editions are enough for
a row to go back, two processes for one to be overtaken. In `settings` `MaxVersion = 4` stops
saves and HQ writes after three; the deletion of the one account that can be deleted and the upload of the one
legacy HQ come on top, so the row has up to six versions. That is enough for one admin to set and clear HQ, another
to save and be deleted and the first one's browser to upload, and for a stale save between two writes of others;
writes stop at the bound, so the run does not check deadlock. In `testmode` two starts can overlap and one
can follow a reset. The safety properties checked on these instances are also proved for
every instance (section 5).

### Fairness

`FireAlarm`: weak fairness of `TickSteps`: `run()` starts a tick at least every
`TICK_S` seconds for as long as the process lives and catches every exception, so a
tick that can go on does. Weak fairness of `DeleteCommits`: a transaction that
holds the lock ends. No handler is fair: admins need not do anything. The
liveness properties are conditional on facts that stay put (`<>[]`), and failures
are finitely many (`MaxFaults`).

`FrameIngest`: weak fairness of the reader's loop (`OpenDevice` after
`RECONNECT_DELAY`, `Handle`), strong fairness of `ProcessFrame(d)`: the device repeats
an unconfirmed event and the reader is idle again and again.

`BrowserAlerts`: weak fairness of `Connect` (the reconnect timer; the map page, once mounted), of
`ResyncOwed` (the interval timer, for as long as no `onclose` is about to restart it), of the
server's handlers and of answers and messages under way. The socket need not open, messages may
be lost, and neither is bounded; failed requests are, by `MaxFaults`. Strong fairness of
`LoadLands`: resyncs replace each other's loads, and what is assumed is that an answer
takes less than the 45 s between them now and then. Without it an answer that is always slower
than the interval would starve the list, since the code drops it as superseded. Nobody need
open the map, click or log in.

`Migrate`: weak fairness of a process's own statements; strong fairness of getting the advisory
lock, which PostgreSQL grants in the order of asking while other processes take and release it.
Backups, crashes and new starts are not fair: nobody need start anything.

`FeedRefresh`: weak fairness of each process's cycle (`run()` catches every exception, and
a fetch has its deadline `FEED_DEADLINE_S`) and of the server's noticing a dead session. The database calls have no
timeout: that they return or fail is an assumption about the environment. GWIS need not publish,
and faults are finitely many (`MaxFaults`). Fetches of a usable answer are what a cycle does when
no fault is left; without that nothing could arrive.

`SharedSettings` and `TestMode` assume no fairness: people need not do anything, and no
liveness is claimed.

## 4. Findings

Shown by a run, each with the part that holds:

1. `reader.py:133`: the SOS alert is a separate statement after the location row
   and opens on the edge only; a failure between the two loses the alert for as
   long as the device asserts SOS, against `Architecture/Architecture.md:124`
   (`NoSosLost`). `SosOwedOnlyAfterFault` is the part that holds, proved.
2. `service.py:91`: a tick that read HQ before it was cleared opens an HQ alert
   afterwards, and no later tick ends it while HQ is missing;
   `routers/settings.py:130-133` (`ClearedHqOwnsNoAlert`). Taking
   `ALARM_LOCK_KEY` in `put_hq`, as the permanent delete does, would close it.
3. `SettingsView.vue:477`: the answer to Clear HQ (or a late answer for the map) replaces
   `store.settings`, and with it the version a save sends, without `adoptFresh`. If the form is
   asking whether to turn an alarm off at that moment, the save that follows is accepted
   and puts back what another admin has changed, against `stores/settings.js:52-53`
   (`StalePageNeverOverwrites`). `OverwritesOnlyUnadopted` says that this is the only case,
   proved. Calling `adoptFresh()` after `clearHQ()`, or sending the version the form last
   adopted, would close it.

Described by the modules, without a run of their own:

4. `hid_reader.py:103` records an event as seen before it is handled, so after a
   failed `_handle_bee` the retransmission is confirmed and nothing is stored;
   `docs/PROTOCOL.md:131-133` promises at-least-once. `ConfirmedLossOnlyAfterFault` is the part
   that holds, proved.
5. `reader.py:141` computes the pushed SOS state without `le.sos_active`, which
   `locations.py:36` includes; the comment at `reader.py:140` says they agree.
6. `MapView.vue:743` is the only place that opens the socket and starts the resync. A
   session that begins on another page (a reload on `/users`) loads the alerts once and
   then hears nothing, against `AppLayout.vue:61-62`. `OpenIsShown` is the part that holds:
   once the map was opened, every open alert is shown in the end, but for finding 12.
7. `fire.js:352`: a repeat message whose load is superseded is treated as reloaded and
   keeps quiet about an open, unlisted alert, against `fire.js:349-351`. The newer load
   rings for an alert it lists for the first time, so the silence lasts until that load
   lands or, if it fails, until the next load or repeat.
8. `routers/settings.py:155-156` says that a cleared HQ is not resurrected by a legacy
   browser copy. It is once the account of whoever saved last was deleted, because
   `updated_by` becomes NULL again, also when the admin who cleared HQ is another one and still
   there; `ClearedHqStaysCleared` states the promise with this exception.
9. `SettingsView.vue:265` says that an edited field is never overwritten. `reset()` after an
   accepted save also drops what was typed while the save was under way; `TypedStays` states
   the promise with this exception.
10. `poller.py:4` says that other processes skip the cycle while one refreshes. They skip
   only its store phase: an overtaken process stores older rows over newer ones
   (`BackwardsOnlyWhenOvertaken`).
11. `simulation.py:227`: two starts may both pass the check, and the loop of the one that sets
   `self.task` first can no longer be stopped; a stop or reset during a start does
   nothing, and test mode runs after it (`routers/test.py:221-222` promises an empty map).
12. `useWebSocket.js:96-97`: every `connect()` restarts the 45 s resync, and `onclose` (line 91) calls
   it again 3 s after an attempt that failed. While requests work but the socket does not open (a
   proxy that refuses the upgrade), no resync ever fires: an alert raised then is not listed, a
   resolved one stays, against `useWebSocket.js:6-9` ("every failure mode self-heals within a
   minute"). `LoadsGoOn`, `OpenIsShown` and `ResolvedLeaves` hold with this exception
   (`KeepsFailing`) and, checked without it, are violated by a loop of `Connect` and
   `SocketCloses`. Leaving the interval alone where it already runs would close it.

## 5. Proofs

All theorems hold for every value of the constants under the modules' named
assumptions: `GeographyAssumption` (types of the tables; HQ is not a device),
`StartAssumption`, `BrowserAssumption`, `FeedAssumption`, `SettingsAssumption` (bounds are
naturals, names are distinct, answers are sequences of features), `MigrateAssumption` (releases
are prefixes of the files), `TestModeAssumption` (scenarios give roles to trackers), `AlarmAssumption` (`SettingsChoices` non-empty and
well-typed; `"free"` and `"tick"` are no devices) and `IngestAssumption` (bounds are
naturals).

- `EvaluationProofs`: `Missed`, `Silence`, `Settles`, `Hysteresis` and `Decisions`. They
  rest on `HysteresisGap` (`d <= r` excludes `5d > 6r`), on
  `OpenedHasNoReason` (every reason that would end an alert also prevents its
  opening: the heart of "one pass settles"), and on the fact that reasons
  and openings do not depend on what is open. The invariant is `world \in Worlds`.
- `FireAlarmProofs`: `Invariance` proves `IInv`. `NoOrphanAlert` is not inductive: a
  tick may carry a device from its snapshot through plan and pending rows into
  an alert. `TargetsRegistered` says that at each of these stages the device is
  registered, which needs `LockHeld` (no delete is under way while a tick is) and
  `IdleIsClean`. `UncommittedWritesStillApply` needs the row locks: `RowsFree`
  disables exactly the handlers that would falsify it. From `IInv` follow
  `AlarmTypes`, `NoOrphans`, `WritesApply`, `FirstWins` (an action property) and
  `Refinement`: `Init` maps to `AlertBook!Init`, `TickCommits` and handlers that end
  alerts map to `Evaluation`, `Acknowledge` maps to itself, every other step
  stutters. `DangerIsHeard`, `CalledOffIsEnded` and `DueIsRepeated` are below.
- `FrameIngestProofs`: `IngestInvariance` proves its `IInv`. `PrevIsLatest` (nobody else
  stores rows of this device) with `RaisedAsserts` gives `ResolvedStays`;
  `OpeningIsNew` gives `OneSos`; `FrameSeen` and `SeenIsDone` give `ConfirmedLoss`.
  `SosRefinement` maps `InsertLocation` to `Assert`, `Calm` or a stutter, `OpenSosAlert` to `Raise`,
  which needs `OpeningIsNew`, and `ResolveSos` to `Resolve`; failures, restarts and
  duplicates stutter.
- `BrowserAlertsProofs`: `BrowserInvariance` proves its `IInv`. `AckedIsAcked` needs
  `ServerIsAhead`: rows, messages, answers and requests under way claim nothing
  the server has not reached, and the server only advances. `ToldOrRestored` needs
  `SeenIsTold`: an alert that a load listed without telling anybody was acknowledged by
  then, so no later answer can bring it back unacknowledged and skip the ring because
  its id is in `seen`. `Entries` says where a changed list entry can come from; both
  conjuncts follow from it. Neither proof uses that messages arrive in order.
- `MigrateProofs`: `OnItsOwnSchema` needs `Prefix` (no gaps in what is applied), `Locked` (the
  lock is held exactly by the process inside a file, whose file is not applied) and `Behind`
  (what a loop has passed is applied): together they say that the next file is exactly the
  first one missing. `Dumped` needs `Saved` and `Justified`: a marker names a dump that holds
  the versions it claims, since the dump is made after they were read and versions only grow. `OneHistory` maps `TakeFile` to `Begin`, `CommitFile` to `Complete`, a failed
  or crashed file to `Fail` and the end of a start-up to `Serve`; `NextFile` is the lemma that
  makes the file of a loop the one after the last applied. `BoundedStartup` says that every step of a start-up
  ends it or raises `Progress`, which is bounded: the part of `StartupEnds` that needs no fairness.
- `FeedRefreshProofs`: `FeedKeepsData` follows from `LockHeld` (a store has the lock for as long as
  it has its connection) and from `Upserted`. `FeedMovesOn` needs `NotOlder`: what a
  refresh that was not overtaken has fetched is at least as new as the table, since nobody
  stored after it began.
- `SharedSettingsProofs`: `OverwritesAreUnadopted` needs `AsksAsStored`: a form that asks its
  question and whose store nothing replaced has the store's values as its baseline, and the
  server accepts a save only if the store is the row; so an untouched field is saved as it is.
  `AlarmOffIsAsked` needs the lock only: a save that asks nothing was compared with the version it names
  (`StepSaves` says which steps save). `ClearedStays` needs `WrittenBy`: `updated_by` is NULL at the start
  and after the deletion of whoever wrote the version before, so where a legacy HQ is accepted the last writer is gone; and
  a save keeps HQ, since the version it names is the row.
  `TypedFieldsStay` goes through the steps of the page: a merge (`MergeKeepsTyped`) and an accepted
  PUT (`PutKeepsDraft`) are the only ones that bring a form an answer.
- `TestModeProofs`: `ResetEmpties` needs `OneWriter` (starts that never overlapped leave one
  writer, and it is the task's) and `DeletesInPeace` (a reset that nobody disturbed deletes when
  nothing writes).

### Liveness, in two halves

That a fair scheduler makes progress is about ENABLED, which the prover cannot reason about. What
progress then achieves is not, and it is where the code could go wrong. So each of the
properties below is split: a hypothesis in plain temporal logic says that progress is made, a run
checks it under the fairness of section 3, and a theorem derives the property from `Spec` and the
hypothesis, for every value of the constants and without any fairness.

- `TicksGoOn` (run `alarm_rescuer`): ticks commit again and again, and failures of a tick end.
  - `DangerIsHeard` (`DangerAlarms`): once the danger is for good and failures are over, a tick that began
    after that reads it, decides for it and commits an alert. `DangerOnItsWay` says for
    each stage of the tick what it then knows; `DangerOutlastsOthers` and `DangerOutlastsTick`
    that no handler and no step of the tick loses it; `DangerKeepsAlert` that the
    alert, once open, stays, since each reason to end it contradicts the danger.
  - `CalledOffIsEnded` (`CalledOffEnds`): the same for a reason to end, per reason
    (`EndOutlastsTick`), and nothing opens the alert again (`EndKeepsEnded`). A tick that began
    before the decision may open it once more, which is why it takes two commits.
  - `DueIsRepeated` (`DueAlertSounds`): a tick without failures that commits has repeated what was due.
- `FramesGetThrough` (run `ingest`): the reader comes to rest again and again, the frame of a device that waits is in
  hand again and again, and failures end.
  - `EventsAreConfirmed` (`EventIsConfirmed`): a frame in hand when failures are over leaves the reader
    only by a confirmation (`InHandStep`, `WorksOnStep`), of the event or of its duplicate; events only grow
    (`EventsGrow`), so a device that has gone on never waits for the old one.

- `LoadsGoOn` (run `browser`): with the map open for good, loads land again and again although resyncs, repeat messages
  and reconnects replace each other's, also with a socket that drops again and again, or every attempt to open one
  fails from some time on (`KeepsFailing`); and no message or answer about an alert is under way for ever. The
  two properties have the same exception.
  - `OpenComesToShow` (`OpenIsShown`): a load that begins once the alert is open has a row for it or says that there are
    more (`HasRow`, `RowStays`); landing, it lists the alert (`LoadLists`), and what happened while it ran does not
    take it out, because what a load leaves alone is listed unless resolved (`TouchedIsListed`) and nothing but a resolution
    says that an alert is resolved (`ResolvedSaid`); `SaidInvariance` proves both.
  - `ResolvedComesToLeave` (`ResolvedLeaves`): once the last news from before the resolution has arrived or is lost, no other comes
    (`NoOldNewsStays`, from `NewsChanges` and `AnswerChanges`), so the next load neither has a row for the alert nor keeps
    an entry of it (`DroppedStays`), and the one that lands takes it off for good (`UnlistedStays`). A late
    acknowledgement's answer may bring it back before that, which is why this takes two loads.
- `RefreshesGoOn` (run `feed`): refreshes are completed again and again, and faults end.
  - `StatusIsHonest` (`StatusRecovers`): a process that completes a refresh begun after the last fault has an answer for both feeds
    and stores both (`OnItsWay`, `WayStep`), which clears the `error`; no other process touches its status (`OthersLeave`).
    A process that never gets the lock again keeps it, and then the others complete refreshes for ever: the
    property's second disjunct.

Model-checked only:

- `TicksGoOn`, `FramesGetThrough`, `LoadsGoOn` and `RefreshesGoOn`, which need ENABLED;
- `StartupEnds`: besides fairness it needs an induction over the files, of which
  `BoundedStartup` proves the step;
- `NewestEditionArrives`: an overtaken refresh may put older rows back, at most once for each of the others
  that fetched before the last edition. That this ends is an induction over a finite set of processes (with infinitely
  many it would be false), which the prover's library states with an operator parameter;
- the violations.

## 6. Not modelled

Abstracted in the modules above: the haversine formula; a hotspot's place is
constant in `FireAlarm`, although an upsert may correct it; pruning and anonymisation of old
rows (a pruned hotspot has no alert); notification payloads; the wire format;
repeater frames, which take the same path without a database row of
interest; foreign-key failures of a tick that inserts an alert for a user
deleted meanwhile, which are `EvaluationFails`; test mode as a second writer in `FrameIngest`;
counts and times in a feed's status; the 48 hours passing between parse and store; the syntax
check of migration files; validation and failed requests of the settings form.

Left out:

- *Zones*: the same conditional UPDATE as the settings row, without a form that
  merges. Their effect on alarms is in `FireAlarm`.
- *The server's side of the live channel* (`ws.py`): its set of clients and its LISTEN
  connection. What can go wrong there reaches a browser as a lost message, which `BrowserAlerts`
  has.
- *Browser positions* (`stores/locations.js`): a list without sequence numbers; what a late
  answer shows wrongly lasts until the next push or load.
- *Retention* (`main.py`): single-statement deletes by age. Whether one hits a device's newest row
  depends on its clock, and the models have no wall clock.
- *Authentication and token refresh*: password hashing and JWT are libraries.
- *Tile download*: a flag and files that can be downloaded again; no alarm depends on it.
- *`restore.sh`*: run by hand while the backend is stopped; it drives external tools.
- *Weather, export, groups, logging, views*: stateless, single statements, or presentation.
