----------------------------- MODULE FireAlarm -----------------------------
(***************************************************************************)
(* The fire alarm: the evaluation tick of FireAlarmService                 *)
(* (backend/fire/service.py, fire/repository.py) against one PostgreSQL    *)
(* database that the API handlers, the poller and the HID reader write at  *)
(* the same time (READ COMMITTED, one snapshot per statement).             *)
(*                                                                         *)
(* The tick is one transaction of several statements.  Its reads are       *)
(* taken in separate steps, so what it decides on may be stale when it     *)
(* writes; its writes stay in `pending` (nobody else sees them, but the    *)
(* rows it changed are locked) until it commits.  Every other handler is   *)
(* one short transaction and one action: where it changes rows the tick    *)
(* has locked, it waits, which here is a disabled action.                  *)
(*                                                                         *)
(* An alert row is identified by its key (hotspot, target): the partial    *)
(* unique indexes allow one open row per key, and resolved rows are        *)
(* history nobody updates, so the latest row of a key is all that matters. *)
(***************************************************************************)
EXTENDS FireEvaluate

CONSTANTS
    Users,            \* people who carry devices
    NoUser,
    SettingsChoices,  \* the alarm settings an admin may save
    Oldest,           \* bound: hotspots stop ageing here
    MaxFaults         \* bound: failed statements, lost connections and rolled-back deletes

ASSUME AlarmAssumption ==
    /\ NoUser \notin Users
    /\ SettingsChoices \subseteq AlarmSettings
    /\ SettingsChoices # {}
    /\ Oldest \in Nat
    /\ MaxFaults \in Nat
    /\ {"free", "tick"} \cap Devices = {}
    /\ "nobody" \notin Devices

VARIABLES
    settings, hq,           \* the settings row: alarm settings and HQ position
    device,                 \* devices: registered, active, carried by whom
    userState,              \* users
    fix, fresh,             \* each device's latest location row; those received in the last 30 minutes
    stored, age, dismissed, \* fire_hotspots
    suppressed,             \* hotspots whose suppressed_by_zone_id is set
    zones,                  \* active suppression zones
    alerts,                 \* fire_alerts: the latest row of every key
    lock,                   \* the advisory lock ALARM_LOCK_KEY
    stage,                  \* where the tick's transaction is
    seen,                   \* what the tick has read so far
    plan,                   \* evaluate()'s decisions
    pending,                \* the tick's uncommitted alert rows
    pendingSuppressed,      \* its uncommitted suppressed_by_zone_id column
    faults                  \* failures so far

dbVars == <<settings, hq, device, userState, fix, fresh, stored, age, dismissed, zones>>
tickVars == <<stage, seen, plan, pending, pendingSuppressed>>
vars == <<dbVars, suppressed, alerts, lock, tickVars, faults>>

-----------------------------------------------------------------------------
Rows ==
    [status: {"none", "open", "acked", "closed"}, reason: Reasons \cup {Keep}, due: BOOLEAN]

NoRow     == [status |-> "none", reason |-> Keep, due |-> FALSE]
OpenRow   == [status |-> "open", reason |-> Keep, due |-> FALSE]

\* Mutant of ClosedRow: an alert is ended without a reason on record.
ClosedRowNoReason(reason) == [status |-> "closed", reason |-> Keep, due |-> FALSE]

ClosedRow(reason) == [status |-> "closed", reason |-> reason, due |-> FALSE]

NoChange == [status |-> "unchanged", reason |-> Keep, due |-> FALSE]
NoneSeen == [settings |-> CHOOSE s \in SettingsChoices : TRUE, loaded |-> {}, age |-> [h \in Hotspots |-> 0],
             dismissed |-> {}, zones |-> {}, at |-> [t \in Targets |-> NoPlace], open |-> {}]
NoPlan == [open |-> {}, reason |-> [k \in Keys |-> Keep], suppressed |-> {}]
NothingPending == [k \in Keys |-> NoChange]

IsOpen(row) == row.status \in {"open", "acked"}

\* The tick holds the row lock of every committed row it has updated; a row it inserted is invisible to others.
LockedByTick(k) == pending[k] # NoChange /\ IsOpen(alerts[k])

\* A handler's UPDATE of the open rows among K does not wait for the tick.
RowsFree(K) == \A k \in K : ~LockedByTick(k)

\* Mutant of EndAlerts: the UPDATE lacks "resolved_at IS NULL".
EndAlertsAgain(K) ==
    [k \in Keys |-> IF k \in K /\ alerts[k] # NoRow THEN ClosedRow("disabled") ELSE alerts[k]]

\* An admin's decision ends the open alerts among K, as 'disabled'.
EndAlerts(K) ==
    [k \in Keys |-> IF k \in K /\ IsOpen(alerts[k]) THEN ClosedRow("disabled") ELSE alerts[k]]

HqKeys == Hotspots \X {HQ}
DeviceKeys(D) == Hotspots \X D

Carries(u) == {d \in Devices : device[d].user = u}

\* A rescuer the alarm may speak for: the device row exists and is active, and its holder, if any, is active.
Eligible(d) ==
    /\ device[d].registered /\ device[d].active
    /\ device[d].user = NoUser \/ userState[device[d].user] = "active"

\* Mutant of DisabledKeys: the tick leaves deactivated rescuers alone.
NoDisabledKeys == {}

\* resolve_disabled_alerts: the rescuer alerts it ends.  A key without a device row does not match the join.
DisabledKeys ==
    DeviceKeys({d \in Devices : device[d].registered /\ ~Eligible(d)})

Init ==
    /\ settings \in SettingsChoices
    /\ hq = NoPlace
    /\ device = [d \in Devices |-> [registered |-> TRUE, active |-> TRUE, user |-> NoUser]]
    /\ userState = [u \in Users |-> "active"]
    /\ fix = [d \in Devices |-> NoPlace]
    /\ fresh = {}
    /\ stored = {}
    /\ age = [h \in Hotspots |-> 0]
    /\ dismissed = {}
    /\ suppressed = {}
    /\ zones = {}
    /\ alerts = [k \in Keys |-> NoRow]
    /\ lock = "free"
    /\ stage = "idle"
    /\ seen = NoneSeen
    /\ plan = NoPlan
    /\ pending = NothingPending
    /\ pendingSuppressed = {}
    /\ faults = 0

-----------------------------------------------------------------------------
(* API handlers, poller and HID reader: one committed transaction each.    *)

\* PUT /settings.  Clearing HQ ends its open alerts in the same transaction.
SaveSettings(s, p) ==
    /\ settings' = s
    /\ hq' = p
    /\ IF p = NoPlace
         THEN RowsFree(HqKeys) /\ alerts' = EndAlerts(HqKeys)
         ELSE UNCHANGED alerts
    /\ UNCHANGED <<device, userState, fix, fresh, stored, age, dismissed, zones, suppressed, lock, tickVars, faults>>

\* PUT /settings/hq
PutHq(p) == SaveSettings(settings, p)

\* A feed upserts a hotspot (of a stored one it may only bring another acquired_at), or somebody files a field report.
StoreHotspot(h, a) ==
    /\ stored' = stored \cup {h}
    /\ age' = [age EXCEPT ![h] = a]
    /\ UNCHANGED <<settings, hq, device, userState, fix, fresh, dismissed, zones, suppressed, alerts, lock, tickVars,
                   faults>>

HoursPass(h) ==
    /\ h \in stored
    /\ age[h] < Oldest
    /\ age' = [age EXCEPT ![h] = @ + 1]
    /\ UNCHANGED <<settings, hq, device, userState, fix, fresh, stored, dismissed, zones, suppressed, alerts, lock,
                   tickVars, faults>>

DismissHotspot(h) ==
    /\ h \in stored
    /\ dismissed' = dismissed \cup {h}
    /\ UNCHANGED <<settings, hq, device, userState, fix, fresh, stored, age, zones, suppressed, alerts, lock, tickVars,
                   faults>>

WriteZones(Z) ==
    /\ zones' = Z
    /\ UNCHANGED <<settings, hq, device, userState, fix, fresh, stored, age, dismissed, suppressed, alerts, lock,
                   tickVars, faults>>

\* Create or enable a zone; disable one; move an active one elsewhere.
EnableZone(z) == WriteZones(zones \cup {z})
DisableZone(z) == WriteZones(zones \ {z})
EditZone(z, y) == z \in zones /\ WriteZones((zones \ {z}) \cup {y})

\* A frame of the device is stored (of an inactive device too), with a fix or with the last known one.
StoreLocation(d, p) ==
    /\ device[d].registered
    /\ fix' = [fix EXCEPT ![d] = p]
    /\ fresh' = fresh \cup {d}
    /\ UNCHANGED <<settings, hq, device, userState, stored, age, dismissed, zones, suppressed, alerts, lock, tickVars,
                   faults>>

\* TARGET_POSITION_MAX_AGE_MIN passed without a frame.
GoesSilent(d) ==
    /\ d \in fresh
    /\ fresh' = fresh \ {d}
    /\ UNCHANGED <<settings, hq, device, userState, fix, stored, age, dismissed, zones, suppressed, alerts, lock,
                   tickVars, faults>>

\* Changes of a device's row: its carrier, or reactivation.
WriteDevice(d, row) ==
    /\ device[d].registered
    /\ device' = [device EXCEPT ![d] = row]
    /\ UNCHANGED <<settings, hq, userState, fix, fresh, stored, age, dismissed, zones, suppressed, alerts, lock,
                   tickVars, faults>>

AssignDevice(d, u) ==
    /\ u \in {NoUser} \cup {v \in Users : userState[v] # "deleted"}
    /\ WriteDevice(d, [device[d] EXCEPT !.user = u])

ReactivateDevice(d) == WriteDevice(d, [device[d] EXCEPT !.active = TRUE])

\* DELETE /devices/{id}, or PUT with is_active false: its open alerts end in the same transaction.
DeactivateDevice(d) ==
    /\ device[d].registered
    /\ RowsFree(DeviceKeys({d}))
    /\ device' = [device EXCEPT ![d].active = FALSE]
    /\ alerts' = EndAlerts(DeviceKeys({d}))
    /\ UNCHANGED <<settings, hq, userState, fix, fresh, stored, age, dismissed, zones, suppressed, lock, tickVars,
                   faults>>

DeactivateUser(u) ==
    /\ userState[u] # "deleted"
    /\ RowsFree(DeviceKeys(Carries(u)))
    /\ userState' = [userState EXCEPT ![u] = "inactive"]
    /\ alerts' = EndAlerts(DeviceKeys(Carries(u)))
    /\ UNCHANGED <<settings, hq, device, fix, fresh, stored, age, dismissed, zones, suppressed, lock, tickVars, faults>>

ReactivateUser(u) ==
    /\ userState[u] = "inactive"
    /\ userState' = [userState EXCEPT ![u] = "active"]
    /\ UNCHANGED <<settings, hq, device, fix, fresh, stored, age, dismissed, zones, suppressed, alerts, lock, tickVars,
                   faults>>

\* The user row goes; devices.user_id is ON DELETE SET NULL, so what an inactive user carried speaks again.
DeleteUser(u) ==
    /\ userState[u] # "deleted"
    /\ userState' = [userState EXCEPT ![u] = "deleted"]
    /\ device' = [d \in Devices |-> IF device[d].user = u THEN [device[d] EXCEPT !.user = NoUser] ELSE device[d]]
    /\ UNCHANGED <<settings, hq, fix, fresh, stored, age, dismissed, zones, suppressed, alerts, lock, tickVars, faults>>

\* Acknowledge one alert, the listed ones, or all: only open, unacknowledged rows change.
Acknowledge(K) ==
    /\ RowsFree({k \in K : alerts[k].status = "open"})
    /\ alerts' = [k \in Keys |->
                     IF k \in K /\ alerts[k].status = "open" THEN [alerts[k] EXCEPT !.status = "acked"] ELSE alerts[k]]
    /\ UNCHANGED <<dbVars, suppressed, lock, tickVars, faults>>

\* repeat_minutes have passed since last_notified_at.
BecomesDue(k) ==
    /\ IsOpen(alerts[k])
    /\ alerts' = [alerts EXCEPT ![k].due = TRUE]
    /\ UNCHANGED <<dbVars, suppressed, lock, tickVars, faults>>

-----------------------------------------------------------------------------
(* Permanent delete of a device: the only other holder of the alarm lock.  *)

\* Mutant of DeleteTakesLock: the delete does not wait for the tick.
DeleteTakesNoLock(d) ==
    /\ device[d].registered
    /\ lock' = d
    /\ UNCHANGED <<dbVars, suppressed, alerts, tickVars, faults>>

DeleteTakesLock(d) ==
    /\ device[d].registered
    /\ lock = "free"
    /\ lock' = d
    /\ UNCHANGED <<dbVars, suppressed, alerts, tickVars, faults>>

\* Ends the device's open alerts, deletes its locations and the row; device_id of its old alerts becomes NULL.
DeleteCommits(d) ==
    /\ lock = d
    /\ device' = [device EXCEPT ![d] = [registered |-> FALSE, active |-> FALSE, user |-> NoUser]]
    /\ fix' = [fix EXCEPT ![d] = NoPlace]
    /\ fresh' = fresh \ {d}
    /\ alerts' = EndAlerts(DeviceKeys({d}))
    /\ lock' = "free"
    /\ UNCHANGED <<settings, hq, userState, stored, age, dismissed, zones, suppressed, tickVars, faults>>

DeleteRollsBack(d) ==
    /\ lock = d
    /\ faults < MaxFaults
    /\ faults' = faults + 1
    /\ lock' = "free"
    /\ UNCHANGED <<dbVars, suppressed, alerts, tickVars>>

-----------------------------------------------------------------------------
(* The tick.                                                               *)

\* pg_try_advisory_xact_lock, then the settings row with HQ.  When the lock is taken the tick returns at once.
TickBegins ==
    /\ stage = "idle"
    /\ lock = "free"
    /\ lock' = "tick"
    /\ stage' = "begun"
    /\ seen' = [NoneSeen EXCEPT !.settings = settings, !.at[HQ] = hq]
    /\ UNCHANGED <<dbVars, suppressed, alerts, plan, pending, pendingSuppressed, faults>>

HasOpenAlert(h) == \E t \in Targets : IsOpen(alerts[<<h, t>>])

\* load_rescuer_targets: the latest position of every eligible rescuer heard in the last 30 minutes.
TickReadsTargets ==
    /\ stage = "begun"
    /\ stage' = "targets"
    /\ seen' = [seen EXCEPT !.at = [t \in Targets |->
                   IF t = HQ THEN seen.at[HQ] ELSE IF t \in fresh /\ Eligible(t) THEN fix[t] ELSE NoPlace]]
    /\ UNCHANGED <<dbVars, suppressed, alerts, lock, plan, pending, pendingSuppressed, faults>>

\* load_evaluation_hotspots and load_active_zones: no transaction writes both tables, so reading them in one step
\* loses no interleaving.
TickReadsHotspots ==
    /\ stage = "targets"
    /\ stage' = "read"
    /\ seen' = [seen EXCEPT
          !.loaded = {h \in stored \ FieldReports : age[h] < seen.settings.maxAge \/ HasOpenAlert(h)},
          !.age = age,
          !.dismissed = dismissed,
          !.zones = zones]
    /\ UNCHANGED <<dbVars, suppressed, alerts, lock, plan, pending, pendingSuppressed, faults>>

\* load_open_alerts, and the decision.
TickDecides ==
    LET w == [seen EXCEPT !.open = {k \in Keys : IsOpen(alerts[k])}]
    IN  /\ stage = "read"
        /\ stage' = "decided"
        /\ plan' = [open |-> ToOpen(w),
                    reason |-> [k \in Keys |-> IF k \in w.open THEN ResolveReason(k, w) ELSE Keep],
                    suppressed |-> (suppressed \ w.loaded) \cup Suppressed(w)]
        /\ seen' = NoneSeen
        /\ UNCHANGED <<dbVars, suppressed, alerts, lock, pending, pendingSuppressed, faults>>

\* Mutant of ResolvedByPlan: resolve_alert without "resolved_at IS NULL".
ResolvedByPlanBlindly(k) == plan.reason[k] # Keep

\* resolve_alert: the row may have been ended by a handler since it was read.
ResolvedByPlan(k) == plan.reason[k] # Keep /\ IsOpen(alerts[k])

\* Mutant of InsertedByPlan: a unique index over all rows, not only the open ones.
InsertedOnce(k) == k \in plan.open /\ alerts[k] = NoRow

\* insert_alert ... ON CONFLICT DO NOTHING, the partial unique indexes counting open rows only.
InsertedByPlan(k) == k \in plan.open /\ ~IsOpen(alerts[k])

\* set_suppression, resolve_alert, resolve_disabled_alerts and insert_alert, all uncommitted.
TickWrites ==
    /\ stage = "decided"
    /\ stage' = "written"
    /\ pending' = [k \in Keys |->
          IF ResolvedByPlan(k) THEN ClosedRow(plan.reason[k])
          ELSE IF k \in DisabledKeys /\ IsOpen(alerts[k]) THEN ClosedRow("disabled")
          ELSE IF InsertedByPlan(k) THEN OpenRow
          ELSE NoChange]
    /\ pendingSuppressed' = plan.suppressed
    /\ plan' = NoPlan
    /\ UNCHANGED <<dbVars, suppressed, alerts, lock, seen, faults>>

\* A statement of the evaluation fails: its savepoint rolls back, and the tick goes on with the repeats.
EvaluationFails ==
    /\ stage \in {"begun", "targets", "read", "decided"}
    /\ faults < MaxFaults
    /\ faults' = faults + 1
    /\ stage' = "written"
    /\ seen' = NoneSeen
    /\ plan' = NoPlan
    /\ pending' = NothingPending
    /\ pendingSuppressed' = suppressed
    /\ UNCHANGED <<dbVars, suppressed, alerts, lock>>

\* The rows as the tick's own statements see them.
Effective(k) == IF pending[k] = NoChange THEN alerts[k] ELSE pending[k]

\* Mutant of RepeatDue: acknowledged alerts are repeated too.
RepeatDueAcked(k) == IsOpen(Effective(k)) /\ Effective(k).due

RepeatDue(k) == Effective(k).status = "open" /\ Effective(k).due

\* Mutant of TickRepeats: last_notified_at is not advanced.
TickRepeatsForgets ==
    /\ stage = "written"
    /\ stage' = "repeated"
    /\ UNCHANGED <<dbVars, suppressed, alerts, lock, seen, plan, pending, pendingSuppressed, faults>>

\* mark_repeats_due: last_notified_at moves to now for every open, unacknowledged alert that is due.
TickRepeats ==
    /\ stage = "written"
    /\ stage' = "repeated"
    /\ pending' = [k \in Keys |-> IF RepeatDue(k) THEN OpenRow ELSE pending[k]]
    /\ UNCHANGED <<dbVars, suppressed, alerts, lock, seen, plan, pendingSuppressed, faults>>

\* The repeat savepoint rolls back; the evaluation stands.
RepeatFails ==
    /\ stage = "written"
    /\ faults < MaxFaults
    /\ faults' = faults + 1
    /\ stage' = "repeated"
    /\ UNCHANGED <<dbVars, suppressed, alerts, lock, seen, plan, pending, pendingSuppressed>>

\* Mutant of EndTick: a session-level lock that the tick does not give back.
EndTickKeepsLock ==
    /\ stage' = "idle"
    /\ lock' = lock
    /\ seen' = NoneSeen
    /\ plan' = NoPlan
    /\ pending' = NothingPending
    /\ pendingSuppressed' = {}

EndTick ==
    /\ stage' = "idle"
    /\ lock' = "free"
    /\ seen' = NoneSeen
    /\ plan' = NoPlan
    /\ pending' = NothingPending
    /\ pendingSuppressed' = {}

\* The outer transaction commits, and the notifications (fire_alert, fire_alert_updated, fire_alert_repeat) go out.
TickCommits ==
    /\ stage = "repeated"
    /\ alerts' = [k \in Keys |-> Effective(k)]
    /\ suppressed' = pendingSuppressed
    /\ EndTick
    /\ UNCHANGED <<dbVars, faults>>

\* The process or its connection dies, or the settings cannot be read: everything the tick did is undone.
TickAborts ==
    /\ stage # "idle"
    /\ faults < MaxFaults
    /\ faults' = faults + 1
    /\ EndTick
    /\ UNCHANGED <<dbVars, suppressed, alerts>>

-----------------------------------------------------------------------------
Handlers ==
    \/ \E s \in SettingsChoices, p \in Places \cup {NoPlace} : SaveSettings(s, p)
    \/ \E p \in Places \cup {NoPlace} : PutHq(p)
    \/ \E h \in Hotspots, a \in 0..Oldest : StoreHotspot(h, a)
    \/ \E h \in Hotspots : HoursPass(h) \/ DismissHotspot(h)
    \/ \E z \in Zones : EnableZone(z) \/ DisableZone(z)
    \/ \E z, y \in Zones : EditZone(z, y)
    \/ \E d \in Devices, p \in Places : StoreLocation(d, p)
    \/ \E d \in Devices : GoesSilent(d) \/ ReactivateDevice(d) \/ DeactivateDevice(d)
    \/ \E d \in Devices, u \in Users \cup {NoUser} : AssignDevice(d, u)
    \/ \E u \in Users : DeactivateUser(u) \/ ReactivateUser(u) \/ DeleteUser(u)
    \/ \E K \in SUBSET Keys : Acknowledge(K)
    \/ \E k \in Keys : BecomesDue(k)

Delete == \E d \in Devices : DeleteTakesLock(d) \/ DeleteCommits(d) \/ DeleteRollsBack(d)

TickSteps ==
    TickBegins \/ TickReadsTargets \/ TickReadsHotspots \/ TickDecides \/ TickWrites \/ TickRepeats \/ TickCommits

TickFaults == EvaluationFails \/ RepeatFails \/ TickAborts

Next == Handlers \/ Delete \/ TickSteps \/ TickFaults

Spec == Init /\ [][Next]_vars

\* The alarm loop starts a tick at least every TICK_S seconds and nothing but a fault stops one; a delete that has the
\* lock finishes.
Fairness ==
    /\ WF_vars(TickSteps)
    /\ \A d \in Devices : WF_vars(DeleteCommits(d))

LiveSpec == Spec /\ Fairness

-----------------------------------------------------------------------------
(* Properties.                                                             *)

DeviceRows == [registered: BOOLEAN, active: BOOLEAN, user: Users \cup {NoUser}]
Stages == {"idle", "begun", "targets", "read", "decided", "written", "repeated"}
Plans == [open: SUBSET Keys, reason: [Keys -> Reasons \cup {Keep}], suppressed: SUBSET Hotspots]

\* Every variable has its type, and a row records a reason exactly when it is resolved (the CHECK of fire_alerts,
\* 0004: (resolved_at IS NULL) = (resolve_reason IS NULL)).
TypeOK ==
    /\ settings \in AlarmSettings
    /\ hq \in Places \cup {NoPlace}
    /\ device \in [Devices -> DeviceRows]
    /\ userState \in [Users -> {"active", "inactive", "deleted"}]
    /\ fix \in [Devices -> Places \cup {NoPlace}]
    /\ fresh \subseteq Devices
    /\ stored \subseteq Hotspots
    /\ age \in [Hotspots -> Nat]
    /\ dismissed \subseteq Hotspots
    /\ suppressed \subseteq Hotspots
    /\ zones \subseteq Zones
    /\ alerts \in [Keys -> Rows]
    /\ \A k \in Keys : alerts[k].status = "closed" <=> alerts[k].reason # Keep
    /\ lock \in {"free", "tick"} \cup Devices
    /\ stage \in Stages
    /\ seen \in Worlds
    /\ plan \in Plans
    /\ pending \in [Keys -> Rows \cup {NoChange}]
    /\ pendingSuppressed \subseteq Hotspots
    /\ faults \in 0..MaxFaults

\* The comment in delete_device_permanent (devices.py:173-177): a tick inserting an alert must not interleave with the
\* delete, or an open alert is left without a device.
NoOrphanAlert ==
    \A k \in Keys : (k[2] \in Devices /\ IsOpen(alerts[k])) => device[k[2]].registered

\* The uncommitted rows of the tick still apply to the committed ones when it commits, whatever the handlers have done
\* since: it ends only alerts that are still open, opens only keys that have none open, and repeats only alerts nobody
\* has acknowledged.
UncommittedWritesStillApply ==
    \A k \in Keys :
        /\ pending[k].status = "closed" => IsOpen(alerts[k])
        /\ pending[k].status = "open" => alerts[k].status # "acked"
        /\ pending[k].status \in {"closed", "open", "unchanged"}

\* An alert ends once: an admin's decision and the tick's may race, but the first one to commit is the one on record,
\* until a new alert of that key opens.
FirstResolutionWins ==
    [][\A k \in Keys :
          (alerts[k].status = "closed" /\ alerts'[k] # alerts[k]) => alerts'[k] = OpenRow]_alerts

-----------------------------------------------------------------------------
(* The inductive invariant behind them.                                    *)

\* The tick's transaction lasts exactly as long as it holds the advisory lock.
LockHeld == lock = "tick" <=> stage # "idle"

\* Between ticks nothing is read, planned or pending.
IdleIsClean == stage = "idle" => seen = NoneSeen /\ plan = NoPlan /\ pending = NothingPending

\* Only registered devices are in the tick's snapshot, in its plan, in its uncommitted rows and in open alerts.
TargetsRegistered ==
    /\ \A d \in Devices : seen.at[d] # NoPlace => device[d].registered
    /\ \A k \in plan.open : k[2] \in Devices => device[k[2]].registered
    /\ \A k \in Keys :
          (k[2] \in Devices /\ (IsOpen(alerts[k]) \/ pending[k].status = "open")) => device[k[2]].registered

\* The tick writes whole rows.
PendingShape == \A k \in Keys : pending[k] \in {NoChange, OpenRow} \cup {ClosedRow(reason) : reason \in Reasons}

IInv == TypeOK /\ LockHeld /\ IdleIsClean /\ TargetsRegistered /\ PendingShape /\ UncommittedWritesStillApply

-----------------------------------------------------------------------------
(* The abstract specification, and liveness.                               *)

Book == INSTANCE AlertBook WITH book <- [k \in Keys |-> alerts[k].status]

\* The alert list keeps the promises of AlertBook: acknowledged alerts never ring again before they have ended, an
\* ended alert stays ended, and one evaluation opens and ends each alert at most once.
ImplementsBook == Book!Spec

\* A hotspot the alarm must speak about, seen from the committed data.
InDanger(k) ==
    LET h == k[1]
        t == k[2]
        w == [NoneSeen EXCEPT !.settings = settings,
                              !.at[t] = IF t = HQ THEN hq ELSE IF t \in fresh /\ Eligible(t) THEN fix[t] ELSE NoPlace,
                              !.loaded = stored \ FieldReports, !.age = age, !.dismissed = dismissed, !.zones = zones]
    IN  k \in ToOpen(w)

\* A decision that the alert has no reason to be: the hotspot is dismissed or under a zone, the alarm type is switched
\* off, or the rescuer is no longer active.
CalledOff(k, reason) ==
    LET h == k[1]
        t == k[2]
    IN  CASE reason = "dismissed"  -> h \in dismissed
          [] reason = "suppressed" -> Covered(h, zones)
          [] reason = "disabled"   -> ~Enabled(t, settings)
          [] reason = "inactive"   -> t \in Devices /\ device[t].registered /\ ~Eligible(t)

\* Architecture.md's "No SOS or fire alarm can be missed or lost": whatever races and (finitely many) failures there
\* were, a target that stays within the radius of a live hotspot, under settings that stay put, gets an open alert for
\* good.
DangerAlarms ==
    \A k \in Keys, s \in SettingsChoices :
        <>[](settings = s /\ InDanger(k)) => <>[]IsOpen(alerts[k])

\* A stale decision heals: an alert that is called off for good, even one a tick opened from data read before that
\* decision, ends and stays ended.
CalledOffEnds ==
    \A k \in Keys, reason \in {"dismissed", "suppressed", "disabled", "inactive"} :
        <>[]CalledOff(k, reason) => <>[]~IsOpen(alerts[k])

\* An unacknowledged alert that is due sounds again (mark_repeats_due), even when the evaluation of that tick fails.
DueAlertSounds ==
    \A k \in Keys : (alerts[k].status = "open" /\ alerts[k].due) ~> ~(alerts[k].status = "open" /\ alerts[k].due)

\* The evaluation never stops for good: whatever the handlers and the permanent deletes do, ticks go on committing, and
\* failures, of which there are finitely many, end.  No lock is left behind by a delete, a failed tick or a lost
\* connection.
TicksGoOn == []<><<TickCommits>>_vars /\ <>[][~TickFaults]_vars

\* put_hq's docstring (settings.py:130-133): clearing HQ ends its open alerts in the same transaction.
ClearedHqOwnsNoAlert == hq = NoPlace => \A h \in Hotspots : ~IsOpen(alerts[<<h, HQ>>])
=============================================================================
