--------------------------- MODULE FireAlarmProofs ---------------------------
(***************************************************************************)
(* Safety of the tick against every other writer, for any number of        *)
(* hotspots, devices, users and zones, any map and any settings, and       *)
(* however many failures.  IInv (FireAlarm) is inductive; each theorem     *)
(* follows from it.                                                        *)
(***************************************************************************)
EXTENDS FireAlarm, TLAPS

-----------------------------------------------------------------------------
(* The operators the actions are built from.                               *)

\* The constant rows are rows, and a row has a reason exactly when it is closed.
LEMMA RowTypes ==
    /\ NoRow \in Rows /\ OpenRow \in Rows
    /\ NoRow.status = "none" /\ NoRow.reason = Keep
    /\ OpenRow.status = "open" /\ OpenRow.reason = Keep /\ OpenRow.due = FALSE
    /\ NoChange.status = "unchanged"
    /\ NoChange # OpenRow
    /\ \A reason \in Reasons :
          /\ ClosedRow(reason) \in Rows
          /\ ClosedRow(reason).status = "closed"
          /\ ClosedRow(reason).reason = reason
          /\ ClosedRow(reason) # NoChange
          /\ reason # Keep
  BY DEF Rows, NoRow, OpenRow, ClosedRow, NoChange, Reasons, Keep

\* What EndAlerts does to one row.
LEMMA EndAlertsRow ==
    ASSUME NEW K, NEW k \in Keys
    PROVE  \/ EndAlerts(K)[k] = alerts[k] /\ ~(k \in K /\ IsOpen(alerts[k]))
           \/ k \in K /\ IsOpen(alerts[k]) /\ EndAlerts(K)[k] = ClosedRow("disabled")
  BY DEF EndAlerts

\* Alert rows of the right type, with a reason exactly when closed.
AlertsOK == alerts \in [Keys -> Rows] /\ \A k \in Keys : alerts[k].status = "closed" <=> alerts[k].reason # Keep

\* Ending alerts keeps their types, and records a reason for each.
LEMMA EndAlertsOK ==
    ASSUME AlertsOK, NEW K, alerts' = EndAlerts(K)
    PROVE  AlertsOK'
<1>1. "disabled" \in Reasons
  BY DEF Reasons
<1>2. \A k \in Keys : alerts'[k] \in Rows /\ (alerts'[k].status = "closed" <=> alerts'[k].reason # Keep)
  BY <1>1, RowTypes, EndAlertsRow DEF AlertsOK
<1>3. alerts' = [k \in Keys |-> alerts'[k]]
  BY DEF EndAlerts
<1>. QED
  BY <1>2, <1>3 DEF AlertsOK

\* What the tick holds in memory between two statements has the right type.
LEMMA TickTypes ==
    /\ NoneSeen \in Worlds
    /\ NoPlan \in Plans
    /\ NothingPending \in [Keys -> Rows \cup {NoChange}]
<1>1. (CHOOSE s \in SettingsChoices : TRUE) \in AlarmSettings
  BY AlarmAssumption
<1>2. NoneSeen \in Worlds
  BY <1>1 DEF NoneSeen, Worlds
<1>. QED
  BY <1>2 DEF NoPlan, Plans, NothingPending

-----------------------------------------------------------------------------
(* Type correctness.                                                       *)

\* The initial state has the right types.
LEMMA TypeInit == Init => TypeOK
<1>. SUFFICES ASSUME Init PROVE TypeOK
  OBVIOUS
<1>1. alerts \in [Keys -> Rows] /\ \A k \in Keys : alerts[k].status = "closed" <=> alerts[k].reason # Keep
  BY RowTypes DEF Init
<1>2. settings \in AlarmSettings /\ faults \in 0..MaxFaults
  BY AlarmAssumption DEF Init
<1>. QED
  BY <1>1, <1>2, TickTypes DEF Init, TypeOK, DeviceRows, Stages

\* Every operation of a handler keeps the types.
LEMMA TypeHandlers == TypeOK /\ Handlers => TypeOK'
<1>. SUFFICES ASSUME TypeOK, Handlers PROVE TypeOK'
  OBVIOUS
<1>. USE DEF TypeOK, dbVars, tickVars
<1>1. ASSUME NEW s \in SettingsChoices, NEW p \in Places \cup {NoPlace}, SaveSettings(s, p)
      PROVE  TypeOK'
  <2>1. AlertsOK'
    BY <1>1, EndAlertsOK DEF SaveSettings, AlertsOK
  <2>. QED
    BY <1>1, <2>1, AlarmAssumption DEF SaveSettings, AlertsOK
<1>2. ASSUME NEW p \in Places \cup {NoPlace}, PutHq(p)
      PROVE  TypeOK'
  <2>1. AlertsOK'
    BY <1>2, EndAlertsOK DEF PutHq, SaveSettings, AlertsOK
  <2>. QED
    BY <1>2, <2>1 DEF PutHq, SaveSettings, AlertsOK
<1>3. ASSUME NEW h \in Hotspots, NEW a \in 0..Oldest, StoreHotspot(h, a)
      PROVE  TypeOK'
  BY <1>3, AlarmAssumption DEF StoreHotspot
<1>4. ASSUME NEW h \in Hotspots, HoursPass(h)
      PROVE  TypeOK'
  BY <1>4 DEF HoursPass
<1>5. ASSUME NEW h \in Hotspots, DismissHotspot(h)
      PROVE  TypeOK'
  BY <1>5 DEF DismissHotspot
<1>6. ASSUME NEW Z \in SUBSET Zones, WriteZones(Z)
      PROVE  TypeOK'
  BY <1>6 DEF WriteZones
<1>7. ASSUME NEW d \in Devices, NEW p \in Places, StoreLocation(d, p)
      PROVE  TypeOK'
  BY <1>7 DEF StoreLocation
<1>8. ASSUME NEW d \in Devices, GoesSilent(d)
      PROVE  TypeOK'
  BY <1>8 DEF GoesSilent
<1>9. ASSUME NEW d \in Devices, NEW row \in DeviceRows, WriteDevice(d, row)
      PROVE  TypeOK'
  BY <1>9 DEF WriteDevice
<1>10. ASSUME NEW d \in Devices, DeactivateDevice(d)
       PROVE  TypeOK'
  <2>1. AlertsOK'
    BY <1>10, EndAlertsOK DEF DeactivateDevice, AlertsOK
  <2>2. device' \in [Devices -> DeviceRows]
    BY <1>10 DEF DeactivateDevice, DeviceRows
  <2>. QED
    BY <1>10, <2>1, <2>2 DEF DeactivateDevice, AlertsOK
<1>11. ASSUME NEW u \in Users, DeactivateUser(u)
       PROVE  TypeOK'
  <2>1. AlertsOK'
    BY <1>11, EndAlertsOK DEF DeactivateUser, AlertsOK
  <2>. QED
    BY <1>11, <2>1 DEF DeactivateUser, AlertsOK
<1>12. ASSUME NEW u \in Users, ReactivateUser(u)
       PROVE  TypeOK'
  BY <1>12 DEF ReactivateUser
<1>13. ASSUME NEW u \in Users, DeleteUser(u)
       PROVE  TypeOK'
  <2>1. device' \in [Devices -> DeviceRows]
    BY <1>13 DEF DeleteUser, DeviceRows
  <2>. QED
    BY <1>13, <2>1 DEF DeleteUser
<1>14. ASSUME NEW K \in SUBSET Keys, Acknowledge(K)
       PROVE  TypeOK'
  <2>1. AlertsOK'
    BY <1>14 DEF Acknowledge, AlertsOK, Rows
  <2>. QED
    BY <1>14, <2>1 DEF Acknowledge, AlertsOK
<1>15. ASSUME NEW k \in Keys, BecomesDue(k)
       PROVE  TypeOK'
  <2>1. AlertsOK'
    BY <1>15 DEF BecomesDue, AlertsOK, Rows
  <2>. QED
    BY <1>15, <2>1 DEF BecomesDue, AlertsOK
<1>16. ASSUME NEW z \in Zones, EnableZone(z) \/ DisableZone(z)
       PROVE  TypeOK'
  <2>1. zones \cup {z} \in SUBSET Zones /\ zones \ {z} \in SUBSET Zones
    OBVIOUS
  <2>. QED
    BY <1>6, <1>16, <2>1 DEF EnableZone, DisableZone
<1>17. ASSUME NEW z \in Zones, NEW y \in Zones, EditZone(z, y)
       PROVE  TypeOK'
  <2>1. (zones \ {z}) \cup {y} \in SUBSET Zones
    OBVIOUS
  <2>. QED
    BY <1>6, <1>17, <2>1 DEF EditZone
<1>18. ASSUME NEW d \in Devices, ReactivateDevice(d)
       PROVE  TypeOK'
  <2>1. [device[d] EXCEPT !.active = TRUE] \in DeviceRows
    BY DEF DeviceRows
  <2>. QED
    BY <1>9, <1>18, <2>1 DEF ReactivateDevice
<1>19. ASSUME NEW d \in Devices, NEW u \in Users \cup {NoUser}, AssignDevice(d, u)
       PROVE  TypeOK'
  <2>1. [device[d] EXCEPT !.user = u] \in DeviceRows
    BY DEF DeviceRows
  <2>. QED
    BY <1>9, <1>19, <2>1 DEF AssignDevice
<1>. QED
  <2>. HIDE DEF TypeOK
  <2>. QED
    BY <1>1, <1>2, <1>3, <1>4, <1>5, <1>7, <1>8, <1>10, <1>11, <1>12, <1>13, <1>14, <1>15, <1>16, <1>17, <1>18, <1>19
    DEF Handlers

\* Deleting a device keeps the types.
LEMMA TypeDelete == TypeOK /\ Delete => TypeOK'
<1>. SUFFICES ASSUME TypeOK, Delete PROVE TypeOK'
  OBVIOUS
<1>. USE DEF TypeOK, dbVars, tickVars
<1>1. ASSUME NEW d \in Devices, DeleteTakesLock(d)
      PROVE  TypeOK'
  BY <1>1 DEF DeleteTakesLock
<1>2. ASSUME NEW d \in Devices, DeleteCommits(d)
      PROVE  TypeOK'
  <2>1. AlertsOK'
    BY <1>2, EndAlertsOK DEF DeleteCommits, AlertsOK
  <2>2. device' \in [Devices -> DeviceRows]
    BY <1>2 DEF DeleteCommits, DeviceRows
  <2>. QED
    BY <1>2, <2>1, <2>2 DEF DeleteCommits, AlertsOK
<1>3. ASSUME NEW d \in Devices, DeleteRollsBack(d)
      PROVE  TypeOK'
  BY <1>3, AlarmAssumption DEF DeleteRollsBack
<1>. QED
  BY <1>1, <1>2, <1>3 DEF Delete

\* Rows that the tick commits are rows, and have a reason exactly when closed.
LEMMA EffectiveOK ==
    ASSUME TypeOK, PendingShape, NEW k \in Keys
    PROVE  Effective(k) \in Rows /\ (Effective(k).status = "closed" <=> Effective(k).reason # Keep)
<1>1. CASE pending[k] = NoChange
  BY <1>1 DEF Effective, TypeOK
<1>2. CASE pending[k] = OpenRow
  BY <1>2, RowTypes DEF Effective
<1>3. CASE \E reason \in Reasons : pending[k] = ClosedRow(reason)
  BY <1>3, RowTypes DEF Effective
<1>. QED
  BY <1>1, <1>2, <1>3 DEF PendingShape

\* The tick, its failures and its end keep the types.
LEMMA TypeTick == TypeOK /\ PendingShape /\ (TickSteps \/ TickFaults) => TypeOK'
<1>. SUFFICES ASSUME TypeOK, PendingShape, TickSteps \/ TickFaults PROVE TypeOK'
  OBVIOUS
<1>. USE DEF TypeOK, dbVars, tickVars
<1>1. CASE TickBegins
  <2>1. seen' \in Worlds
    BY <1>1, TickTypes DEF TickBegins, Worlds
  <2>. QED
    BY <1>1, <2>1 DEF TickBegins, Stages
<1>2. CASE TickReadsTargets
  <2>1. seen' \in Worlds
    BY <1>2 DEF TickReadsTargets, Worlds, Targets
  <2>. QED
    BY <1>2, <2>1 DEF TickReadsTargets, Stages
<1>3. CASE TickReadsHotspots
  <2>1. seen' \in Worlds
    BY <1>3 DEF TickReadsHotspots, Worlds
  <2>. QED
    BY <1>3, <2>1 DEF TickReadsHotspots, Stages
<1>4. CASE TickDecides
  <2>. DEFINE w == [seen EXCEPT !.open = {k \in Keys : IsOpen(alerts[k])}]
  <2>1. ToOpen(w) \in SUBSET Keys
    BY DEF ToOpen
  <2>2. \A k \in Keys : (IF k \in w.open THEN ResolveReason(k, w) ELSE Keep) \in Reasons \cup {Keep}
    BY DEF ResolveReason, Reasons
  <2>3. (suppressed \ w.loaded) \cup Suppressed(w) \in SUBSET Hotspots
    BY DEF Suppressed, Worlds
  <2>. HIDE DEF w
  <2>4. plan' \in Plans
    BY <1>4, <2>1, <2>2, <2>3 DEF TickDecides, Plans, w
  <2>. QED
    BY <1>4, <2>4, TickTypes DEF TickDecides, Stages
<1>5. CASE TickWrites
  <2>1. \A k \in Keys : plan.reason[k] # Keep => plan.reason[k] \in Reasons
    BY DEF Plans
  <2>2. "disabled" \in Reasons
    BY DEF Reasons
  <2>3. pending' \in [Keys -> Rows \cup {NoChange}]
    BY <1>5, <2>1, <2>2, RowTypes DEF TickWrites, ResolvedByPlan
  <2>4. pendingSuppressed' \in SUBSET Hotspots
    BY <1>5 DEF TickWrites, Plans
  <2>. QED
    BY <1>5, <2>3, <2>4, TickTypes DEF TickWrites, Stages
<1>6. CASE EvaluationFails
  BY <1>6, TickTypes, AlarmAssumption DEF EvaluationFails, Stages
<1>7. CASE TickRepeats
  <2>1. pending' \in [Keys -> Rows \cup {NoChange}]
    BY <1>7, RowTypes DEF TickRepeats
  <2>. QED
    BY <1>7, <2>1 DEF TickRepeats, Stages
<1>8. CASE RepeatFails
  BY <1>8, AlarmAssumption DEF RepeatFails, Stages
<1>9. CASE TickCommits
  <2>1. \A k \in Keys : Effective(k) \in Rows /\ (Effective(k).status = "closed" <=> Effective(k).reason # Keep)
    BY EffectiveOK
  <2>2. AlertsOK'
    BY <1>9, <2>1 DEF TickCommits, AlertsOK
  <2>. QED
    BY <1>9, <2>2, TickTypes DEF TickCommits, EndTick, AlertsOK, Stages
<1>10. CASE TickAborts
  BY <1>10, TickTypes, AlarmAssumption DEF TickAborts, EndTick, Stages
<1>. QED
  BY <1>1, <1>2, <1>3, <1>4, <1>5, <1>6, <1>7, <1>8, <1>9, <1>10 DEF TickSteps, TickFaults

\* A step of the specification, or a stutter, keeps the types.
LEMMA TypeStep == TypeOK /\ PendingShape /\ [Next]_vars => TypeOK'
<1>1. TypeOK /\ UNCHANGED vars => TypeOK'
  BY DEF TypeOK, vars, dbVars, tickVars
<1>. QED
  BY <1>1, TypeHandlers, TypeDelete, TypeTick DEF Next

-----------------------------------------------------------------------------
(* The parts of the inductive invariant.                                   *)

\* Nothing but the tick's own steps touches what the tick holds.
LEMMA OthersLeaveTick == Handlers \/ Delete => UNCHANGED tickVars
<1>1. Delete => UNCHANGED tickVars
  BY DEF Delete, DeleteTakesLock, DeleteCommits, DeleteRollsBack
<1>2. Handlers => UNCHANGED tickVars
  BY DEF Handlers, SaveSettings, PutHq, StoreHotspot, HoursPass, DismissHotspot, EnableZone, DisableZone, EditZone,
         WriteZones, StoreLocation, GoesSilent, ReactivateDevice, AssignDevice, WriteDevice, DeactivateDevice,
         DeactivateUser, ReactivateUser, DeleteUser, Acknowledge, BecomesDue
<1>. QED
  BY <1>1, <1>2

\* Only ticks and deletes take or give back the lock.
LEMMA HandlersLeaveLock == Handlers => UNCHANGED lock
BY DEF Handlers, SaveSettings, PutHq, StoreHotspot, HoursPass, DismissHotspot, EnableZone, DisableZone, EditZone,
       WriteZones, StoreLocation, GoesSilent, ReactivateDevice, AssignDevice, WriteDevice, DeactivateDevice,
       DeactivateUser, ReactivateUser, DeleteUser, Acknowledge, BecomesDue

\* The rows the tick has written keep their shape.
LEMMA ShapeStep == TypeOK /\ PendingShape /\ [Next]_vars => PendingShape'
<1>. SUFFICES ASSUME TypeOK, PendingShape, [Next]_vars PROVE PendingShape'
  OBVIOUS
<1>1. CASE UNCHANGED pending
  BY <1>1 DEF PendingShape
<1>2. CASE TickWrites
  <2>1. \A k \in Keys : plan.reason[k] # Keep => plan.reason[k] \in Reasons
    BY DEF TypeOK, Plans
  <2>2. "disabled" \in Reasons
    BY DEF Reasons
  <2>. QED
    BY <1>2, <2>1, <2>2 DEF TickWrites, PendingShape, ResolvedByPlan
<1>3. CASE TickRepeats
  BY <1>3 DEF TickRepeats, PendingShape
<1>4. CASE pending' = NothingPending
  BY <1>4 DEF NothingPending, PendingShape
<1>5. Handlers \/ Delete => UNCHANGED pending
  BY OthersLeaveTick DEF tickVars
<1>6. TickSteps \/ TickFaults => TickWrites \/ TickRepeats \/ pending' = NothingPending \/ UNCHANGED pending
  BY DEF TickSteps, TickFaults, TickBegins, TickReadsTargets, TickReadsHotspots, TickDecides, TickCommits, EndTick,
         EvaluationFails, RepeatFails, TickAborts
<1>7. UNCHANGED vars => UNCHANGED pending
  BY DEF vars, tickVars
<1>. QED
  BY <1>1, <1>2, <1>3, <1>4, <1>5, <1>6, <1>7 DEF Next

\* The lock and the clean slate between ticks.
LEMMA LockStep == TypeOK /\ LockHeld /\ IdleIsClean /\ [Next]_vars => LockHeld' /\ IdleIsClean'
<1>. SUFFICES ASSUME TypeOK, LockHeld, IdleIsClean, [Next]_vars PROVE LockHeld' /\ IdleIsClean'
  OBVIOUS
<1>1. CASE Handlers
  BY <1>1, OthersLeaveTick, HandlersLeaveLock DEF LockHeld, IdleIsClean, tickVars
<1>2. CASE Delete
  <2>1. UNCHANGED tickVars
    BY <1>2, OthersLeaveTick
  <2>2. lock # "tick" /\ lock' # "tick"
    BY <1>2, AlarmAssumption DEF Delete, DeleteTakesLock, DeleteCommits, DeleteRollsBack
  <2>. QED
    BY <2>1, <2>2 DEF LockHeld, IdleIsClean, tickVars
<1>3. CASE TickSteps
  <2>1. CASE TickCommits
    BY <2>1 DEF TickCommits, EndTick, LockHeld, IdleIsClean
  <2>2. CASE ~TickCommits
    BY <1>3, <2>2 DEF TickSteps, TickBegins, TickReadsTargets, TickReadsHotspots, TickDecides, TickWrites, TickRepeats,
         LockHeld, IdleIsClean
  <2>. QED
    BY <2>1, <2>2
<1>4. CASE TickFaults
  BY <1>4 DEF TickFaults, EvaluationFails, RepeatFails, TickAborts, EndTick, LockHeld, IdleIsClean
<1>5. CASE UNCHANGED vars
  BY <1>5 DEF vars, tickVars, LockHeld, IdleIsClean
<1>. QED
  BY <1>1, <1>2, <1>3, <1>4, <1>5 DEF Next

\* What a handler may do to an alert row: nothing, let it become due, silence it or end it; the last two only to a row
\* the tick has not locked.
HandlerChange(k) ==
    \/ alerts'[k] = alerts[k]
    \/ IsOpen(alerts[k]) /\ alerts'[k] = [alerts[k] EXCEPT !.due = TRUE]
    \/ ~LockedByTick(k) /\ alerts[k].status = "open" /\ alerts'[k] = [alerts[k] EXCEPT !.status = "acked"]
    \/ ~LockedByTick(k) /\ IsOpen(alerts[k]) /\ alerts'[k] = ClosedRow("disabled")

\* An UPDATE of the open rows among K that does not wait ends rows the tick has not locked.
LEMMA EndAlertsChange ==
    ASSUME NEW K, alerts' = EndAlerts(K), RowsFree(K), NEW k \in Keys
    PROVE  HandlerChange(k)
BY EndAlertsRow DEF HandlerChange, RowsFree

\* Every handler changes alert rows in these ways only, and registers or removes no device.
LEMMA HandlerChanges ==
    ASSUME TypeOK, Handlers
    PROVE  /\ \A k \in Keys : HandlerChange(k)
           /\ \A d \in Devices : device'[d].registered = device[d].registered
<1>1. ASSUME NEW s \in SettingsChoices, NEW p \in Places \cup {NoPlace}, SaveSettings(s, p)
      PROVE  /\ \A k \in Keys : HandlerChange(k)
             /\ \A d \in Devices : device'[d].registered = device[d].registered
  <2>1. \A k \in Keys : HandlerChange(k)
    <3>1. CASE p = NoPlace
      BY <1>1, <3>1, EndAlertsChange DEF SaveSettings
    <3>2. CASE p # NoPlace
      BY <1>1, <3>2 DEF SaveSettings, HandlerChange
    <3>. QED
      BY <3>1, <3>2
  <2>. QED
    BY <1>1, <2>1 DEF SaveSettings
<1>2. ASSUME NEW p \in Places \cup {NoPlace}, PutHq(p)
      PROVE  /\ \A k \in Keys : HandlerChange(k)
             /\ \A d \in Devices : device'[d].registered = device[d].registered
  <2>1. \A k \in Keys : HandlerChange(k)
    <3>1. CASE p = NoPlace
      BY <1>2, <3>1, EndAlertsChange DEF PutHq, SaveSettings
    <3>2. CASE p # NoPlace
      BY <1>2, <3>2 DEF PutHq, SaveSettings, HandlerChange
    <3>. QED
      BY <3>1, <3>2
  <2>. QED
    BY <1>2, <2>1 DEF PutHq, SaveSettings
<1>3. ASSUME NEW d \in Devices, DeactivateDevice(d)
      PROVE  /\ \A k \in Keys : HandlerChange(k)
             /\ \A e \in Devices : device'[e].registered = device[e].registered
  BY <1>3, EndAlertsChange DEF DeactivateDevice, TypeOK, DeviceRows
<1>4. ASSUME NEW u \in Users, DeactivateUser(u)
      PROVE  /\ \A k \in Keys : HandlerChange(k)
             /\ \A d \in Devices : device'[d].registered = device[d].registered
  BY <1>4, EndAlertsChange DEF DeactivateUser
<1>5. ASSUME NEW K \in SUBSET Keys, Acknowledge(K)
      PROVE  /\ \A k \in Keys : HandlerChange(k)
             /\ \A d \in Devices : device'[d].registered = device[d].registered
  BY <1>5 DEF Acknowledge, RowsFree, HandlerChange, dbVars
<1>6. ASSUME NEW l \in Keys, BecomesDue(l)
      PROVE  /\ \A k \in Keys : HandlerChange(k)
             /\ \A d \in Devices : device'[d].registered = device[d].registered
  BY <1>6 DEF BecomesDue, HandlerChange, dbVars, TypeOK
<1>7. ASSUME NEW d \in Devices, NEW row, WriteDevice(d, row), row.registered
      PROVE  /\ \A k \in Keys : HandlerChange(k)
             /\ \A e \in Devices : device'[e].registered = device[e].registered
  BY <1>7 DEF WriteDevice, HandlerChange, TypeOK, DeviceRows
<1>8. ASSUME NEW d \in Devices, ReactivateDevice(d)
      PROVE  /\ \A k \in Keys : HandlerChange(k)
             /\ \A e \in Devices : device'[e].registered = device[e].registered
  <2>1. [device[d] EXCEPT !.active = TRUE].registered
    BY <1>8 DEF ReactivateDevice, WriteDevice, TypeOK, DeviceRows
  <2>. QED
    BY <1>7, <1>8, <2>1 DEF ReactivateDevice
<1>9. ASSUME NEW d \in Devices, NEW u \in Users \cup {NoUser}, AssignDevice(d, u)
      PROVE  /\ \A k \in Keys : HandlerChange(k)
             /\ \A e \in Devices : device'[e].registered = device[e].registered
  <2>1. [device[d] EXCEPT !.user = u].registered
    BY <1>9 DEF AssignDevice, WriteDevice, TypeOK, DeviceRows
  <2>. QED
    BY <1>7, <1>9, <2>1 DEF AssignDevice
<1>10. ASSUME NEW u \in Users, DeleteUser(u)
       PROVE  /\ \A k \in Keys : HandlerChange(k)
              /\ \A d \in Devices : device'[d].registered = device[d].registered
  BY <1>10 DEF DeleteUser, HandlerChange, TypeOK, DeviceRows
<1>11. CASE UNCHANGED <<alerts, device>>
  BY <1>11 DEF HandlerChange
<1>12. \/ \E s \in SettingsChoices, p \in Places \cup {NoPlace} : SaveSettings(s, p)
       \/ \E p \in Places \cup {NoPlace} : PutHq(p)
       \/ \E d \in Devices : DeactivateDevice(d) \/ ReactivateDevice(d)
       \/ \E d \in Devices, u \in Users \cup {NoUser} : AssignDevice(d, u)
       \/ \E u \in Users : DeactivateUser(u) \/ DeleteUser(u)
       \/ \E K \in SUBSET Keys : Acknowledge(K)
       \/ \E k \in Keys : BecomesDue(k)
       \/ UNCHANGED <<alerts, device>>
  BY DEF Handlers, StoreHotspot, HoursPass, DismissHotspot, EnableZone, DisableZone, EditZone, WriteZones,
         StoreLocation, GoesSilent, ReactivateUser
<1>. QED
  <2>. HIDE DEF HandlerChange
  <2>. QED
    BY <1>1, <1>2, <1>3, <1>4, <1>5, <1>6, <1>8, <1>9, <1>10, <1>11, <1>12

\* A device that the tick knows, or that has an open alert, stays registered: only DeleteCommits removes a device, and
\* it holds the lock that the tick would hold.
LEMMA TargetsStep ==
    TypeOK /\ LockHeld /\ IdleIsClean /\ TargetsRegistered /\ PendingShape /\ [Next]_vars => TargetsRegistered'
<1>. SUFFICES ASSUME TypeOK, LockHeld, IdleIsClean, TargetsRegistered, PendingShape, [Next]_vars
              PROVE  TargetsRegistered'
  OBVIOUS
<1>1. CASE Handlers
  <2>1. UNCHANGED tickVars
    BY <1>1, OthersLeaveTick
  <2>2. \A d \in Devices : device'[d].registered = device[d].registered
    BY <1>1, HandlerChanges
  <2>3. \A k \in Keys : IsOpen(alerts'[k]) => IsOpen(alerts[k])
    BY <1>1, HandlerChanges, RowTypes DEF HandlerChange, IsOpen, TypeOK, Rows
  <2>4. \A k \in plan.open : k \in Keys
    BY DEF TypeOK, Plans
  <2>. QED
    BY <2>1, <2>2, <2>3, <2>4 DEF TargetsRegistered, tickVars, IsOpen
<1>2. ASSUME NEW d \in Devices, DeleteCommits(d)
      PROVE  TargetsRegistered'
  <2>1. stage = "idle"
    BY <1>2, AlarmAssumption DEF DeleteCommits, LockHeld
  <2>2. seen' = NoneSeen /\ plan' = NoPlan /\ pending' = NothingPending
    BY <1>2, <2>1 DEF DeleteCommits, IdleIsClean, tickVars
  <2>3. \A e \in Devices : seen'.at[e] = NoPlace
    BY <2>2 DEF NoneSeen, Targets
  <2>4. ASSUME NEW k \in Keys, k[2] \in Devices, IsOpen(alerts'[k]) \/ pending'[k].status = "open"
        PROVE  device'[k[2]].registered
    <3>1. pending'[k].status # "open"
      BY <2>2 DEF NothingPending, NoChange
    <3>2. IsOpen(alerts[k]) /\ k \notin DeviceKeys({d})
      BY <1>2, <2>4, <3>1, EndAlertsRow, RowTypes DEF DeleteCommits, IsOpen, ClosedRow
    <3>3. k[2] # d
      BY <3>2 DEF Keys, DeviceKeys
    <3>4. device[k[2]].registered
      BY <2>4, <3>2 DEF TargetsRegistered
    <3>. QED
      BY <1>2, <2>4, <3>3, <3>4 DEF DeleteCommits, TypeOK
  <2>5. plan'.open = {}
    BY <2>2 DEF NoPlan
  <2>. QED
    BY <2>3, <2>4, <2>5 DEF TargetsRegistered, IsOpen
<1>3. CASE UNCHANGED <<device, alerts, seen, plan, pending>>
  BY <1>3 DEF TargetsRegistered, IsOpen
<1>4. CASE TickBegins
  <2>1. \A d \in Devices : seen'.at[d] = NoPlace
    BY <1>4, GeographyAssumption DEF TickBegins, NoneSeen, Targets
  <2>. QED
    BY <1>4, <2>1 DEF TickBegins, TargetsRegistered, dbVars, IsOpen
<1>5. CASE TickReadsTargets
  <2>1. \A d \in Devices : seen'.at[d] # NoPlace => device[d].registered
    BY <1>5, GeographyAssumption DEF TickReadsTargets, Targets, Eligible, TypeOK, Worlds
  <2>. QED
    BY <1>5, <2>1 DEF TickReadsTargets, TargetsRegistered, dbVars, IsOpen
<1>6. CASE TickReadsHotspots
  <2>1. seen'.at = seen.at
    BY <1>6 DEF TickReadsHotspots, TypeOK, Worlds
  <2>. QED
    BY <1>6, <2>1 DEF TickReadsHotspots, TargetsRegistered, dbVars, IsOpen
<1>7. CASE TickDecides
  <2>. DEFINE w == [seen EXCEPT !.open = {k \in Keys : IsOpen(alerts[k])}]
  <2>1. plan'.open = ToOpen(w)
    BY <1>7 DEF TickDecides
  <2>2. w.at = seen.at
    BY DEF TypeOK, Worlds
  <2>3. \A k \in ToOpen(w) : w.at[k[2]] # NoPlace
    BY DEF ToOpen
  <2>4. \A d \in Devices : seen'.at[d] = NoPlace
    BY <1>7 DEF TickDecides, NoneSeen, Targets
  <2>. HIDE DEF w
  <2>. QED
    BY <1>7, <2>1, <2>2, <2>3, <2>4 DEF TickDecides, TargetsRegistered, dbVars, IsOpen
<1>8. CASE TickWrites
  <2>1. \A k \in Keys : pending'[k].status = "open" => k \in plan.open
    BY <1>8, RowTypes DEF TickWrites, InsertedByPlan, ClosedRow, NoChange
  <2>2. plan'.open = {}
    BY <1>8 DEF TickWrites, NoPlan
  <2>. QED
    BY <1>8, <2>1, <2>2 DEF TickWrites, TargetsRegistered, dbVars, IsOpen
<1>9. CASE TickRepeats
  <2>1. \A k \in Keys : pending'[k].status = "open" => pending[k].status = "open" \/ IsOpen(alerts[k])
    BY <1>9 DEF TickRepeats, RepeatDue, Effective, IsOpen
  <2>. QED
    BY <1>9, <2>1 DEF TickRepeats, TargetsRegistered, dbVars, IsOpen
<1>10. CASE TickCommits
  <2>1. seen' = NoneSeen /\ plan' = NoPlan /\ pending' = NothingPending /\ device' = device
    BY <1>10 DEF TickCommits, EndTick, dbVars
  <2>2. \A d \in Devices : seen'.at[d] = NoPlace
    BY <2>1 DEF NoneSeen, Targets
  <2>3. \A k \in Keys : IsOpen(alerts'[k]) => pending[k].status = "open" \/ IsOpen(alerts[k])
    BY <1>10, RowTypes DEF TickCommits, Effective, IsOpen, PendingShape
  <2>4. \A k \in Keys : pending'[k].status # "open"
    BY <2>1 DEF NothingPending, NoChange
  <2>5. plan'.open = {}
    BY <2>1 DEF NoPlan
  <2>. QED
    BY <2>1, <2>2, <2>3, <2>4, <2>5 DEF TargetsRegistered
<1>11. CASE EvaluationFails \/ TickAborts
  <2>1. seen' = NoneSeen /\ plan' = NoPlan /\ pending' = NothingPending /\ device' = device /\ alerts' = alerts
    BY <1>11 DEF EvaluationFails, TickAborts, EndTick, dbVars
  <2>2. \A d \in Devices : seen'.at[d] = NoPlace
    BY <2>1 DEF NoneSeen, Targets
  <2>3. \A k \in Keys : pending'[k].status # "open"
    BY <2>1 DEF NothingPending, NoChange
  <2>4. plan'.open = {}
    BY <2>1 DEF NoPlan
  <2>. QED
    BY <2>1, <2>2, <2>3, <2>4 DEF TargetsRegistered, IsOpen
<1>12. Delete => (\E d \in Devices : DeleteCommits(d)) \/ UNCHANGED <<device, alerts, seen, plan, pending>>
  BY DEF Delete, DeleteTakesLock, DeleteRollsBack, dbVars, tickVars
<1>13. RepeatFails \/ UNCHANGED vars => UNCHANGED <<device, alerts, seen, plan, pending>>
  BY DEF RepeatFails, vars, dbVars, tickVars
<1>. QED
  BY <1>1, <1>2, <1>3, <1>4, <1>5, <1>6, <1>7, <1>8, <1>9, <1>10, <1>11, <1>12, <1>13
  DEF Next, TickSteps, TickFaults

\* The tick's uncommitted rows keep applying: the row locks hold off every handler that would change what they rest on.
LEMMA AppliesStep == IInv /\ [Next]_vars => UncommittedWritesStillApply'
<1>. SUFFICES ASSUME IInv, [Next]_vars PROVE UncommittedWritesStillApply'
  OBVIOUS
<1>. USE DEF IInv
<1>1. CASE Handlers
  <2>1. pending' = pending
    BY <1>1, OthersLeaveTick DEF tickVars
  <2>2. ASSUME NEW k \in Keys
        PROVE  /\ pending[k].status = "closed" => IsOpen(alerts'[k])
               /\ pending[k].status = "open" => alerts'[k].status # "acked"
    <3>1. HandlerChange(k)
      BY <1>1, HandlerChanges
    <3>2. /\ pending[k].status = "closed" => IsOpen(alerts[k])
          /\ pending[k].status = "open" => alerts[k].status # "acked"
      BY DEF UncommittedWritesStillApply
    <3>3. pending[k].status \in {"closed", "open"} => pending[k] # NoChange
      BY RowTypes
    <3>4. alerts[k] \in Rows
      BY DEF TypeOK
    <3>. QED
      BY <3>1, <3>2, <3>3, <3>4, RowTypes DEF HandlerChange, LockedByTick, IsOpen, Rows, ClosedRow
  <2>. QED
    BY <2>1, <2>2 DEF UncommittedWritesStillApply, IsOpen
<1>2. CASE pending' = NothingPending
  BY <1>2 DEF UncommittedWritesStillApply, NothingPending, NoChange
<1>3. ASSUME NEW d \in Devices, DeleteCommits(d)
      PROVE  pending' = NothingPending
  BY <1>3, AlarmAssumption DEF DeleteCommits, LockHeld, IdleIsClean, tickVars
<1>4. CASE UNCHANGED <<alerts, pending>>
  BY <1>4 DEF UncommittedWritesStillApply, IsOpen
<1>5. CASE TickWrites
  <2>1. ASSUME NEW k \in Keys
        PROVE  /\ pending'[k].status = "closed" => IsOpen(alerts[k])
               /\ pending'[k].status = "open" => alerts[k].status # "acked"
               /\ pending'[k].status \in {"closed", "open", "unchanged"}
    BY <1>5 DEF TickWrites, ResolvedByPlan, InsertedByPlan, ClosedRow, OpenRow, NoChange, IsOpen
  <2>. QED
    BY <1>5, <2>1 DEF TickWrites, UncommittedWritesStillApply, IsOpen
<1>6. CASE TickRepeats
  <2>1. ASSUME NEW k \in Keys
        PROVE  /\ pending'[k].status = "closed" => IsOpen(alerts[k])
               /\ pending'[k].status = "open" => alerts[k].status # "acked"
               /\ pending'[k].status \in {"closed", "open", "unchanged"}
    <3>1. /\ pending[k].status = "closed" => IsOpen(alerts[k])
          /\ pending[k].status = "open" => alerts[k].status # "acked"
          /\ pending[k].status \in {"closed", "open", "unchanged"}
      BY DEF UncommittedWritesStillApply
    <3>2. CASE RepeatDue(k)
      BY <1>6, <3>1, <3>2, RowTypes DEF TickRepeats, RepeatDue, Effective
    <3>3. CASE ~RepeatDue(k)
      BY <1>6, <3>1, <3>3 DEF TickRepeats
    <3>. QED
      BY <3>2, <3>3
  <2>. QED
    BY <1>6, <2>1 DEF TickRepeats, UncommittedWritesStillApply, IsOpen
<1>7. Delete => (\E d \in Devices : DeleteCommits(d)) \/ UNCHANGED <<alerts, pending>>
  BY DEF Delete, DeleteTakesLock, DeleteRollsBack, tickVars
<1>8. TickSteps \/ TickFaults
        => TickWrites \/ TickRepeats \/ pending' = NothingPending \/ UNCHANGED <<alerts, pending>>
  BY DEF TickSteps, TickFaults, TickBegins, TickReadsTargets, TickReadsHotspots, TickDecides, TickCommits, EndTick,
         EvaluationFails, RepeatFails, TickAborts
<1>9. UNCHANGED vars => UNCHANGED <<alerts, pending>>
  BY DEF vars, tickVars
<1>. QED
  BY <1>1, <1>2, <1>3, <1>4, <1>5, <1>6, <1>7, <1>8, <1>9 DEF Next

-----------------------------------------------------------------------------
(* The invariants.                                                         *)

\* The initial state satisfies the inductive invariant.
LEMMA InvInit == Init => IInv
<1>. SUFFICES ASSUME Init PROVE IInv
  OBVIOUS
<1>1. LockHeld /\ IdleIsClean
  BY DEF Init, LockHeld, IdleIsClean
<1>2. TargetsRegistered
  BY RowTypes DEF Init, TargetsRegistered, NoneSeen, NoPlan, NothingPending, NoRow, NoChange, IsOpen, Targets
<1>3. PendingShape /\ UncommittedWritesStillApply
  BY DEF Init, PendingShape, UncommittedWritesStillApply, NothingPending, NoChange
<1>. QED
  BY <1>1, <1>2, <1>3, TypeInit DEF IInv

\* The inductive invariant holds throughout.
THEOREM Invariance == Spec => []IInv
<1>1. IInv /\ [Next]_vars => IInv'
  BY TypeStep, LockStep, TargetsStep, ShapeStep, AppliesStep DEF IInv
<1>. QED
  BY <1>1, InvInit, PTL DEF Spec

\* Types, and the CHECK of fire_alerts that a row has a reason exactly when it is resolved.
THEOREM AlarmTypes == Spec => []TypeOK
<1>1. IInv => TypeOK
  BY DEF IInv
<1>. QED
  BY <1>1, Invariance, PTL

\* The advisory lock does what delete_device_permanent takes it for: no open alert without a device.
THEOREM NoOrphans == Spec => []NoOrphanAlert
<1>1. IInv => NoOrphanAlert
  BY DEF IInv, TargetsRegistered, NoOrphanAlert
<1>. QED
  BY <1>1, Invariance, PTL

\* Row locks and the resolved_at guards keep the tick's uncommitted rows applicable until it commits.
THEOREM WritesApply == Spec => []UncommittedWritesStillApply
<1>1. IInv => UncommittedWritesStillApply
  BY DEF IInv
<1>. QED
  BY <1>1, Invariance, PTL

-----------------------------------------------------------------------------
(* Steps on alert rows, and the abstract specification.                    *)

\* What a commit of the tick does to a row.
LEMMA CommitRow ==
    ASSUME IInv, NEW k \in Keys
    PROVE  \/ Effective(k) = alerts[k]
           \/ Effective(k) = OpenRow /\ alerts[k].status # "acked"
           \/ Effective(k).status = "closed" /\ IsOpen(alerts[k])
<1>1. CASE pending[k] = NoChange
  BY <1>1 DEF Effective
<1>2. CASE pending[k] = OpenRow
  BY <1>2, RowTypes DEF Effective, IInv, UncommittedWritesStillApply
<1>3. CASE \E reason \in Reasons : pending[k] = ClosedRow(reason)
  BY <1>3, RowTypes DEF Effective, IInv, UncommittedWritesStillApply
<1>. QED
  BY <1>1, <1>2, <1>3 DEF IInv, PendingShape

\* Every step either commits the tick, or changes rows as a handler may, or ends alerts of a deleted device.
LEMMA AlertSteps ==
    ASSUME IInv, [Next]_vars
    PROVE  \/ \A k \in Keys : HandlerChange(k)
           \/ alerts' = [k \in Keys |-> Effective(k)]
<1>1. CASE Handlers
  BY <1>1, HandlerChanges DEF IInv
<1>2. ASSUME NEW d \in Devices, DeleteCommits(d)
      PROVE  \A k \in Keys : HandlerChange(k)
  <2>1. pending = NothingPending
    BY <1>2, AlarmAssumption DEF DeleteCommits, IInv, LockHeld, IdleIsClean
  <2>2. RowsFree(DeviceKeys({d}))
    BY <2>1 DEF RowsFree, LockedByTick, NothingPending, DeviceKeys, Keys, Targets
  <2>. QED
    BY <1>2, <2>2, EndAlertsChange DEF DeleteCommits
<1>3. CASE TickCommits
  BY <1>3 DEF TickCommits
<1>4. CASE UNCHANGED alerts
  BY <1>4 DEF HandlerChange
<1>5. \/ Handlers
      \/ \E d \in Devices : DeleteCommits(d)
      \/ TickCommits
      \/ UNCHANGED alerts
  BY DEF Next, Delete, DeleteTakesLock, DeleteRollsBack, TickSteps, TickFaults, TickBegins, TickReadsTargets,
         TickReadsHotspots, TickDecides, TickWrites, TickRepeats, EvaluationFails, RepeatFails, TickAborts, vars
<1>. QED
  BY <1>1, <1>2, <1>3, <1>4, <1>5

\* A resolved row is not resolved again: the first decision to commit stays on record.
THEOREM FirstWins == Spec => FirstResolutionWins
<1>1. ASSUME IInv, [Next]_vars, NEW k \in Keys, alerts[k].status = "closed", alerts'[k] # alerts[k]
      PROVE  alerts'[k] = OpenRow
  <2>1. ~IsOpen(alerts[k]) /\ ~HandlerChange(k)
    BY <1>1 DEF IsOpen, HandlerChange
  <2>2. alerts'[k] = Effective(k)
    BY <1>1, <2>1, AlertSteps
  <2>. QED
    BY <1>1, <2>1, <2>2, CommitRow
<1>2. IInv /\ [Next]_vars =>
        [\A k \in Keys : (alerts[k].status = "closed" /\ alerts'[k] # alerts[k]) => alerts'[k] = OpenRow]_alerts
  BY <1>1
<1>. QED
  BY <1>2, Invariance, PTL DEF Spec, FirstResolutionWins

\* The kinds of step an alert list may make, in terms of FireAlarm.
Silences == \E K \in SUBSET Keys : Acknowledge(K)
Ends == \E K : alerts' = EndAlerts(K)
FallsDue == \E k \in Keys : BecomesDue(k)
Commits == alerts' = [k \in Keys |-> Effective(k)]

\* A step silences alerts, or ends some, or commits the tick, or changes no status.
LEMMA StepKinds == [Next]_vars => Silences \/ Ends \/ FallsDue \/ Commits \/ UNCHANGED alerts
<1>1. Handlers => Silences \/ Ends \/ FallsDue \/ UNCHANGED alerts
  BY DEF Handlers, Silences, Ends, FallsDue, SaveSettings, PutHq, StoreHotspot, HoursPass, DismissHotspot, EnableZone,
         DisableZone, EditZone, WriteZones, StoreLocation, GoesSilent, ReactivateDevice, AssignDevice, WriteDevice,
         DeactivateDevice, DeactivateUser, ReactivateUser, DeleteUser
<1>2. Delete => Ends \/ UNCHANGED alerts
  BY DEF Delete, Ends, DeleteTakesLock, DeleteCommits, DeleteRollsBack
<1>3. TickSteps \/ TickFaults => Commits \/ UNCHANGED alerts
  BY DEF TickSteps, TickFaults, TickBegins, TickReadsTargets, TickReadsHotspots, TickDecides, TickWrites, TickRepeats,
         TickCommits, EvaluationFails, RepeatFails, TickAborts, Commits
<1>. QED
  BY <1>1, <1>2, <1>3 DEF Next, vars

\* Every step of the alarm is an evaluation or an acknowledgement of the abstract list, or leaves it alone.
LEMMA BookStep == IInv /\ [Next]_vars => [Book!Next]_(Book!vars)
<1>. SUFFICES ASSUME IInv, [Next]_vars PROVE [Book!Next]_(Book!vars)
  OBVIOUS
<1>. DEFINE status == [k \in Keys |-> alerts[k].status]
<1>0. \A k \in Keys : status[k] = alerts[k].status /\ status'[k] = alerts'[k].status
  OBVIOUS
<1>1. CASE Silences
  <2>1. PICK K \in SUBSET Keys : Acknowledge(K)
    BY <1>1 DEF Silences
  <2>. DEFINE S == {k \in K : alerts[k].status = "open"}
  <2>2. status' = [k \in Keys |-> IF k \in S THEN "acked" ELSE status[k]]
    BY <2>1 DEF Acknowledge, IInv, TypeOK, Rows
  <2>3. Book!Acknowledge(S)
    BY <1>0, <2>2 DEF Book!Acknowledge
  <2>4. S \in SUBSET Keys
    OBVIOUS
  <2>. HIDE DEF S
  <2>. QED
    BY <2>3, <2>4 DEF Book!Next, Book!Acknowledge
<1>2. CASE Ends
  <2>1. PICK K : alerts' = EndAlerts(K)
    BY <1>2 DEF Ends
  <2>. DEFINE O == {}
              C == {k \in Keys : k \in K /\ IsOpen(alerts[k])}
  <2>2. status' = [k \in Keys |-> IF k \in O THEN "open" ELSE IF k \in C THEN "closed" ELSE status[k]]
    BY <2>1, EndAlertsRow DEF ClosedRow
  <2>3. \A k \in C : status[k] \in Book!Live
    BY DEF IsOpen, Book!Live
  <2>4. Book!Evaluation(O, C)
    BY <2>2, <2>3 DEF Book!Evaluation
  <2>5. O \in SUBSET Keys /\ C \in SUBSET Keys
    OBVIOUS
  <2>. HIDE DEF O, C
  <2>. QED
    BY <2>4, <2>5 DEF Book!Next, Book!Evaluation
<1>3. CASE FallsDue
  <2>1. status' = status
    BY <1>3 DEF FallsDue, BecomesDue, IInv, TypeOK, Rows
  <2>. QED
    BY <2>1 DEF Book!vars
<1>4. CASE Commits
  <2>. DEFINE O == {k \in Keys : Effective(k) = OpenRow /\ ~IsOpen(alerts[k])}
              C == {k \in Keys : Effective(k).status = "closed" /\ IsOpen(alerts[k])}
  <2>1. \A k \in Keys : alerts[k] \in Rows
    BY DEF IInv, TypeOK
  <2>2. ASSUME NEW k \in Keys
        PROVE  Effective(k).status = IF k \in O THEN "open" ELSE IF k \in C THEN "closed" ELSE status[k]
    BY <1>0, <2>1, CommitRow, RowTypes DEF IsOpen
  <2>3. status' = [k \in Keys |-> IF k \in O THEN "open" ELSE IF k \in C THEN "closed" ELSE status[k]]
    BY <1>4, <2>2 DEF Commits
  <2>4. \A k \in C : status[k] \in Book!Live
    BY DEF IsOpen, Book!Live
  <2>5. \A k \in O : status[k] \notin Book!Live
    BY DEF IsOpen, Book!Live
  <2>6. Book!Evaluation(O, C)
    BY <2>3, <2>4, <2>5 DEF Book!Evaluation
  <2>7. O \in SUBSET Keys /\ C \in SUBSET Keys
    OBVIOUS
  <2>. HIDE DEF O, C
  <2>. QED
    BY <2>6, <2>7 DEF Book!Next, Book!Evaluation
<1>5. CASE UNCHANGED alerts
  BY <1>5 DEF Book!vars
<1>. QED
  BY <1>1, <1>2, <1>3, <1>4, <1>5, StepKinds

\* The alarm implements the alert list of AlertBook.
THEOREM Refinement == Spec => ImplementsBook
<1>1. Init => Book!Init
  BY DEF Init, Book!Init, NoRow
<1>. QED
  BY <1>1, BookStep, Invariance, PTL DEF Spec, ImplementsBook, Book!Spec

-----------------------------------------------------------------------------
(* Dangers that last.  The tick reads settings, targets and hotspots in    *)
(* steps of their own, so no moment need have looked like what it decides  *)
(* on; but what has been true of each part whenever that part was read is  *)
(* true of what it decides on.                                             *)

\* Where a target is, as load_rescuer_targets and the settings row would tell now.
Position(t) == IF t = HQ THEN hq ELSE IF t \in fresh /\ Eligible(t) THEN fix[t] ELSE NoPlace

\* A position in which the hotspot of k threatens its target, under settings s.
Near(k, p, s) == p # NoPlace /\ Dist[HotspotPlace[k[1]], p] <= AlarmRadius(k[2], k[1], s)

\* The hotspot of k may raise an alert, under settings s.
Burns(k, loaded, out, hours, covering, s) ==
    k[1] \in loaded /\ k[1] \notin out /\ hours[k[1]] < s.maxAge /\ ~Covered(k[1], covering)

\* A danger, taken apart.
LEMMA DangerParts ==
    ASSUME NEW k \in Keys, InDanger(k)
    PROVE  /\ k[1] \notin FieldReports /\ Burns(k, stored, dismissed, age, zones, settings)
           /\ Enabled(k[2], settings)
           /\ Near(k, Position(k[2]), settings)
<1>. DEFINE p == IF k[2] = HQ THEN hq ELSE IF k[2] \in fresh /\ Eligible(k[2]) THEN fix[k[2]] ELSE NoPlace
            w == [NoneSeen EXCEPT !.settings = settings, !.at[k[2]] = p,
                                  !.loaded = stored \ FieldReports, !.age = age, !.dismissed = dismissed, !.zones = zones]
<1>1. k \in ToOpen(w)
  BY DEF InDanger
<1>2. k[2] \in Targets /\ k[1] \in Hotspots
  BY DEF Keys
<1>3. /\ w.settings = settings /\ w.at[k[2]] = p /\ w.loaded = stored \ FieldReports /\ w.age = age
      /\ w.dismissed = dismissed /\ w.zones = zones
  <2>. HIDE DEF p
  <2>. QED
    BY <1>2 DEF NoneSeen
<1>4. p = Position(k[2])
  BY DEF Position
<1>. HIDE DEF w, p
<1>. QED
  BY <1>1, <1>3, <1>4 DEF ToOpen, IsCandidate, SuppressedNow, Within, Distance, Near, Burns

\* Within the radius is within the exit threshold (EXIT_HYSTERESIS > 1).
LEMMA NearStays ==
    ASSUME NEW w \in Worlds, NEW k \in Keys, Near(k, w.at[k[2]], w.settings)
    PROVE  ~GoneOutOfRange(k, w) /\ Within(k, w)
<1>. DEFINE D == Distance(k, w)
            R == AlarmRadius(k[2], k[1], w.settings)
<1>1. k[1] \in Hotspots /\ k[2] \in Targets
  BY DEF Keys
<1>2. w.settings \in AlarmSettings /\ w.at[k[2]] \in Places
  BY <1>1 DEF Worlds, Near
<1>3. D \in Nat
  BY <1>1, <1>2, GeographyAssumption DEF Distance
<1>4. R \in Nat
  <2>1. w.settings.hqRadius \in Nat /\ w.settings.rescuerRadius \in Nat /\ PixelHalf[k[1]] \in Nat
    BY <1>1, <1>2, GeographyAssumption DEF AlarmSettings
  <2>. QED
    BY <2>1 DEF AlarmRadius
<1>5. D <= R
  BY DEF Near, Distance
<1>6. ~(5 * D > 6 * R)
  <2>. HIDE DEF D, R
  <2>. QED
    BY <1>3, <1>4, <1>5
<1>. QED
  BY <1>5, <1>6 DEF GoneOutOfRange, BeyondExit, Within

\* On what the tick has read of a danger, evaluate() keeps the alert that is open or opens one.
LEMMA DangerDecided ==
    ASSUME NEW w \in Worlds, NEW k \in Keys, k[1] \notin FieldReports,
           Burns(k, w.loaded, w.dismissed, w.age, w.zones, w.settings),
           Enabled(k[2], w.settings), Near(k, w.at[k[2]], w.settings)
    PROVE  ResolveReason(k, w) = Keep /\ (k \in ToOpen(w) \/ k \in w.open)
<1>1. IsCandidate(k[1], w) /\ ~SuppressedNow(k[1], w) /\ k[1] \in w.loaded /\ k[1] \notin w.dismissed
  BY DEF Burns, IsCandidate, SuppressedNow
<1>2. ~GoneOutOfRange(k, w) /\ Within(k, w) /\ w.at[k[2]] # NoPlace
  BY NearStays DEF Near
<1>3. ResolveReason(k, w) = Keep
  BY <1>1, <1>2 DEF ResolveReason
<1>4. k \in StillOpen(w) => k \in w.open
  BY DEF StillOpen
<1>5. k \notin StillOpen(w) => k \in ToOpen(w)
  BY <1>1, <1>2 DEF ToOpen
<1>. QED
  BY <1>3, <1>4, <1>5

\* What a danger that has lasted since a tick began, under settings s, has made of that tick so far.
DangerOnItsWay(k, s) ==
    /\ stage \in {"begun", "targets", "read"} => seen.settings = s
    /\ stage = "begun" /\ k[2] = HQ => Near(k, seen.at[HQ], s)
    /\ stage \in {"targets", "read"} => Near(k, seen.at[k[2]], s)
    /\ stage = "read" => Burns(k, seen.loaded, seen.dismissed, seen.age, seen.zones, s)
    /\ stage = "decided" => plan.reason[k] = Keep /\ (k \in plan.open \/ IsOpen(alerts[k]))
    /\ stage \in {"written", "repeated"} => IsOpen(Effective(k))

\* A target that is in danger after a step has a position then.
LEMMA DangerNext ==
    ASSUME NEW k \in Keys, InDanger(k)'
    PROVE  Position(k[2])' # NoPlace
<1>. DEFINE p == IF k[2] = HQ THEN hq ELSE IF k[2] \in fresh /\ Eligible(k[2]) THEN fix[k[2]] ELSE NoPlace
            w == [NoneSeen EXCEPT !.settings = settings, !.at[k[2]] = p,
                                  !.loaded = stored \ FieldReports, !.age = age, !.dismissed = dismissed, !.zones = zones]
<1>1. k \in ToOpen(w')
  BY DEF InDanger
<1>2. k[2] \in Targets
  BY DEF Keys
<1>3. (w').at[k[2]] = p'
  <2>. HIDE DEF p
  <2>. QED
    BY <1>2 DEF NoneSeen
<1>4. p' = Position(k[2])'
  BY DEF Position
<1>. HIDE DEF w, p
<1>. QED
  BY <1>1, <1>3, <1>4 DEF ToOpen

\* An alert that is open stays open unless EndAlerts reaches it.
LEMMA EndsOnlyItsKeys ==
    ASSUME NEW K, alerts' = EndAlerts(K), NEW k \in Keys, IsOpen(alerts[k]), ~IsOpen(alerts'[k])
    PROVE  k \in K
BY EndAlertsRow DEF EndAlerts

\* No handler ends an alert whose danger lasts: those that end alerts end the danger as well.
LEMMA OthersKeepDanger ==
    ASSUME IInv, Handlers \/ Delete, NEW k \in Keys, InDanger(k)', IsOpen(alerts[k])
    PROVE  IsOpen(alerts'[k])
<1>. SUFFICES ASSUME ~IsOpen(alerts'[k]) PROVE FALSE
  OBVIOUS
<1>1. TypeOK /\ Position(k[2])' # NoPlace /\ k[1] \in Hotspots /\ k[2] \in Targets
  BY DangerNext DEF IInv, Keys
<1>2. k[2] # HQ => Eligible(k[2])'
  BY <1>1 DEF Position
<1>3. ASSUME NEW s, NEW p, SaveSettings(s, p) PROVE FALSE
  <2>1. p = NoPlace /\ k \in HqKeys /\ hq' = p
    BY <1>3, EndsOnlyItsKeys DEF SaveSettings
  <2>. QED
    BY <1>1, <2>1 DEF HqKeys, Position
<1>4. ASSUME NEW d \in Devices, alerts' = EndAlerts(DeviceKeys({d})), ~Eligible(d)' PROVE FALSE
  <2>1. k[2] = d
    BY <1>4, EndsOnlyItsKeys DEF DeviceKeys
  <2>. QED
    BY <1>2, <1>4, <2>1, GeographyAssumption
<1>5. ASSUME NEW d \in Devices, DeactivateDevice(d) PROVE FALSE
  <2>1. ~Eligible(d)'
    BY <1>1, <1>5 DEF DeactivateDevice, Eligible, TypeOK, DeviceRows
  <2>. QED
    BY <1>4, <1>5, <2>1 DEF DeactivateDevice
<1>6. ASSUME NEW u \in Users, DeactivateUser(u) PROVE FALSE
  <2>1. k[2] \in Carries(u)
    BY <1>6, EndsOnlyItsKeys DEF DeactivateUser, DeviceKeys
  <2>2. k[2] \in Devices /\ device'[k[2]].user = u /\ u # NoUser /\ userState'[u] = "inactive"
    BY <1>1, <1>6, <2>1, AlarmAssumption DEF Carries, DeactivateUser, TypeOK
  <2>. QED
    BY <1>2, <2>2, GeographyAssumption DEF Eligible
<1>7. ASSUME NEW d \in Devices, DeleteCommits(d) PROVE FALSE
  <2>1. ~Eligible(d)'
    BY <1>1, <1>7 DEF DeleteCommits, Eligible, TypeOK
  <2>. QED
    BY <1>4, <1>7, <2>1 DEF DeleteCommits
<1>8. ~ \E K \in SUBSET Keys : Acknowledge(K)
  <2>. SUFFICES ASSUME NEW K, Acknowledge(K) PROVE FALSE
    OBVIOUS
  <2>1. alerts'[k] = alerts[k] \/ alerts'[k] = [alerts[k] EXCEPT !.status = "acked"]
    BY DEF Acknowledge
  <2>2. alerts[k] \in Rows
    BY <1>1 DEF TypeOK
  <2>. QED
    BY <2>1, <2>2 DEF IsOpen, Rows
<1>9. ~ \E l \in Keys : BecomesDue(l)
  BY <1>1 DEF BecomesDue, IsOpen, TypeOK, Rows
<1>10. alerts' # alerts
  OBVIOUS
<1>11. CASE Handlers
  <2>1. ~ \E s \in SettingsChoices, p \in Places \cup {NoPlace} : SaveSettings(s, p)
    BY <1>3
  <2>2. ~ \E p \in Places \cup {NoPlace} : PutHq(p)
    BY <1>3 DEF PutHq
  <2>3. ~ \E d \in Devices : DeactivateDevice(d)
    BY <1>5
  <2>4. ~ \E u \in Users : DeactivateUser(u)
    BY <1>6
  <2>. QED
    BY <1>8, <1>9, <1>10, <1>11, <2>1, <2>2, <2>3, <2>4
    DEF Handlers, StoreHotspot, HoursPass, DismissHotspot, EnableZone, DisableZone, EditZone, WriteZones, StoreLocation,
        GoesSilent, ReactivateDevice, AssignDevice, WriteDevice, ReactivateUser, DeleteUser
<1>12. CASE Delete
  BY <1>7, <1>10, <1>12 DEF Delete, DeleteTakesLock, DeleteRollsBack
<1>. QED
  BY <1>11, <1>12

\* A handler, or a delete, leaves what the tick knows of a lasting danger alone.
LEMMA DangerOutlastsOthers ==
    ASSUME IInv, Handlers \/ Delete, NEW k \in Keys, NEW s, InDanger(k)', DangerOnItsWay(k, s)
    PROVE  DangerOnItsWay(k, s)'
<1>1. UNCHANGED tickVars
  BY OthersLeaveTick
<1>2. IsOpen(alerts[k]) => IsOpen(alerts'[k])
  BY OthersKeepDanger
<1>3. IsOpen(Effective(k)) => IsOpen(Effective(k)')
  BY <1>1, <1>2 DEF Effective, tickVars
<1>. QED
  BY <1>1, <1>2, <1>3 DEF DangerOnItsWay, tickVars, IsOpen

\* Each step of a tick takes a lasting danger one step nearer to its alert.
LEMMA DangerOutlastsTick ==
    ASSUME IInv, TickSteps, NEW k \in Keys, NEW s, settings = s, InDanger(k), DangerOnItsWay(k, s)
    PROVE  DangerOnItsWay(k, s)'
<1>1. /\ k[1] \notin FieldReports /\ Burns(k, stored, dismissed, age, zones, settings)
      /\ Enabled(k[2], settings) /\ Near(k, Position(k[2]), settings)
  BY DangerParts
<1>2. TypeOK /\ k[1] \in Hotspots /\ k[2] \in Targets
  BY DEF IInv, Keys
<1>3. CASE TickBegins
  <2>1. seen'.settings = settings /\ seen'.at[HQ] = hq
    BY <1>3 DEF TickBegins, NoneSeen, Targets
  <2>. QED
    BY <1>1, <1>3, <2>1 DEF TickBegins, DangerOnItsWay, Position
<1>4. CASE TickReadsTargets
  <2>1. seen'.settings = seen.settings
    BY <1>2, <1>4 DEF TickReadsTargets, TypeOK, Worlds
  <2>2. seen'.at[k[2]] = IF k[2] = HQ THEN seen.at[HQ] ELSE Position(k[2])
    BY <1>2, <1>4 DEF TickReadsTargets, TypeOK, Worlds, Position
  <2>. QED
    BY <1>1, <1>4, <2>1, <2>2 DEF TickReadsTargets, DangerOnItsWay
<1>5. CASE TickReadsHotspots
  <2>1. seen'.settings = seen.settings /\ seen'.at = seen.at /\ seen'.age = age /\ seen'.dismissed = dismissed
        /\ seen'.zones = zones
        /\ seen'.loaded = {h \in stored \ FieldReports : age[h] < seen.settings.maxAge \/ HasOpenAlert(h)}
    BY <1>2, <1>5 DEF TickReadsHotspots, TypeOK, Worlds
  <2>. QED
    BY <1>1, <1>5, <2>1 DEF TickReadsHotspots, DangerOnItsWay, Burns
<1>6. CASE TickDecides
  <2>. DEFINE w == [seen EXCEPT !.open = {l \in Keys : IsOpen(alerts[l])}]
  <2>1. w \in Worlds
    BY <1>2 DEF TypeOK, Worlds
  <2>2. /\ w.settings = seen.settings /\ w.at = seen.at /\ w.loaded = seen.loaded /\ w.age = seen.age
        /\ w.dismissed = seen.dismissed /\ w.zones = seen.zones /\ w.open = {l \in Keys : IsOpen(alerts[l])}
    BY <1>2 DEF TypeOK, Worlds
  <2>3. plan'.open = ToOpen(w) /\ plan'.reason[k] = IF k \in w.open THEN ResolveReason(k, w) ELSE Keep
    BY <1>6 DEF TickDecides
  <2>. HIDE DEF w
  <2>4. ResolveReason(k, w) = Keep /\ (k \in ToOpen(w) \/ k \in w.open)
    BY <1>1, <1>6, <2>1, <2>2, DangerDecided DEF TickDecides, DangerOnItsWay
  <2>. QED
    BY <1>6, <2>2, <2>3, <2>4 DEF TickDecides, DangerOnItsWay, IsOpen
<1>7. CASE TickWrites
  <2>1. plan.reason[k] = Keep /\ (k \in plan.open \/ IsOpen(alerts[k]))
    BY <1>7 DEF TickWrites, DangerOnItsWay
  <2>2. k \notin DisabledKeys
    BY <1>1, <1>2, GeographyAssumption DEF DisabledKeys, DeviceKeys, Near, Position
  <2>3. pending'[k] = IF InsertedByPlan(k) THEN OpenRow ELSE NoChange
    BY <1>7, <2>1, <2>2 DEF TickWrites, ResolvedByPlan
  <2>4. IsOpen(Effective(k)')
    BY <1>7, <2>1, <2>3, RowTypes DEF TickWrites, Effective, InsertedByPlan, IsOpen
  <2>. QED
    BY <1>7, <2>4 DEF TickWrites, DangerOnItsWay, IsOpen
<1>8. CASE TickRepeats
  <2>1. pending'[k] = OpenRow \/ pending'[k] = pending[k]
    BY <1>8 DEF TickRepeats
  <2>2. IsOpen(Effective(k)')
    BY <1>8, <2>1, RowTypes DEF TickRepeats, DangerOnItsWay, Effective, IsOpen
  <2>. QED
    BY <1>8, <2>2 DEF TickRepeats, DangerOnItsWay, IsOpen
<1>9. CASE TickCommits
  BY <1>9 DEF TickCommits, EndTick, DangerOnItsWay
<1>. QED
  BY <1>3, <1>4, <1>5, <1>6, <1>7, <1>8, <1>9 DEF TickSteps

\* A danger that lasts keeps its alert, and the commit of a tick that began during it opens one.
LEMMA DangerKeepsAlert ==
    ASSUME IInv, [Next]_vars, [~TickFaults]_vars, NEW k \in Keys, NEW s, InDanger(k)', DangerOnItsWay(k, s)
    PROVE  /\ IsOpen(alerts[k]) => IsOpen(alerts'[k])
           /\ TickCommits => IsOpen(alerts'[k])
<1>1. CASE TickCommits
  BY <1>1 DEF TickCommits, DangerOnItsWay
<1>2. CASE Handlers \/ Delete
  <2>1. ~TickCommits
    <3>1. UNCHANGED stage
      BY <1>2, OthersLeaveTick DEF tickVars
    <3>. QED
      BY <3>1 DEF TickCommits, EndTick
  <2>. QED
    BY <1>2, <2>1, OthersKeepDanger
<1>3. TickSteps /\ ~TickCommits => UNCHANGED alerts
  BY DEF TickSteps, TickBegins, TickReadsTargets, TickReadsHotspots, TickDecides, TickWrites, TickRepeats
<1>4. UNCHANGED vars => UNCHANGED alerts /\ ~TickCommits
  BY DEF vars, tickVars, TickCommits, EndTick
<1>. QED
  BY <1>1, <1>2, <1>3, <1>4 DEF Next

\* Between ticks, nothing of a danger is on its way.
LEMMA DangerWaits == ASSUME stage = "idle", NEW k \in Keys, NEW s PROVE DangerOnItsWay(k, s)
BY DEF DangerOnItsWay

\* What has become of a lasting danger is kept by every step but a failure.
LEMMA DangerStep ==
    ASSUME IInv, [Next]_vars, [~TickFaults]_vars, NEW k \in Keys, NEW s,
           settings = s, InDanger(k), InDanger(k)', DangerOnItsWay(k, s)
    PROVE  DangerOnItsWay(k, s)'
<1>1. CASE UNCHANGED vars
  BY <1>1 DEF vars, tickVars, DangerOnItsWay, Effective, IsOpen
<1>. QED
  BY <1>1, DangerOutlastsOthers, DangerOutlastsTick DEF Next

\* Architecture.md's "No SOS or fire alarm can be missed or lost", from what the fairness of LiveSpec is there for: when
\* ticks go on committing, a danger that lasts gets an open alert for good, whatever else happens in between.
THEOREM DangerIsHeard == Spec /\ TicksGoOn => DangerAlarms
<1>. SUFFICES ASSUME NEW k \in Keys, NEW s \in SettingsChoices
              PROVE  Spec /\ TicksGoOn => (<>[](settings = s /\ InDanger(k)) => <>[]IsOpen(alerts[k]))
  BY DEF DangerAlarms
<1>. DEFINE D == settings = s /\ InDanger(k)
            J == DangerOnItsWay(k, s)
            O == IsOpen(alerts[k])
<1>1. stage = "idle" => J
  BY DangerWaits
<1>2. IInv /\ D /\ D' /\ J /\ [Next]_vars /\ [~TickFaults]_vars => J'
  BY DangerStep
<1>3. IInv /\ D /\ D' /\ J /\ [Next]_vars /\ [~TickFaults]_vars => (O => O')
  BY DangerKeepsAlert DEF IsOpen
<1>4. IInv /\ D /\ D' /\ J /\ [Next]_vars /\ [~TickFaults]_vars /\ <<TickCommits>>_vars => O'
  BY DangerKeepsAlert DEF IsOpen
<1>5. <<TickCommits>>_vars => (stage = "idle")'
  BY DEF TickCommits, EndTick
<1>6. Spec => [][Next]_vars
  BY PTL DEF Spec
<1>. HIDE DEF D, J, O
<1>7. Spec /\ TicksGoOn => (<>[]D => <>[]O)
  BY <1>1, <1>2, <1>3, <1>4, <1>5, <1>6, Invariance, PTL DEF TicksGoOn
<1>. QED
  BY <1>7 DEF D, O

-----------------------------------------------------------------------------
(* Decisions that last, and alerts that are due.                           *)

\* What a decision against the alert of k, that has lasted since a tick began, has made of that tick so far.
EndOnItsWay(k, reason) ==
    /\ stage \in {"begun", "targets", "read"} /\ reason = "disabled" => ~Enabled(k[2], seen.settings)
    /\ stage \in {"targets", "read"} /\ reason = "inactive" => seen.at[k[2]] = NoPlace
    /\ stage = "read" /\ reason = "dismissed" => k[1] \in seen.dismissed
    /\ stage = "read" /\ reason = "suppressed" => Covered(k[1], seen.zones)
    /\ stage = "decided" =>
          /\ k \notin plan.open
          /\ IsOpen(alerts[k]) => plan.reason[k] # Keep \/ reason = "inactive"
    /\ stage \in {"written", "repeated"} => ~IsOpen(Effective(k))

\* The decisions CalledOff knows.
Decided == {"dismissed", "suppressed", "disabled", "inactive"}

\* Only a tick opens alerts.
LEMMA OthersOpenNone ==
    ASSUME IInv, Handlers \/ Delete, NEW k \in Keys, IsOpen(alerts'[k])
    PROVE  IsOpen(alerts[k])
<1>1. CASE Handlers
  <2>1. HandlerChange(k) /\ alerts[k] \in Rows
    BY <1>1, HandlerChanges DEF IInv, TypeOK
  <2>. QED
    BY <2>1, RowTypes DEF HandlerChange, IsOpen
<1>2. CASE Delete
  BY <1>2, EndAlertsRow, RowTypes DEF Delete, DeleteTakesLock, DeleteCommits, DeleteRollsBack, IsOpen, ClosedRow
<1>. QED
  BY <1>1, <1>2

\* Each step of a tick takes a lasting decision one step nearer to the end of the alert.
LEMMA EndOutlastsTick ==
    ASSUME IInv, TickSteps, NEW k \in Keys, NEW reason \in Decided, CalledOff(k, reason), EndOnItsWay(k, reason)
    PROVE  EndOnItsWay(k, reason)'
<1>1. TypeOK /\ k[1] \in Hotspots /\ k[2] \in Targets
  BY DEF IInv, Keys
<1>2. /\ reason = "dismissed" => k[1] \in dismissed
      /\ reason = "suppressed" => Covered(k[1], zones)
      /\ reason = "disabled" => ~Enabled(k[2], settings)
      /\ reason = "inactive" => k[2] \in Devices /\ device[k[2]].registered /\ ~Eligible(k[2])
  BY DEF CalledOff
<1>3. CASE TickBegins
  <2>1. seen'.settings = settings
    BY <1>3 DEF TickBegins, NoneSeen
  <2>. QED
    BY <1>2, <1>3, <2>1 DEF TickBegins, EndOnItsWay
<1>4. CASE TickReadsTargets
  <2>1. seen'.settings = seen.settings
    BY <1>1, <1>4 DEF TickReadsTargets, TypeOK, Worlds
  <2>2. seen'.at[k[2]] = IF k[2] = HQ THEN seen.at[HQ] ELSE IF k[2] \in fresh /\ Eligible(k[2]) THEN fix[k[2]] ELSE NoPlace
    BY <1>1, <1>4 DEF TickReadsTargets, TypeOK, Worlds
  <2>. QED
    BY <1>2, <1>4, <2>1, <2>2, GeographyAssumption DEF TickReadsTargets, EndOnItsWay
<1>5. CASE TickReadsHotspots
  <2>1. seen'.settings = seen.settings /\ seen'.at = seen.at /\ seen'.dismissed = dismissed /\ seen'.zones = zones
    BY <1>1, <1>5 DEF TickReadsHotspots, TypeOK, Worlds
  <2>. QED
    BY <1>2, <1>5, <2>1 DEF TickReadsHotspots, EndOnItsWay
<1>6. CASE TickDecides
  <2>. DEFINE w == [seen EXCEPT !.open = {l \in Keys : IsOpen(alerts[l])}]
  <2>1. /\ w.settings = seen.settings /\ w.at = seen.at /\ w.dismissed = seen.dismissed /\ w.zones = seen.zones
        /\ w.open = {l \in Keys : IsOpen(alerts[l])}
    BY <1>1 DEF TypeOK, Worlds
  <2>2. plan'.open = ToOpen(w) /\ plan'.reason[k] = IF k \in w.open THEN ResolveReason(k, w) ELSE Keep
    BY <1>6 DEF TickDecides
  <2>. HIDE DEF w
  <2>3. /\ reason = "dismissed" => k[1] \in w.dismissed
        /\ reason = "suppressed" => Covered(k[1], w.zones)
        /\ reason = "disabled" => ~Enabled(k[2], w.settings)
        /\ reason = "inactive" => w.at[k[2]] = NoPlace
    BY <1>6, <2>1 DEF TickDecides, EndOnItsWay
  <2>4. k \notin ToOpen(w)
    BY <2>3 DEF ToOpen, IsCandidate, SuppressedNow, Decided
  <2>5. reason # "inactive" => ResolveReason(k, w) # Keep
    BY <2>3 DEF ResolveReason, IsCandidate, SuppressedNow, Keep, Decided
  <2>. QED
    BY <1>6, <2>1, <2>2, <2>4, <2>5 DEF TickDecides, EndOnItsWay, IsOpen
<1>7. CASE TickWrites
  <2>1. k \notin plan.open /\ (IsOpen(alerts[k]) => plan.reason[k] # Keep \/ reason = "inactive")
    BY <1>7 DEF TickWrites, EndOnItsWay
  <2>2. reason = "inactive" => k \in DisabledKeys
    BY <1>1, <1>2 DEF DisabledKeys, DeviceKeys, Keys
  <2>3. ~IsOpen(alerts[k]) => pending'[k] = NoChange
    BY <1>7, <2>1 DEF TickWrites, ResolvedByPlan, InsertedByPlan
  <2>4. IsOpen(alerts[k]) => pending'[k] = ClosedRow(plan.reason[k]) \/ pending'[k] = ClosedRow("disabled")
    BY <1>7, <2>1, <2>2 DEF TickWrites, ResolvedByPlan
  <2>5. ~IsOpen(Effective(k)')
    <3>1. CASE IsOpen(alerts[k])
      BY <2>4, <3>1 DEF Effective, IsOpen, ClosedRow, NoChange
    <3>2. CASE ~IsOpen(alerts[k])
      BY <1>7, <2>3, <3>2 DEF TickWrites, Effective
    <3>. QED
      BY <3>1, <3>2
  <2>. QED
    BY <1>7, <2>5 DEF TickWrites, EndOnItsWay, IsOpen
<1>8. CASE TickRepeats
  <2>1. ~IsOpen(Effective(k)) /\ ~RepeatDue(k)
    BY <1>8 DEF TickRepeats, EndOnItsWay, RepeatDue, IsOpen
  <2>2. Effective(k)' = Effective(k)
    BY <1>8, <2>1 DEF TickRepeats, Effective
  <2>. QED
    BY <1>8, <2>1, <2>2 DEF TickRepeats, EndOnItsWay, IsOpen
<1>9. CASE TickCommits
  BY <1>9 DEF TickCommits, EndTick, EndOnItsWay
<1>. QED
  BY <1>3, <1>4, <1>5, <1>6, <1>7, <1>8, <1>9 DEF TickSteps

\* Every step but a failure keeps what has become of a lasting decision.
LEMMA EndStep ==
    ASSUME IInv, [Next]_vars, [~TickFaults]_vars, NEW k \in Keys, NEW reason \in Decided,
           CalledOff(k, reason), EndOnItsWay(k, reason)
    PROVE  EndOnItsWay(k, reason)'
<1>1. CASE UNCHANGED vars
  BY <1>1 DEF vars, tickVars, EndOnItsWay, Effective, IsOpen
<1>2. CASE Handlers \/ Delete
  <2>1. UNCHANGED tickVars
    BY <1>2, OthersLeaveTick
  <2>2. IsOpen(alerts'[k]) => IsOpen(alerts[k])
    BY <1>2, OthersOpenNone
  <2>3. IsOpen(Effective(k)') => IsOpen(Effective(k))
    BY <2>1, <2>2 DEF Effective, tickVars
  <2>. QED
    BY <2>1, <2>2, <2>3 DEF EndOnItsWay, tickVars, IsOpen
<1>. QED
  BY <1>1, <1>2, EndOutlastsTick DEF Next

\* An alert that has ended stays ended while the decision lasts, and the commit of a tick that began during it ends one.
LEMMA EndKeepsEnded ==
    ASSUME IInv, [Next]_vars, [~TickFaults]_vars, NEW k \in Keys, NEW reason, EndOnItsWay(k, reason)
    PROVE  /\ IsOpen(alerts'[k]) => IsOpen(alerts[k])
           /\ TickCommits => ~IsOpen(alerts'[k])
<1>1. TickCommits => ~IsOpen(alerts'[k])
  BY DEF TickCommits, EndOnItsWay
<1>2. Handlers \/ Delete => (IsOpen(alerts'[k]) => IsOpen(alerts[k]))
  BY OthersOpenNone
<1>3. TickSteps /\ ~TickCommits => UNCHANGED alerts
  BY DEF TickSteps, TickBegins, TickReadsTargets, TickReadsHotspots, TickDecides, TickWrites, TickRepeats
<1>4. UNCHANGED vars => UNCHANGED alerts
  BY DEF vars
<1>. QED
  BY <1>1, <1>2, <1>3, <1>4 DEF Next

\* A stale decision heals: when ticks go on committing, an alert that is called off for good ends and stays ended, even
\* one that a tick opened from what it had read before the decision.
THEOREM CalledOffIsEnded == Spec /\ TicksGoOn => CalledOffEnds
<1>. SUFFICES ASSUME NEW k \in Keys, NEW reason \in {"dismissed", "suppressed", "disabled", "inactive"}
              PROVE  Spec /\ TicksGoOn => (<>[]CalledOff(k, reason) => <>[]~IsOpen(alerts[k]))
  BY DEF CalledOffEnds
<1>. DEFINE P == CalledOff(k, reason)
            J == EndOnItsWay(k, reason)
            O == IsOpen(alerts[k])
<1>1. stage = "idle" => J
  BY DEF EndOnItsWay
<1>2. IInv /\ P /\ J /\ [Next]_vars /\ [~TickFaults]_vars => J'
  BY EndStep DEF Decided
<1>3. IInv /\ J /\ [Next]_vars /\ [~TickFaults]_vars => (~O => ~O')
  BY EndKeepsEnded DEF IsOpen
<1>4. IInv /\ J /\ [Next]_vars /\ [~TickFaults]_vars /\ <<TickCommits>>_vars => ~O'
  BY EndKeepsEnded DEF IsOpen
<1>5. <<TickCommits>>_vars => (stage = "idle")'
  BY DEF TickCommits, EndTick
<1>6. Spec => [][Next]_vars
  BY PTL DEF Spec
<1>. HIDE DEF P, J, O
<1>7. Spec /\ TicksGoOn => (<>[]P => <>[]~O)
  BY <1>1, <1>2, <1>3, <1>4, <1>5, <1>6, Invariance, PTL DEF TicksGoOn
<1>. QED
  BY <1>7 DEF P, O

\* Once its repeats are marked, the tick holds a row for an alert that has been due since before.
RepeatOnItsWay(k) == stage = "repeated" => pending[k] # NoChange

\* Every step but a failure keeps it so.
LEMMA RepeatStep ==
    ASSUME IInv, [Next]_vars, [~TickFaults]_vars, NEW k \in Keys, alerts[k].status = "open" /\ alerts[k].due,
           RepeatOnItsWay(k)
    PROVE  RepeatOnItsWay(k)'
<1>1. CASE UNCHANGED tickVars
  BY <1>1 DEF tickVars, RepeatOnItsWay
<1>2. CASE TickRepeats
  BY <1>2, RowTypes DEF TickRepeats, RepeatOnItsWay, RepeatDue, Effective
<1>3. Handlers \/ Delete \/ UNCHANGED vars => UNCHANGED tickVars
  BY OthersLeaveTick DEF vars
<1>4. TickSteps => TickRepeats \/ stage' # "repeated"
  BY DEF TickSteps, TickBegins, TickReadsTargets, TickReadsHotspots, TickDecides, TickWrites, TickCommits, EndTick
<1>. QED
  BY <1>1, <1>2, <1>3, <1>4 DEF Next, RepeatOnItsWay

\* A row the tick has written is not due.
LEMMA RepeatedIsNotDue ==
    ASSUME IInv, NEW k \in Keys, RepeatOnItsWay(k), TickCommits
    PROVE  ~alerts'[k].due
<1>1. alerts'[k] = pending[k] /\ pending[k] # NoChange
  BY DEF TickCommits, RepeatOnItsWay, Effective
<1>2. \A reason \in Reasons : ~ClosedRow(reason).due
  BY DEF ClosedRow
<1>. QED
  BY <1>1, <1>2, RowTypes DEF IInv, PendingShape

\* When ticks go on committing, an unacknowledged alert that is due is repeated, acknowledged or ended.
THEOREM DueIsRepeated == Spec /\ TicksGoOn => DueAlertSounds
<1>. SUFFICES ASSUME NEW k \in Keys
              PROVE  Spec /\ TicksGoOn => ((alerts[k].status = "open" /\ alerts[k].due)
                                             ~> ~(alerts[k].status = "open" /\ alerts[k].due))
  BY DEF DueAlertSounds
<1>. DEFINE P == alerts[k].status = "open" /\ alerts[k].due
            J == RepeatOnItsWay(k)
<1>1. stage = "idle" => J
  BY DEF RepeatOnItsWay
<1>2. IInv /\ P /\ J /\ [Next]_vars /\ [~TickFaults]_vars => J'
  BY RepeatStep
<1>3. IInv /\ J /\ <<TickCommits>>_vars => ~P'
  BY RepeatedIsNotDue
<1>4. <<TickCommits>>_vars => (stage = "idle")'
  BY DEF TickCommits, EndTick
<1>5. Spec => [][Next]_vars
  BY PTL DEF Spec
<1>. HIDE DEF P, J
<1>6. Spec /\ TicksGoOn => (P ~> ~P)
  BY <1>1, <1>2, <1>3, <1>4, <1>5, Invariance, PTL DEF TicksGoOn
<1>. QED
  BY <1>6 DEF P

=============================================================================
