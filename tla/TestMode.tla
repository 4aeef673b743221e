------------------------------ MODULE TestMode ------------------------------
(***************************************************************************)
(* Test mode (backend/simulation.py and the handlers of routers/test.py):  *)
(* one Simulation object that admins start, stop and reset, and the loops  *)
(* that write frames of the demo trackers.  Every await is a point where   *)
(* another handler may run.                                                *)
(*                                                                         *)
(* Of the database, the demo trackers' rows count: which of them have a    *)
(* position, and which an open SOS alert.  Each statement of               *)
(* record_position commits on its own.                                     *)
(***************************************************************************)
CONSTANTS
    Starts,    \* calls of POST /simulation/start
    Enders,    \* admins who call stop or reset
    Trackers,  \* demo trackers
    Scenarios  \* what a start may ask for: the role of each tracker it uses

Roles == {"sos", "moving", "silent"}   \* silent: stale and lost; no_fix writes the same rows as moving
None == "none"

ASSUME TestModeAssumption ==
    /\ None \notin Starts \cup Trackers
    /\ \A roles \in Scenarios : DOMAIN roles \subseteq Trackers /\ \A t \in DOMAIN roles : roles[t] \in Roles

VARIABLES
    call,       \* per start: how far it is, and its loop once it has one
    ender,      \* per admin: the stop or reset under way
    task,       \* self.task: the start whose loop it is
    roles,      \* self._roles, written by the latest start
    cancelled,  \* loops whose task was cancelled
    positions,  \* trackers with a row in location_events
    alerts,     \* trackers with an open row in sos_alerts
    overlapped, \* of the history: two starts were between their check and their task at once
    emptied     \* of the history: a reset answered that no start disturbed, and none was let in since

vars == <<call, ender, task, roles, cancelled, positions, alerts, overlapped, emptied>>

\* A start seeds, writes the silent trackers' one report, and then its loop runs.
Phases == {"idle", "seeding", "placing", "looping"}
UnderWay == {s \in Starts : call[s].at \in {"seeding", "placing"}}

NoCall == [at |-> "idle", uses |-> {}, left |-> {}, alarm |-> {}]
NoEnder == [at |-> "idle", what |-> "stop", awaits |-> None, alone |-> FALSE]

Init ==
    /\ call = [s \in Starts |-> NoCall]
    /\ ender = [e \in Enders |-> NoEnder]
    /\ task = None
    /\ roles = << >>
    /\ cancelled = {}
    /\ positions \in SUBSET Trackers /\ alerts \in SUBSET positions   \* of an earlier session
    /\ overlapped = FALSE
    /\ emptied = FALSE

Goes(s, c) == call' = [call EXCEPT ![s] = c]

-----------------------------------------------------------------------------
(* Simulation.start().                                                     *)

\* The check, before the first await; a start while one runs is refused (409) and leaves nothing.
Start(s) ==
    /\ call[s].at = "idle"
    /\ task = None
    /\ Goes(s, [NoCall EXCEPT !.at = "seeding"])
    /\ overlapped' = (overlapped \/ UnderWay # {})
    /\ ender' = [e \in Enders |-> [ender[e] EXCEPT !.alone = FALSE]]
    /\ emptied' = FALSE
    /\ UNCHANGED <<task, roles, cancelled, positions, alerts>>

\* The accounts and trackers are in place; the fields of the simulation are replaced.
Seeded(s) ==
    /\ call[s].at = "seeding"
    /\ \E scenario \in Scenarios :
        /\ roles' = scenario
        /\ Goes(s, [NoCall EXCEPT !.at = "placing", !.uses = DOMAIN scenario,
                                  !.left = {t \in DOMAIN scenario : scenario[t] = "silent"}])
    /\ UNCHANGED <<ender, task, cancelled, positions, alerts, overlapped, emptied>>

\* One report in the past of a stale or lost tracker.
Place(s, t) ==
    /\ call[s].at = "placing" /\ t \in call[s].left
    /\ positions' = positions \cup {t}
    /\ Goes(s, [call[s] EXCEPT !.left = @ \ {t}])
    /\ UNCHANGED <<ender, task, roles, cancelled, alerts, overlapped, emptied>>

\* self.task = create_task(self._run(devices)).
CreateTask(s) ==
    /\ call[s].at = "placing" /\ call[s].left = {}
    /\ task' = s
    /\ Goes(s, [call[s] EXCEPT !.at = "looping"])
    /\ UNCHANGED <<ender, roles, cancelled, positions, alerts, overlapped, emptied>>

\* The database fails a start: what it wrote stays, no task.
StartFails(s) ==
    /\ s \in UnderWay
    /\ Goes(s, NoCall)
    /\ UNCHANGED <<ender, task, roles, cancelled, positions, alerts, overlapped, emptied>>

-----------------------------------------------------------------------------
(* _run(): one frame per tracker, then sleep, until cancelled.             *)

\* Mutant of NextRound: every demo tracker, not only those of this start.
NextRoundAll(s) ==
    /\ call[s].at = "looping" /\ call[s].left = {} /\ call[s].alarm = {}
    /\ Goes(s, [call[s] EXCEPT !.left = Trackers])
    /\ UNCHANGED <<ender, task, roles, cancelled, positions, alerts, overlapped, emptied>>

\* The sleep is over.
NextRound(s) ==
    /\ call[s].at = "looping" /\ call[s].left = {} /\ call[s].alarm = {}
    /\ Goes(s, [call[s] EXCEPT !.left = call[s].uses])
    /\ UNCHANGED <<ender, task, roles, cancelled, positions, alerts, overlapped, emptied>>

\* The next tracker: record_position() writes its row, unless it is silent.  The roles are the latest start's; a tracker
\* that one does not use has no start position, and the round fails.
Report(s, t) ==
    /\ call[s].at = "looping" /\ t \in call[s].left /\ call[s].alarm = {}
    /\ t \in DOMAIN roles
    /\ positions' = IF roles[t] = "silent" THEN positions ELSE positions \cup {t}
    /\ Goes(s, [call[s] EXCEPT !.left = @ \ {t}, !.alarm = IF roles[t] = "sos" THEN {t} ELSE {}])
    /\ UNCHANGED <<ender, task, roles, cancelled, alerts, overlapped, emptied>>

\* record_position(): the SOS alert, unless one is open.
Alarm(s) ==
    /\ call[s].at = "looping" /\ call[s].alarm # {}
    /\ alerts' = alerts \cup call[s].alarm
    /\ Goes(s, [call[s] EXCEPT !.alarm = {}])
    /\ UNCHANGED <<ender, task, roles, cancelled, positions, overlapped, emptied>>

\* except Exception: the rest of the round is skipped.
RoundFails(s) ==
    /\ call[s].at = "looping" /\ call[s].left \cup call[s].alarm # {}
    /\ Goes(s, [call[s] EXCEPT !.left = {}, !.alarm = {}])
    /\ UNCHANGED <<ender, task, roles, cancelled, positions, alerts, overlapped, emptied>>

-----------------------------------------------------------------------------
(* Simulation.stop() and reset().                                          *)

\* Where a stop leads once the loop is gone: a reset goes on to delete.
Stopped(what) == IF what = "reset" THEN "deleting" ELSE "idle"

\* Mutant of Cancels: the task is forgotten, not awaited.
CancelsUnawaited(e, what) ==
    /\ ender' = [ender EXCEPT ![e] = [at |-> Stopped(what), what |-> what, awaits |-> None,
                                      alone |-> UnderWay = {} /\ ~overlapped]]
    /\ task' = None
    /\ cancelled' = IF task = None THEN cancelled ELSE cancelled \cup {task}

\* The running task is cancelled and awaited; without one there is nothing to do, also while a start is under way.
Cancels(e, what) ==
    /\ ender' = [ender EXCEPT ![e] = [at |-> IF task = None THEN Stopped(what) ELSE "stopping", what |-> what,
                                      awaits |-> task, alone |-> UnderWay = {} /\ ~overlapped]]
    /\ cancelled' = IF task = None THEN cancelled ELSE cancelled \cup {task}
    /\ task' = task

\* POST /simulation/stop or /simulation/reset.
Stop(e, what) ==
    /\ ender[e].at = "idle"
    /\ Cancels(e, what)
    /\ UNCHANGED <<call, roles, positions, alerts, overlapped, emptied>>

\* CancelledError is raised at the loop's await, and those who await the task resume in the event loop's next turn,
\* before the database answers anyone: self.task = None.
LoopEnds(s) ==
    /\ call[s].at = "looping" /\ s \in cancelled
    /\ Goes(s, NoCall)
    /\ cancelled' = cancelled \ {s}
    /\ LET resumed == {e \in Enders : ender[e].at = "stopping" /\ ender[e].awaits = s} IN
        /\ ender' = [e \in Enders |-> IF e \in resumed
                                      THEN [ender[e] EXCEPT !.at = Stopped(ender[e].what), !.awaits = None]
                                      ELSE ender[e]]
        /\ task' = IF resumed = {} THEN task ELSE None
    /\ UNCHANGED <<roles, positions, alerts, overlapped, emptied>>

\* reset(): one transaction deletes the demo trackers' positions and SOS alerts.
Delete(e) ==
    /\ ender[e].at = "deleting"
    /\ positions' = {} /\ alerts' = {}
    /\ ender' = [ender EXCEPT ![e] = NoEnder]
    /\ emptied' = (emptied \/ ender[e].alone)
    /\ UNCHANGED <<call, task, roles, cancelled, overlapped>>

\* The transaction fails and leaves the rows.
DeleteFails(e) ==
    /\ ender[e].at = "deleting"
    /\ ender' = [ender EXCEPT ![e] = NoEnder]
    /\ UNCHANGED <<call, task, roles, cancelled, positions, alerts, overlapped, emptied>>

\* The backend restarts: the simulation is in-process and does not come back, the rows stay.
Restart ==
    /\ call' = [s \in Starts |-> NoCall]
    /\ ender' = [e \in Enders |-> NoEnder]
    /\ task' = None
    /\ roles' = << >>
    /\ cancelled' = {}
    /\ overlapped' = FALSE
    /\ UNCHANGED <<positions, alerts, emptied>>

Next ==
    \/ \E s \in Starts :
        \/ Start(s) \/ Seeded(s) \/ CreateTask(s) \/ StartFails(s)
        \/ NextRound(s) \/ Alarm(s) \/ RoundFails(s) \/ LoopEnds(s)
        \/ \E t \in Trackers : Place(s, t) \/ Report(s, t)
    \/ \E e \in Enders :
        \/ \E what \in {"stop", "reset"} : Stop(e, what)
        \/ Delete(e) \/ DeleteFails(e)
    \/ Restart

Spec == Init /\ [][Next]_vars

-----------------------------------------------------------------------------
(* Properties.                                                             *)

TypeOK ==
    /\ call \in [Starts -> [at : Phases, uses : SUBSET Trackers, left : SUBSET Trackers, alarm : SUBSET Trackers]]
    /\ \A s \in Starts : call[s].left \cup call[s].alarm \subseteq call[s].uses
    /\ ender \in [Enders -> [at : {"idle", "stopping", "deleting"}, what : {"stop", "reset"},
                             awaits : Starts \cup {None}, alone : BOOLEAN]]
    /\ task \in Starts \cup {None} /\ cancelled \subseteq Starts
    /\ roles \in Scenarios \cup {<< >>}
    /\ positions \subseteq Trackers /\ alerts \subseteq Trackers
    /\ overlapped \in BOOLEAN /\ emptied \in BOOLEAN

\* "Stop test mode and delete the demo trackers' positions and SOS alerts, so the next tester starts from an empty
\* map" (routers/test.py:221): nothing that ran before the reset writes after it, if no start was under way when it
\* was called and no two starts ever overlapped.
ResetLeavesEmptyMap == emptied => positions = {} /\ alerts = {}

-----------------------------------------------------------------------------
(* The inductive invariant behind it.                                      *)

Quiet == \A s \in Starts : call[s].at = "idle"

\* Starts that never overlapped leave one writer: the start under way, or the task's loop.
OneWriter ==
    ~overlapped =>
        /\ \A s \in Starts : call[s].at = "looping" => task = s
        /\ \A s \in UnderWay : task = None /\ \A r \in UnderWay : r = s

\* A reset that no start disturbs deletes when nothing writes, and nothing writes after it.
DeletesInPeace ==
    /\ emptied => Quiet
    /\ \A e \in Enders : ender[e].alone =>
        /\ ender[e].at = "stopping" => UnderWay = {} /\ ~overlapped
        /\ ender[e].at = "deleting" => Quiet

IInv == TypeOK /\ ResetLeavesEmptyMap /\ OneWriter /\ DeletesInPeace

=============================================================================
