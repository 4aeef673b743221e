---------------------------- MODULE FrameIngest ----------------------------
(***************************************************************************)
(* From a BEE frame on the radio to a location row, an SOS alert and the   *)
(* confirmation (backend/hardware_reader/hid_reader.py and reader.py).     *)
(*                                                                         *)
(* The device is outside this repository: as docs/PROTOCOL.md describes    *)
(* it, it sends one event at a time and repeats it until it is confirmed   *)
(* or the next event replaces it.  The reader takes one frame at a time;   *)
(* every statement of _handle_bee commits on its own, so a failure between *)
(* two of them leaves the first one done.  The dict bee_last_events lives  *)
(* in the process: it survives a reconnect and not a restart.              *)
(***************************************************************************)
EXTENDS Naturals

CONSTANTS
    Devices,    \* dev_sn of the BEE devices
    MaxEvents,  \* bound: events a device produces
    MaxFaults   \* bound: failures, restarts and lost confirmations

ASSUME IngestAssumption == MaxEvents \in Nat /\ MaxFaults \in Nat

VARIABLES
    sending,     \* per device: the event it is sending, and what became of it
    lastEvent,   \* bee_last_events: the last event seen, and whether EVENT_TIMEOUT has not passed since
    stage,       \* where the reader is
    frame,       \* the frame it is working on
    prevSos,     \* prev_sos of _handle_bee
    sosOpen,     \* its sos_open
    active,      \* devices registered and active
    latestSos,   \* sos_active of the device's newest location row, FALSE when it has none
    anchored,    \* devices with a location row that has a fix
    openSos,     \* open sos_alerts rows per device
    shownSos,    \* sos_active of the last location_update pushed for it
    raised,      \* devices whose last stored frame asserted SOS since an alert last opened (history)
    owed,        \* devices with an SOS onset stored and no open alert found or opened for it yet (history)
    faults

device == <<sending>>
reader == <<lastEvent, stage, frame, prevSos, sosOpen>>
database == <<active, latestSos, anchored, openSos, shownSos, raised, owed>>
vars == <<device, reader, database, faults>>

NoEvent == 0
Frames == [dev: Devices, event: 1..MaxEvents, sos: BOOLEAN, fix: BOOLEAN]
NoFrame == [dev |-> "none"]
Stages == {"down", "idle", "handle", "insert", "edge", "open", "notify", "effective", "push", "confirm"}

Init ==
    /\ sending = [d \in Devices |-> [event |-> NoEvent, sos |-> FALSE, fix |-> FALSE, outcome |-> "dropped",
                                     confirmed |-> TRUE]]
    /\ lastEvent = [d \in Devices |-> [event |-> NoEvent, recent |-> FALSE]]
    /\ stage = "down"
    /\ frame = NoFrame
    /\ prevSos = FALSE
    /\ sosOpen = FALSE
    /\ active = Devices
    /\ latestSos = [d \in Devices |-> FALSE]
    /\ anchored = {}
    /\ openSos = [d \in Devices |-> 0]
    /\ shownSos = [d \in Devices |-> FALSE]
    /\ raised = {}
    /\ owed = {}
    /\ faults = 0

-----------------------------------------------------------------------------
(* The device, the operator and the admin.                                 *)

\* The device has something new to report; an event still unconfirmed is given up.
NewEvent(d, sos, fix) ==
    /\ sending[d].event < MaxEvents
    /\ sending' = [sending EXCEPT ![d] = [event |-> @.event + 1, sos |-> sos, fix |-> fix, outcome |-> "pending",
                                          confirmed |-> FALSE]]
    /\ UNCHANGED <<reader, database, faults>>

\* Mutant of ResolveSos: the UPDATE lacks "resolved_at IS NULL".
ResolveSosAgain(d) ==
    /\ openSos' = [openSos EXCEPT ![d] = @ - 1]
    /\ UNCHANGED <<device, reader, active, latestSos, anchored, shownSos, raised, owed, faults>>

\* POST /api/locations/sos/{id}/resolve: the operator ends an alert; a second click finds none.
ResolveSos(d) ==
    /\ openSos[d] > 0
    /\ openSos' = [openSos EXCEPT ![d] = @ - 1]
    /\ UNCHANGED <<device, reader, active, latestSos, anchored, shownSos, raised, owed, faults>>

\* The admin deactivates or reactivates the device.
SetActive(d) ==
    /\ active' = IF d \in active THEN active \ {d} ELSE active \cup {d}
    /\ UNCHANGED <<device, reader, latestSos, anchored, openSos, shownSos, raised, owed, faults>>

-----------------------------------------------------------------------------
(* The reader.                                                             *)

OpenDevice ==
    /\ stage = "down"
    /\ stage' = "idle"
    /\ UNCHANGED <<device, lastEvent, frame, prevSos, sosOpen, database, faults>>

\* Mutant of Repeated: the duplicate filter forgets to look at the event id.
RepeatedAny(f) == lastEvent[f.dev].recent

Repeated(f) == lastEvent[f.dev].event = f.event /\ lastEvent[f.dev].recent

\* Mutant of AfterFilter: a duplicate is dropped without a confirmation.
AfterFilterSilent(f) == IF Repeated(f) THEN "idle" ELSE "handle"

AfterFilter(f) == IF Repeated(f) THEN "confirm" ELSE "handle"

\* _process_frame: a (re)transmission arrives; the duplicate filter remembers the event before anything is stored.
ProcessFrame(d) ==
    LET f == [dev |-> d, event |-> sending[d].event, sos |-> sending[d].sos, fix |-> sending[d].fix]
    IN  /\ stage = "idle"
        /\ ~sending[d].confirmed
        /\ frame' = f
        /\ stage' = AfterFilter(f)
        /\ lastEvent' = IF Repeated(f) THEN lastEvent
                        ELSE [lastEvent EXCEPT ![d] = [event |-> f.event, recent |-> TRUE]]
        /\ UNCHANGED <<device, prevSos, sosOpen, database, faults>>

\* EVENT_TIMEOUT (15 s) passes.
TimeoutPasses(d) ==
    /\ lastEvent[d].recent
    /\ lastEvent' = [lastEvent EXCEPT ![d].recent = FALSE]
    /\ UNCHANGED <<device, stage, frame, prevSos, sosOpen, database, faults>>

\* The outcome of the event being sent, if the frame in hand is still that event.
Outcome(what) ==
    IF sending[frame.dev].event = frame.event THEN [sending EXCEPT ![frame.dev].outcome = what] ELSE sending

Usable == frame.dev \in active /\ (frame.fix \/ frame.dev \in anchored)

\* _handle_bee: an unknown or inactive device, or a no-fix frame with no earlier fix, is dropped (and confirmed);
\* otherwise the previous SOS state is read before the insert.
LookUp ==
    /\ stage = "handle"
    /\ IF Usable
         THEN /\ stage' = "insert"
              /\ prevSos' = latestSos[frame.dev]
              /\ UNCHANGED sending
         ELSE /\ stage' = "confirm"
              /\ sending' = Outcome("dropped")
              /\ UNCHANGED prevSos
    /\ UNCHANGED <<lastEvent, frame, sosOpen, database, faults>>

\* Mutant of Onset: level-triggered, as POST /api/test/simulate is.
OnsetLevel == frame.sos

\* Mutant of Onset: prev_sos is read after the insert, so no frame is ever the first.
OnsetReadLate == frame.sos /\ ~frame.sos

Onset == frame.sos /\ ~prevSos

InsertLocation ==
    /\ stage = "insert"
    /\ stage' = IF Onset THEN "edge" ELSE "effective"
    /\ latestSos' = [latestSos EXCEPT ![frame.dev] = frame.sos]
    /\ anchored' = IF frame.fix THEN anchored \cup {frame.dev} ELSE anchored
    /\ sending' = Outcome("stored")
    /\ raised' = IF frame.sos THEN raised ELSE raised \ {frame.dev}
    /\ owed' = IF frame.sos /\ ~latestSos[frame.dev] THEN owed \cup {frame.dev} ELSE owed
    /\ UNCHANGED <<lastEvent, frame, prevSos, sosOpen, active, openSos, shownSos, faults>>

\* Mutant of EnsureSosAlert: the open alert is not looked for.
EnsureSosAlertBlindly ==
    /\ stage = "edge"
    /\ stage' = "open"
    /\ UNCHANGED <<device, lastEvent, frame, prevSos, sosOpen, database, faults>>

\* _ensure_sos_alert: nothing to do when the device has an open alert.
EnsureSosAlert ==
    /\ stage = "edge"
    /\ IF openSos[frame.dev] > 0
         THEN stage' = "effective" /\ owed' = owed \ {frame.dev}
         ELSE stage' = "open" /\ UNCHANGED owed
    /\ UNCHANGED <<device, lastEvent, frame, prevSos, sosOpen, active, latestSos, anchored, openSos, shownSos, raised,
                   faults>>

OpenSosAlert ==
    /\ stage = "open"
    /\ stage' = "notify"
    /\ openSos' = [openSos EXCEPT ![frame.dev] = @ + 1]
    /\ raised' = raised \cup {frame.dev}
    /\ owed' = owed \ {frame.dev}
    /\ UNCHANGED <<device, lastEvent, frame, prevSos, sosOpen, active, latestSos, anchored, shownSos, faults>>

\* pg_notify('sos_alert', ...) is a statement of its own.
NotifySos ==
    /\ stage = "notify"
    /\ stage' = "effective"
    /\ UNCHANGED <<device, lastEvent, frame, prevSos, sosOpen, database, faults>>

\* The effective SOS state: is there an alert nobody has resolved?
ReadSosOpen ==
    /\ stage = "effective"
    /\ stage' = "push"
    /\ sosOpen' = (openSos[frame.dev] > 0)
    /\ UNCHANGED <<device, lastEvent, frame, prevSos, database, faults>>

\* pg_notify('location_update', ...), unless the carrier, whom this module knows nothing of, is an inactive user.
PushLocation(carrierActive) ==
    /\ stage = "push"
    /\ stage' = "confirm"
    /\ shownSos' = IF carrierActive THEN [shownSos EXCEPT ![frame.dev] = sosOpen] ELSE shownSos
    /\ UNCHANGED <<device, lastEvent, frame, prevSos, sosOpen, active, latestSos, anchored, openSos, raised, owed,
                   faults>>

\* make_confirm: the device hears that its event arrived.
Confirm ==
    /\ stage = "confirm"
    /\ stage' = "idle"
    /\ sending' = IF sending[frame.dev].event = frame.event
                    THEN [sending EXCEPT ![frame.dev].confirmed = TRUE] ELSE sending
    /\ frame' = NoFrame
    /\ UNCHANGED <<lastEvent, prevSos, sosOpen, database, faults>>

-----------------------------------------------------------------------------
(* Failures.                                                               *)

Fault == faults < MaxFaults /\ faults' = faults + 1

ConfirmLost ==
    /\ stage = "confirm"
    /\ stage' = "idle"
    /\ frame' = NoFrame
    /\ Fault
    /\ UNCHANGED <<device, lastEvent, prevSos, sosOpen, database>>

\* A statement or the USB device fails: the frame in hand is forgotten, the reader reconnects after RECONNECT_DELAY.
ReaderFails ==
    /\ stage # "down"
    /\ stage' = "down"
    /\ frame' = NoFrame
    /\ Fault
    /\ UNCHANGED <<device, lastEvent, prevSos, sosOpen, database>>

\* The backend dies and starts again: bee_last_events is empty.
Restart ==
    /\ stage' = "down"
    /\ frame' = NoFrame
    /\ lastEvent' = [d \in Devices |-> [event |-> NoEvent, recent |-> FALSE]]
    /\ Fault
    /\ UNCHANGED <<device, prevSos, sosOpen, database>>

-----------------------------------------------------------------------------
Handle ==
    \/ LookUp \/ InsertLocation \/ EnsureSosAlert \/ OpenSosAlert \/ NotifySos \/ ReadSosOpen \/ Confirm
    \/ \E carrierActive \in BOOLEAN : PushLocation(carrierActive)

Next ==
    \/ \E d \in Devices :
          \/ \E sos, fix \in BOOLEAN : NewEvent(d, sos, fix)
          \/ ResolveSos(d) \/ SetActive(d) \/ ProcessFrame(d) \/ TimeoutPasses(d)
    \/ OpenDevice
    \/ Handle
    \/ ConfirmLost \/ ReaderFails \/ Restart

Spec == Init /\ [][Next]_vars

\* The reader's loop runs for ever, and a device keeps repeating an unconfirmed event, so the reader gets it whenever it
\* has time.
LiveSpec ==
    /\ Spec
    /\ WF_vars(OpenDevice)
    /\ WF_vars(Handle)
    /\ \A d \in Devices : SF_vars(ProcessFrame(d))

-----------------------------------------------------------------------------
(* Properties.                                                             *)

\* Every variable has its type; the reader holds a frame exactly while it works on one, and devices send events only.
TypeOK ==
    /\ sending \in [Devices -> [event: 0..MaxEvents, sos: BOOLEAN, fix: BOOLEAN,
                                outcome: {"pending", "stored", "dropped"}, confirmed: BOOLEAN]]
    /\ \A d \in Devices : sending[d].confirmed \/ sending[d].event # NoEvent
    /\ lastEvent \in [Devices -> [event: 0..MaxEvents, recent: BOOLEAN]]
    /\ stage \in Stages
    /\ IF stage \in {"down", "idle"} THEN frame = NoFrame ELSE frame \in Frames
    /\ prevSos \in BOOLEAN
    /\ sosOpen \in BOOLEAN
    /\ active \subseteq Devices
    /\ latestSos \in [Devices -> BOOLEAN]
    /\ anchored \subseteq Devices
    /\ openSos \in [Devices -> Nat]
    /\ shownSos \in [Devices -> BOOLEAN]
    /\ raised \subseteq Devices
    /\ owed \subseteq Devices
    /\ faults \in 0..MaxFaults

\* sos_alerts has no unique index: that a device has at most one open alert rests on the check in _ensure_sos_alert and
\* on the reader taking one frame at a time, also over failures between the check and the insert.
OneOpenSos == \A d \in Devices : openSos[d] <= 1

\* The comment in _handle_bee (reader.py:101-104): an alert the operator resolved is not opened again by a device that
\* keeps asserting SOS, across retransmissions, reconnects and restarts, until a frame without SOS was stored.
ResolvedSosStaysResolved ==
    [][\A d \in Devices : openSos'[d] > openSos[d] => d \notin raised]_vars

\* How far the SOS of each device is.
Episode == [d \in Devices |-> IF ~latestSos[d] THEN "calm" ELSE IF d \in raised THEN "raised" ELSE "asserting"]

Book == INSTANCE SosBook WITH sos <- Episode, alert <- openSos

\* The two together, as an abstract specification: over retransmissions, reconnects, restarts and failures in between,
\* the SOS of a device raises at most one alert, beside no other, and another one only after a frame without SOS.
KeepsSosBook == Book!Spec

\* Without a failure no SOS is lost: an onset that was stored has its alert unless the reader is just about to open it.
SosOwedOnlyAfterFault ==
    faults = 0 => \A d \in owed : stage \in {"edge", "open"} /\ frame.dev = d

\* Without a failure the device is never told that an event arrived which was neither stored nor dropped on purpose.
ConfirmedLossOnlyAfterFault ==
    faults = 0 => \A d \in Devices : sending[d].confirmed => sending[d].outcome # "pending"

\* The reader and the radio go on: the reader gets done with every frame, what an unconfirmed device repeats reaches it
\* again and again, and failures end.
FramesGetThrough ==
    /\ []<>(stage = "idle")
    /\ \A d \in Devices : []<>(sending[d].confirmed \/ (stage \notin {"down", "idle"} /\ frame.dev = d))
    /\ <>[][~(ConfirmLost \/ ReaderFails \/ Restart)]_vars

\* Every event is confirmed in the end, unless the device gives it up for a newer one: the confirmation of a duplicate
\* repairs a lost one.
EventIsConfirmed ==
    \A d \in Devices, e \in 1..MaxEvents :
        (sending[d].event = e) ~> (sending[d].event > e \/ sending[d].confirmed)

\* Architecture.md:124: no SOS can be missed or lost on a restart.  An SOS onset that was stored has its alert unless
\* the reader is just about to open it.
NoSosLost ==
    \A d \in owed : stage \in {"edge", "open"} /\ frame.dev = d

-----------------------------------------------------------------------------
(* The inductive invariant.                                                *)

\* prev_sos is still the newest stored state when it is used: nobody else stores rows of this device.
PrevIsLatest == stage = "insert" => prevSos = latestSos[frame.dev]

\* A device whose alert was opened for the SOS it asserts still asserts it in its newest row.
RaisedAsserts == \A d \in raised : latestSos[d]

\* An alert is about to be opened only for a device that has just begun to assert SOS, and that has none open.
OpeningIsNew ==
    /\ stage \in {"edge", "open"} => latestSos[frame.dev] /\ frame.dev \notin raised
    /\ stage = "open" => openSos[frame.dev] = 0

\* The frame in hand is the last event seen of its device, and no device has sent a later one than it has produced.
FrameSeen ==
    /\ frame # NoFrame => lastEvent[frame.dev].event = frame.event
    /\ \A d \in Devices : lastEvent[d].event <= sending[d].event

\* Without a failure an event that was seen is done with, unless the reader is working on it.
SeenIsDone ==
    faults = 0 =>
        \A d \in Devices :
            (lastEvent[d].event = sending[d].event /\ sending[d].outcome = "pending")
            => stage \in {"handle", "insert"} /\ frame.dev = d /\ frame.event = sending[d].event

IInv ==
    /\ TypeOK /\ PrevIsLatest /\ RaisedAsserts /\ OpeningIsNew /\ FrameSeen /\ SeenIsDone
    /\ OneOpenSos /\ SosOwedOnlyAfterFault /\ ConfirmedLossOnlyAfterFault
=============================================================================
