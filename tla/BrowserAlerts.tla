--------------------------- MODULE BrowserAlerts ---------------------------
(***************************************************************************)
(* The open-alert list of one browser (frontend/src/stores/fire.js) with   *)
(* the WebSocket that feeds it (composables/useWebSocket.js).  The list is *)
(* fed three ways at once: loads of the whole list, of which several may   *)
(* be in flight; pushes, in order but sometimes lost; and the answers to   *)
(* the operator's own acknowledgements.                                    *)
(*                                                                         *)
(* A load takes two steps, the server reading its rows and the answer      *)
(* arriving; pushes and answers may come in between.  Only the newest load *)
(* counts (alertsSeq), so only that one is kept: `touched` holds what      *)
(* alertsLog says changed since it started.  Superseded loads matter       *)
(* where a repeat message waits for its own load.  Statuses of an alert    *)
(* only advance: none, open, acked, resolved (see AlertBook).              *)
(***************************************************************************)
EXTENDS Naturals, Sequences

CONSTANTS
    Alerts,     \* alert ids
    MaxPushes,  \* bound: messages under way to the browser
    MaxFaults   \* bound: failed requests

ASSUME BrowserAssumption == MaxPushes \in Nat /\ MaxFaults \in Nat

VARIABLES
    server,         \* fire_alerts: the status of each id
    pushes,         \* messages under way on the open socket
    session,        \* somebody is logged in
    mapOpen,        \* the map page was opened in this session: it owns the socket, which owns the resync timer
    socket,         \* none before connect(), connecting, open, or closed until the reconnect timer fires
    everConnected,  \* hasConnectedBefore
    list,           \* alerts.value: absent, listed or listed as acknowledged
    hidden,         \* alertsHidden > 0: the last load did not return every open alert
    load,           \* the newest load
    loadedOnce,     \* alertsLoadedOnce
    seen, rang,     \* ids a load has listed; ids a tone was played for
    restored,       \* ids that the silent first load listed unacknowledged (history)
    waiters,        \* repeat messages waiting for the load they started
    acks,           \* acknowledge requests under way
    ackAll,         \* the acknowledge-all request under way
    ringing,        \* the last step raised ringToken
    faults

requests == <<acks, ackAll>>
socketVars == <<session, mapOpen, socket, everConnected>>
memory == <<loadedOnce, seen, rang, restored>>
vars == <<server, pushes, socketVars, list, hidden, load, memory, waiters, requests, ringing, faults>>

Messages ==
    [kind: {"alert"}, ids: SUBSET Alerts, status: {"open"}]
        \cup [kind: {"updated"}, ids: SUBSET Alerts, status: {"acked", "resolved"}]
        \cup [kind: {"repeat"}, ids: SUBSET Alerts, status: {"open"}]

Shown == {"absent", "open", "acked"}
Nothing == [a \in Alerts |-> "absent"]
NoLoad == [phase |-> "none", rows |-> Nothing, hidden |-> FALSE, touched |-> {}]
NewLoad == [NoLoad EXCEPT !.phase = "sent"]
NoAckAll == [phase |-> "none", ids |-> {}]
Fault == faults < MaxFaults /\ faults' = faults + 1

Init ==
    /\ server = [a \in Alerts |-> "none"]
    /\ pushes = <<>>
    /\ session = FALSE /\ mapOpen = FALSE /\ socket = "none" /\ everConnected = FALSE
    /\ list = Nothing /\ hidden = FALSE
    /\ load = NoLoad
    /\ loadedOnce = FALSE /\ seen = {} /\ rang = {} /\ restored = {}
    /\ waiters = {}
    /\ acks = [a \in Alerts |-> "none"]
    /\ ackAll = NoAckAll
    /\ ringing = FALSE
    /\ faults = 0

-----------------------------------------------------------------------------
(* The server: the tick and other operators.  A notification is part of    *)
(* the change; with no socket open nobody gets it.                         *)

Push(kind, ids, status) ==
    IF socket = "open" /\ ids # {}
      THEN /\ Len(pushes) < MaxPushes
           /\ pushes' = Append(pushes, [kind |-> kind, ids |-> ids, status |-> status])
      ELSE UNCHANGED pushes

ServerStep == ringing' = FALSE /\ UNCHANGED <<socketVars, list, hidden, load, memory, waiters, requests, faults>>

Raise(a) ==
    /\ server[a] = "none"
    /\ server' = [server EXCEPT ![a] = "open"]
    /\ Push("alert", {a}, "open")
    /\ ServerStep

AckElsewhere(a) ==
    /\ server[a] = "open"
    /\ server' = [server EXCEPT ![a] = "acked"]
    /\ Push("updated", {a}, "acked")
    /\ ServerStep

Resolve(a) ==
    /\ server[a] \in {"open", "acked"}
    /\ server' = [server EXCEPT ![a] = "resolved"]
    /\ Push("updated", {a}, "resolved")
    /\ ServerStep

\* One message lists every open, unacknowledged alert that is due.
Repeat(ids) ==
    /\ socket = "open"
    /\ ids # {}
    /\ \A a \in ids : server[a] = "open"
    /\ Push("repeat", ids, "open")
    /\ UNCHANGED server
    /\ ServerStep

-----------------------------------------------------------------------------
(* Loads.                                                                  *)

\* A load starts; it supersedes the one in flight.
Superseded == {[w EXCEPT !.current = FALSE] : w \in waiters}

\* Mutant of StartLoad: the resync waits for an open socket.
StartLoadConnected ==
    /\ socket = "open"
    /\ load' = NewLoad
    /\ waiters' = Superseded
    /\ ringing' = FALSE
    /\ UNCHANGED <<server, pushes, socketVars, list, hidden, memory, requests, faults>>

\* The 45 s resync: the timer runs from the first connect().
StartLoad ==
    /\ socket # "none"
    /\ load' = NewLoad
    /\ waiters' = Superseded
    /\ ringing' = FALSE
    /\ UNCHANGED <<server, pushes, socketVars, list, hidden, memory, requests, faults>>

\* Mutant of OpenAlerts: the listing leaves acknowledged alerts out.
UnackedAlerts == {a \in Alerts : server[a] = "open"}

OpenAlerts == {a \in Alerts : server[a] \in {"open", "acked"}}

\* GET /fire/alerts?state=open reads its rows, unacknowledged first; those beyond the row limit are only counted.
LoadReads ==
    /\ load.phase = "sent"
    /\ \E rows \in SUBSET OpenAlerts :
          /\ (\E a \in rows : server[a] = "acked") => \A a \in OpenAlerts \ rows : server[a] = "acked"
          /\ load' = [load EXCEPT !.phase = "read",
                                  !.rows = [a \in Alerts |-> IF a \in rows THEN server[a] ELSE "absent"],
                                  !.hidden = (rows # OpenAlerts)]
    /\ ringing' = FALSE
    /\ UNCHANGED <<server, pushes, socketVars, list, hidden, memory, waiters, requests, faults>>

\* Mutant of Landed: what the answer does not list is kept.
LandedMerged ==
    [a \in Alerts |->
        IF a \in load.touched \/ list[a] = "acked" \/ load.rows[a] = "absent" THEN list[a] ELSE load.rows[a]]

\* The answer replaces the list, but for what changed since the load started and for acknowledgements.
Landed ==
    [a \in Alerts |->
        IF a \in load.touched THEN list[a]
        ELSE IF list[a] = "acked" /\ load.rows[a] = "open" THEN "acked"
        ELSE load.rows[a]]

\* Mutant of Fresh: the ids are put in `seen` before they are compared with it.
FreshSeenFirst(next) == {}

\* The unacknowledged alerts nobody has been told about.
Fresh(next) == {a \in Alerts : next[a] = "open" /\ a \notin seen \cup rang}

\* applyFireAlertRepeat after its load: does it ring?
RepeatRings(ids, reloaded, shown, more) ==
    \/ \E a \in ids : shown[a] = "open"
    \/ (\E a \in ids : shown[a] = "absent") /\ (~reloaded \/ more)

Current == {w \in waiters : w.current}

LoadLands ==
    LET fresh == Fresh(Landed)
    IN  /\ load.phase = "read"
        /\ list' = Landed
        /\ hidden' = load.hidden
        /\ seen' = seen \cup {a \in Alerts : Landed[a] # "absent"}
        /\ rang' = IF loadedOnce THEN rang \cup fresh ELSE rang
        /\ restored' = IF loadedOnce THEN restored ELSE restored \cup fresh
        /\ loadedOnce' = TRUE
        /\ ringing' = (\/ loadedOnce /\ fresh # {}
                       \/ \E w \in Current : RepeatRings(w.ids, TRUE, Landed, load.hidden))
        /\ waiters' = waiters \ Current
        /\ load' = NoLoad
        /\ UNCHANGED <<server, pushes, socketVars, requests, faults>>

LoadFails ==
    /\ load.phase # "none"
    /\ Fault
    /\ loadedOnce' = TRUE
    /\ ringing' = (\E w \in Current : RepeatRings(w.ids, FALSE, list, hidden))
    /\ waiters' = waiters \ Current
    /\ load' = NoLoad
    /\ UNCHANGED <<server, pushes, socketVars, list, hidden, seen, rang, restored, requests>>

\* The load a repeat message started comes back after a newer one was started: its rows are dropped, but the handler
\* goes on as after a reload; it may also fail.
SupersededReturns(w, reloaded) ==
    /\ ~w.current
    /\ IF reloaded THEN UNCHANGED faults ELSE Fault
    /\ ringing' = RepeatRings(w.ids, reloaded, list, hidden)
    /\ waiters' = waiters \ {w}
    /\ UNCHANGED <<server, pushes, socketVars, list, hidden, load, memory, requests>>

-----------------------------------------------------------------------------
(* Pushes and answers.                                                     *)

\* upsertAlert and removeAlert: acknowledged stays acknowledged, resolved means gone.
Upsert(ids, status) ==
    /\ list' = [a \in Alerts |->
                   IF a \notin ids THEN list[a]
                   ELSE IF status = "resolved" THEN "absent"
                   ELSE IF list[a] = "acked" THEN "acked" ELSE status]
    /\ load' = IF load.phase = "none" THEN load ELSE [load EXCEPT !.touched = @ \cup ids]

ApplyFireAlert(ids) ==
    /\ Upsert(ids, "open")
    /\ ringing' = (\E a \in ids : a \notin rang)
    /\ rang' = rang \cup ids
    /\ UNCHANGED <<loadedOnce, seen, restored, waiters>>

ApplyFireAlertUpdated(ids, status) ==
    /\ Upsert(ids, status)
    /\ ringing' = FALSE
    /\ UNCHANGED <<memory, waiters>>

ApplyFireAlertRepeat(ids) ==
    /\ IF \E a \in ids : list[a] = "absent"
         THEN /\ load' = NewLoad
              /\ waiters' = Superseded \cup {[ids |-> ids, current |-> TRUE]}
              /\ ringing' = FALSE
         ELSE /\ ringing' = (\E a \in ids : list[a] = "open")
              /\ UNCHANGED <<load, waiters>>
    /\ UNCHANGED <<list, memory>>

Deliver ==
    /\ pushes # <<>>
    /\ LET m == Head(pushes)
       IN  \/ m.kind = "alert" /\ ApplyFireAlert(m.ids)
           \/ m.kind = "updated" /\ ApplyFireAlertUpdated(m.ids, m.status)
           \/ m.kind = "repeat" /\ ApplyFireAlertRepeat(m.ids)
    /\ pushes' = Tail(pushes)
    /\ UNCHANGED <<server, socketVars, hidden, requests, faults>>

\* The operator acknowledges one listed alert.
ClickAck(a) ==
    /\ session /\ list[a] = "open" /\ acks[a] = "none"
    /\ acks' = [acks EXCEPT ![a] = "sent"]
    /\ ringing' = FALSE
    /\ UNCHANGED <<server, pushes, socketVars, list, hidden, load, memory, waiters, ackAll, faults>>

\* POST /fire/alerts/{id}/acknowledge: idempotent; the answer is the row as it is now.
AckArrives(a) ==
    /\ acks[a] = "sent"
    /\ IF server[a] = "open"
         THEN server' = [server EXCEPT ![a] = "acked"] /\ Push("updated", {a}, "acked")
         ELSE UNCHANGED <<server, pushes>>
    /\ acks' = [acks EXCEPT ![a] = server'[a]]
    /\ ringing' = FALSE
    /\ UNCHANGED <<socketVars, list, hidden, load, memory, waiters, ackAll, faults>>

AckReturns(a) ==
    /\ acks[a] \in {"acked", "resolved"}
    /\ Upsert({a}, acks[a])
    /\ acks' = [acks EXCEPT ![a] = "none"]
    /\ ringing' = FALSE
    /\ UNCHANGED <<server, pushes, socketVars, hidden, memory, waiters, ackAll, faults>>

AckFails(a) ==
    /\ acks[a] # "none"
    /\ Fault
    /\ acks' = [acks EXCEPT ![a] = "none"]
    /\ ringing' = FALSE
    /\ UNCHANGED <<server, pushes, socketVars, list, hidden, load, memory, waiters, ackAll>>

\* Mutant of ClickAckAll: the list is marked before the answer.
ClickAckAllOptimistic ==
    /\ session /\ ackAll.phase = "none"
    /\ \E a \in Alerts : list[a] = "open"
    /\ ackAll' = [phase |-> "sent", ids |-> {a \in Alerts : list[a] = "open"}]
    /\ list' = [a \in Alerts |-> IF list[a] = "open" THEN "acked" ELSE list[a]]
    /\ ringing' = FALSE
    /\ UNCHANGED <<server, pushes, socketVars, hidden, load, memory, waiters, acks, faults>>

ClickAckAll ==
    /\ session /\ ackAll.phase = "none"
    /\ \E a \in Alerts : list[a] = "open"
    /\ ackAll' = [phase |-> "sent", ids |-> {a \in Alerts : list[a] = "open"}]
    /\ ringing' = FALSE
    /\ UNCHANGED <<server, pushes, socketVars, list, hidden, load, memory, waiters, acks, faults>>

\* POST /fire/alerts/acknowledge-all with those ids; the updates of one transaction travel as one message.
AckAllArrives ==
    LET changed == {a \in ackAll.ids : server[a] = "open"}
    IN  /\ ackAll.phase = "sent"
        /\ server' = [a \in Alerts |-> IF a \in changed THEN "acked" ELSE server[a]]
        /\ ackAll' = [ackAll EXCEPT !.phase = "done"]
        /\ Push("updated", changed, "acked")
        /\ ringing' = FALSE
        /\ UNCHANGED <<socketVars, list, hidden, load, memory, waiters, acks, faults>>

\* Only what the operator could see is marked.
AckAllReturns ==
    /\ ackAll.phase = "done"
    /\ list' = [a \in Alerts |-> IF a \in ackAll.ids /\ list[a] = "open" THEN "acked" ELSE list[a]]
    /\ ackAll' = NoAckAll
    /\ ringing' = FALSE
    /\ UNCHANGED <<server, pushes, socketVars, hidden, load, memory, waiters, acks, faults>>

AckAllFails ==
    /\ ackAll.phase # "none"
    /\ Fault
    /\ ackAll' = NoAckAll
    /\ ringing' = FALSE
    /\ UNCHANGED <<server, pushes, socketVars, list, hidden, load, memory, waiters, acks>>

-----------------------------------------------------------------------------
(* The socket and the session.                                             *)

\* connect(), by the map page once it is mounted or by the reconnect timer.  It restarts the resync timer.
Connect ==
    /\ mapOpen /\ socket \in {"none", "closed"}
    /\ socket' = "connecting"
    /\ ringing' = FALSE
    /\ UNCHANGED <<server, pushes, session, mapOpen, everConnected, list, hidden, load, memory, waiters, requests, faults>>

\* The socket opens.  The first one pulls nothing, unless the page's own first loads had failed (catchUpOnOpen).
Opens(catchUp) ==
    /\ socket = "connecting"
    /\ socket' = "open"
    /\ everConnected' = TRUE
    /\ IF everConnected \/ catchUp
         THEN load' = NewLoad /\ waiters' = Superseded
         ELSE UNCHANGED <<load, waiters>>
    /\ ringing' = FALSE
    /\ UNCHANGED <<server, pushes, session, mapOpen, list, hidden, memory, requests, faults>>

\* An attempt fails, or the network, the backend or the machine's sleep ends the socket, any number of times; what was
\* under way is gone.
SocketCloses ==
    /\ socket \in {"connecting", "open"}
    /\ socket' = "closed"
    /\ pushes' = <<>>
    /\ ringing' = FALSE
    /\ UNCHANGED <<server, session, mapOpen, everConnected, list, hidden, load, memory, waiters, requests, faults>>

\* A message is lost without the browser noticing: the backend's LISTEN connection was down, or the socket half open.
PushLost ==
    /\ pushes # <<>>
    /\ pushes' = Tail(pushes)
    /\ ringing' = FALSE
    /\ UNCHANGED <<server, socketVars, list, hidden, load, memory, waiters, requests, faults>>

\* AppLayout mounts, after the login form or because a page is opened with a stored token, and loads the open alerts.
Login ==
    /\ ~session
    /\ session' = TRUE
    /\ load' = NewLoad
    /\ waiters' = Superseded
    /\ ringing' = FALSE
    /\ UNCHANGED <<server, pushes, mapOpen, socket, everConnected, list, hidden, memory, requests, faults>>

\* The map page mounts; from then on it is kept alive behind the other pages.
OpenMap ==
    /\ session /\ ~mapOpen
    /\ mapOpen' = TRUE
    /\ ringing' = FALSE
    /\ UNCHANGED <<server, pushes, session, socket, everConnected, list, hidden, load, memory, waiters, requests, faults>>

\* resetAlerts and disconnect.  Requests under way are not cancelled.
Logout ==
    /\ session
    /\ session' = FALSE /\ mapOpen' = FALSE /\ socket' = "none"
    /\ pushes' = <<>>
    /\ list' = Nothing /\ hidden' = FALSE
    /\ load' = NoLoad
    /\ loadedOnce' = FALSE /\ seen' = {} /\ rang' = {} /\ restored' = {}
    /\ waiters' = Superseded
    /\ ringing' = FALSE
    /\ UNCHANGED <<server, everConnected, requests, faults>>

-----------------------------------------------------------------------------
Next ==
    \/ \E a \in Alerts :
          \/ Raise(a) \/ AckElsewhere(a) \/ Resolve(a)
          \/ ClickAck(a) \/ AckArrives(a) \/ AckReturns(a) \/ AckFails(a)
    \/ \E ids \in SUBSET Alerts : Repeat(ids)
    \/ StartLoad \/ LoadReads \/ LoadLands \/ LoadFails
    \/ \E w \in waiters, reloaded \in BOOLEAN : SupersededReturns(w, reloaded)
    \/ Deliver
    \/ ClickAckAll \/ AckAllArrives \/ AckAllReturns \/ AckAllFails
    \/ Connect \/ SocketCloses \/ PushLost
    \/ \E catchUp \in BOOLEAN : Opens(catchUp)
    \/ Login \/ OpenMap \/ Logout

Spec == Init /\ [][Next]_vars

\* Every connect() restarts the resync timer, and after a failed attempt the next one follows in 3 s of its 45: the resync
\* is owed only where an attempt or an open socket lasts.
ResyncOwed == socket # "closed" /\ StartLoad

\* The map page connects and the reconnect timer fires, but nobody need let the socket open; requests are answered, and
\* some answer arrives before the next load replaces its own; messages under way arrive or are lost.
LiveSpec ==
    /\ Spec
    /\ WF_vars(Connect)
    /\ WF_vars(ResyncOwed)
    /\ WF_vars(LoadReads)
    /\ SF_vars(LoadLands)
    /\ WF_vars(Deliver)
    /\ WF_vars(AckAllArrives) /\ WF_vars(AckAllReturns)
    /\ \A a \in Alerts : WF_vars(AckArrives(a)) /\ WF_vars(AckReturns(a))

-----------------------------------------------------------------------------
(* Properties.                                                             *)

\* Every variable has its type, and no more than one repeat message waits for the newest load, while there is one.
TypeOK ==
    /\ server \in [Alerts -> {"none", "open", "acked", "resolved"}]
    /\ pushes \in Seq(Messages) /\ Len(pushes) <= MaxPushes
    /\ session \in BOOLEAN /\ mapOpen \in BOOLEAN /\ everConnected \in BOOLEAN
    /\ socket \in {"none", "connecting", "open", "closed"}
    /\ list \in [Alerts -> Shown]
    /\ hidden \in BOOLEAN
    /\ load \in [phase: {"none", "sent", "read"}, rows: [Alerts -> Shown], hidden: BOOLEAN, touched: SUBSET Alerts]
    /\ loadedOnce \in BOOLEAN
    /\ seen \subseteq Alerts /\ rang \subseteq Alerts /\ restored \subseteq Alerts
    /\ waiters \subseteq [ids: SUBSET Alerts, current: BOOLEAN]
    /\ \A w \in Current : load.phase # "none" /\ Current = {w}
    /\ acks \in [Alerts -> {"none", "sent", "acked", "resolved"}]
    /\ ackAll \in [phase: {"none", "sent", "done"}, ids: SUBSET Alerts]
    /\ ringing \in BOOLEAN
    /\ faults \in 0..MaxFaults

\* fire.js:378-379, 268: the list never shows an alert as acknowledged that still rings at the server, whatever order
\* loads, pushes and answers come in.
AckedIsAcked == \A a \in Alerts : list[a] = "acked" => server[a] \in {"acked", "resolved"}

\* fire.js:239-243, a lost push must not mean a silent alarm: every unacknowledged alert on the list was announced by a
\* tone, or restored by the first load of the session.
ToldOrRestored == \A a \in Alerts : list[a] = "open" => a \in rang \cup restored

\* The strengthening that makes the two inductive.  What is listed or under way about an alert never runs ahead of the
\* server; and an alert that a load listed without telling the operator was acknowledged by then, so no later load can
\* bring it back unacknowledged.
Raised(a) == server[a] # "none"
Past(a) == server[a] \in {"acked", "resolved"}
Backed(m) == \A a \in m.ids : Raised(a) /\ (m.kind = "updated" => Past(a))

ServerIsAhead ==
    /\ \A a \in Alerts : list[a] # "absent" \/ load.rows[a] # "absent" => Raised(a)
    /\ \A a \in Alerts : load.rows[a] = "acked" => Past(a)
    /\ \A i \in DOMAIN pushes : Backed(pushes[i])
    /\ \A a \in Alerts : acks[a] \in {"acked", "resolved"} => Past(a)
    /\ \A a \in ackAll.ids : Raised(a) /\ (ackAll.phase = "done" => Past(a))

SeenIsTold == \A a \in seen \ (rang \cup restored) : Past(a) /\ load.rows[a] # "open"

IInv == TypeOK /\ AckedIsAcked /\ ToldOrRestored /\ ServerIsAhead /\ SeenIsTold

\* What the server said of an alert is still on its way to the list.
NewsUnderWay(a) ==
    \/ \E i \in DOMAIN pushes : a \in pushes[i].ids /\ pushes[i].kind # "repeat"
    \/ acks[a] \in {"acked", "resolved"}

\* The socket is not open; the reconnect timer runs.
NotOpen == socket # "open"
Waiting == socket = "closed"

\* From some time on every attempt to open the socket fails.
KeepsFailing == <>[]NotOpen /\ []<>Waiting

\* The channel does not get stuck: with the map open, loads go on landing although resyncs, repeat messages and reconnects
\* replace each other's, also with a socket that drops again and again or an attempt that hangs, but not while every attempt
\* fails, since each restarts the resync timer; and no news of an alert is under way for ever.
LoadsGoOn ==
    /\ <>[]mapOpen => []<><<LoadLands>>_vars \/ KeepsFailing
    /\ \A a \in Alerts : []<>~NewsUnderWay(a)

\* With the map open: the server has the alert as resolved, or as open; the list does not show it, or shows it or says that
\* it is not complete.
StaysResolved(a) == mapOpen /\ server[a] = "resolved"
StaysOpen(a) == mapOpen /\ server[a] \in {"open", "acked"}
Unlisted(a) == list[a] = "absent"
Listed(a) == list[a] # "absent" \/ hidden

\* "Every failure mode self-heals" (useWebSocket.js:6-9), but for a socket that never opens again: an alert that is
\* resolved leaves the list for good, also one that a late answer brought back, as long as the session with its map lasts.
ResolvedLeaves == \A a \in Alerts : <>[]StaysResolved(a) => <>[]Unlisted(a) \/ KeepsFailing

\* BP-01, with the same exception: with the map open, an alert that stays open is listed in the end, or the list says that
\* it is not complete.
OpenIsShown == \A a \in Alerts : <>[]StaysOpen(a) => <>[]Listed(a) \/ KeepsFailing
=============================================================================
