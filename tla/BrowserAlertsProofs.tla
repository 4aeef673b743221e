------------------------- MODULE BrowserAlertsProofs -------------------------
(***************************************************************************)
(* The open-alert list for any set of alerts, any number of messages under *)
(* way and any number of faults: IInv (BrowserAlerts) is inductive, and the*)
(* list neither claims an acknowledgement the server does not have nor     *)
(* shows a live alert the operator was not told about; and while loads go  *)
(* on, it comes to show what is open and to drop what is resolved.         *)
(***************************************************************************)
EXTENDS BrowserAlerts, TLAPS

\* A load that starts leaves no message waiting for the one before it.
LEMMA SupersededFacts ==
  ASSUME TypeOK
  PROVE  /\ Superseded \subseteq [ids: SUBSET Alerts, current: BOOLEAN]
         /\ \A w \in Superseded : w.current = FALSE
<1>. DEFINE W == [ids: SUBSET Alerts, current: BOOLEAN]
<1>1. waiters \subseteq W
  BY DEF TypeOK
<1>2. \A w \in W : [w EXCEPT !.current = FALSE] \in W /\ [w EXCEPT !.current = FALSE].current = FALSE
  OBVIOUS
<1>. QED
  BY <1>1, <1>2 DEF Superseded

\* Then no message waits for the newest load.
LEMMA NobodyCurrent ==
  ASSUME TypeOK, waiters' = Superseded
  PROVE  waiters' \subseteq [ids: SUBSET Alerts, current: BOOLEAN] /\ Current' = {}
<1>1. \A w \in waiters' : w.current = FALSE
  BY SupersededFacts
<1>. QED
  BY <1>1, SupersededFacts DEF Current

\* The fault bound.
LEMMA FaultFacts == TypeOK /\ Fault => faults' \in 0..MaxFaults
BY BrowserAssumption DEF TypeOK, Fault

\* The empty queue is a queue.
LEMMA EmptyQueue ==
  /\ <<>> \in Seq(Messages)
  /\ Len(<<>>) <= MaxPushes
<1>1. <<>> \in Seq(Messages) /\ Len(<<>>) = 0
  OBVIOUS
<1>. QED
  BY <1>1, BrowserAssumption

\* No load, a new load, and the empty list are well-typed.
LEMMA Constants ==
  /\ Nothing \in [Alerts -> Shown]
  /\ NoLoad \in [phase: {"none", "sent", "read"}, rows: [Alerts -> Shown], hidden: BOOLEAN, touched: SUBSET Alerts]
  /\ NewLoad \in [phase: {"none", "sent", "read"}, rows: [Alerts -> Shown], hidden: BOOLEAN, touched: SUBSET Alerts]
  /\ NewLoad.phase = "sent"
  /\ \A a \in Alerts : NewLoad.rows[a] = "absent" /\ NoLoad.rows[a] = "absent" /\ Nothing[a] = "absent"
  /\ NoAckAll \in [phase: {"none", "sent", "done"}, ids: SUBSET Alerts]
  /\ NoAckAll.phase = "none"
BY DEF Nothing, NoLoad, NewLoad, NoAckAll, Shown

\* A message sent is a message, and there are never too many.
LEMMA PushFacts ==
  ASSUME TypeOK, NEW kind, NEW ids, NEW status, [kind |-> kind, ids |-> ids, status |-> status] \in Messages,
         Push(kind, ids, status)
  PROVE  pushes' \in Seq(Messages) /\ Len(pushes') <= MaxPushes
<1>. DEFINE m == [kind |-> kind, ids |-> ids, status |-> status]
<1>1. CASE UNCHANGED pushes
  BY <1>1 DEF TypeOK
<1>2. CASE Len(pushes) < MaxPushes /\ pushes' = Append(pushes, m)
  <2>. HIDE DEF m
  <2>1. m \in Messages
    BY DEF m
  <2>. QED
    BY <1>2, <2>1, BrowserAssumption DEF TypeOK
<1>. QED
  BY <1>1, <1>2 DEF Push

\* Removing the head of the queue leaves a queue.
LEMMA TailFacts ==
  ASSUME TypeOK, pushes # <<>>
  PROVE  /\ Tail(pushes) \in Seq(Messages) /\ Len(Tail(pushes)) <= MaxPushes
         /\ Head(pushes) \in Messages /\ Head(pushes) = pushes[1]
         /\ \A i \in DOMAIN Tail(pushes) : i + 1 \in DOMAIN pushes /\ Tail(pushes)[i] = pushes[i + 1]
<1>1. pushes \in Seq(Messages) /\ Len(pushes) <= MaxPushes
  BY DEF TypeOK
<1>. QED
  BY <1>1, BrowserAssumption

\* A push or an answer keeps the list and the load well-typed, and touches neither the phase nor the rows of the load.
LEMMA UpsertFacts ==
  ASSUME TypeOK, NEW ids \in SUBSET Alerts, NEW status \in {"open", "acked", "resolved"}, Upsert(ids, status)
  PROVE  /\ list' \in [Alerts -> Shown]
         /\ load' \in [phase: {"none", "sent", "read"}, rows: [Alerts -> Shown], hidden: BOOLEAN, touched: SUBSET Alerts]
         /\ load'.phase = load.phase /\ load'.rows = load.rows
BY DEF TypeOK, Upsert, Shown

\* What TypeOK says of the messages that wait for a load.
WaitersOK == /\ waiters \subseteq [ids: SUBSET Alerts, current: BOOLEAN]
             /\ \A w \in Current : load.phase # "none" /\ Current = {w}

\* Where the load keeps its phase, or is there anyway, as many messages wait for it as before.
LEMMA WaitersKept == TypeOK /\ load'.phase \in {load.phase, "read"} /\ waiters' = waiters => WaitersOK'
<1>. SUFFICES ASSUME TypeOK, load'.phase \in {load.phase, "read"}, waiters' = waiters PROVE WaitersOK'
  OBVIOUS
<1>1. Current' = Current
  BY DEF Current
<1>2. WaitersOK
  BY DEF TypeOK, WaitersOK
<1>. QED
  BY <1>1, <1>2 DEF WaitersOK

\* A step of the server alone changes its alerts and what is under way.
LEMMA ServerOnly ==
  ASSUME TypeOK, ServerStep, server' \in [Alerts -> {"none", "open", "acked", "resolved"}],
         pushes' \in Seq(Messages) /\ Len(pushes') <= MaxPushes
  PROVE  TypeOK'
<1>1. UNCHANGED <<session, mapOpen, everConnected, socket, list, hidden, load, loadedOnce, seen, rang, restored, waiters,
                  acks, ackAll, faults>> /\ ringing' = FALSE
  BY DEF ServerStep, socketVars, memory, requests
<1>2. WaitersOK'
  BY <1>1, WaitersKept
<1>3. /\ session' \in BOOLEAN /\ mapOpen' \in BOOLEAN /\ everConnected' \in BOOLEAN
      /\ socket' \in {"none", "connecting", "open", "closed"}
      /\ list' \in [Alerts -> Shown] /\ hidden' \in BOOLEAN
      /\ load' \in [phase: {"none", "sent", "read"}, rows: [Alerts -> Shown], hidden: BOOLEAN, touched: SUBSET Alerts]
  BY <1>1 DEF TypeOK
<1>4. /\ loadedOnce' \in BOOLEAN /\ seen' \subseteq Alerts /\ rang' \subseteq Alerts /\ restored' \subseteq Alerts
      /\ acks' \in [Alerts -> {"none", "sent", "acked", "resolved"}]
      /\ ackAll' \in [phase: {"none", "sent", "done"}, ids: SUBSET Alerts]
      /\ ringing' \in BOOLEAN /\ faults' \in 0..MaxFaults
  BY <1>1 DEF TypeOK
<1>. QED
  BY <1>2, <1>3, <1>4 DEF TypeOK, WaitersOK

\* The initial state is well-typed.
LEMMA TypeInit == Init => TypeOK
<1>. SUFFICES ASSUME Init PROVE TypeOK
  OBVIOUS
<1>1. pushes \in Seq(Messages) /\ Len(pushes) <= MaxPushes
  BY EmptyQueue DEF Init
<1>2. faults \in 0..MaxFaults
  BY BrowserAssumption DEF Init
<1>3. Current = {}
  BY DEF Init, Current
<1>. QED
  BY <1>1, <1>2, <1>3, Constants DEF Init, TypeOK

\* Every step keeps the types.
LEMMA TypeStep == TypeOK /\ [Next]_vars => TypeOK'
<1>. SUFFICES ASSUME TypeOK, [Next]_vars PROVE TypeOK'
  OBVIOUS
<1>. USE DEF socketVars, memory, requests
<1>1. ASSUME NEW a \in Alerts, Raise(a) PROVE TypeOK'
  <2>1. [kind |-> "alert", ids |-> {a}, status |-> "open"] \in Messages
    BY DEF Messages
  <2>2. pushes' \in Seq(Messages) /\ Len(pushes') <= MaxPushes
    BY <1>1, <2>1, PushFacts DEF Raise
  <2>3. server' \in [Alerts -> {"none", "open", "acked", "resolved"}]
    BY <1>1 DEF Raise, TypeOK
  <2>. QED
    BY <1>1, <2>2, <2>3, ServerOnly DEF Raise
<1>2. ASSUME NEW a \in Alerts, AckElsewhere(a) PROVE TypeOK'
  <2>1. [kind |-> "updated", ids |-> {a}, status |-> "acked"] \in Messages
    BY DEF Messages
  <2>2. pushes' \in Seq(Messages) /\ Len(pushes') <= MaxPushes
    BY <1>2, <2>1, PushFacts DEF AckElsewhere
  <2>3. server' \in [Alerts -> {"none", "open", "acked", "resolved"}]
    BY <1>2 DEF AckElsewhere, TypeOK
  <2>. QED
    BY <1>2, <2>2, <2>3, ServerOnly DEF AckElsewhere
<1>3. ASSUME NEW a \in Alerts, Resolve(a) PROVE TypeOK'
  <2>1. [kind |-> "updated", ids |-> {a}, status |-> "resolved"] \in Messages
    BY DEF Messages
  <2>2. pushes' \in Seq(Messages) /\ Len(pushes') <= MaxPushes
    BY <1>3, <2>1, PushFacts DEF Resolve
  <2>3. server' \in [Alerts -> {"none", "open", "acked", "resolved"}]
    BY <1>3 DEF Resolve, TypeOK
  <2>. QED
    BY <1>3, <2>2, <2>3, ServerOnly DEF Resolve
<1>4. ASSUME NEW ids \in SUBSET Alerts, Repeat(ids) PROVE TypeOK'
  <2>1. [kind |-> "repeat", ids |-> ids, status |-> "open"] \in Messages
    BY DEF Messages
  <2>2. pushes' \in Seq(Messages) /\ Len(pushes') <= MaxPushes
    BY <1>4, <2>1, PushFacts DEF Repeat
  <2>3. server' \in [Alerts -> {"none", "open", "acked", "resolved"}]
    BY <1>4 DEF Repeat, TypeOK
  <2>. QED
    BY <1>4, <2>2, <2>3, ServerOnly DEF Repeat
<1>5. CASE StartLoad
  BY <1>5, NobodyCurrent, Constants DEF StartLoad, TypeOK
<1>6. CASE LoadReads
  <2>1. PICK rows \in SUBSET OpenAlerts :
           load' = [load EXCEPT !.phase = "read",
                                !.rows = [a \in Alerts |-> IF a \in rows THEN server[a] ELSE "absent"],
                                !.hidden = (rows # OpenAlerts)]
    BY <1>6 DEF LoadReads
  <2>2. [a \in Alerts |-> IF a \in rows THEN server[a] ELSE "absent"] \in [Alerts -> Shown]
    BY DEF OpenAlerts, Shown
  <2>3. load' \in [phase: {"none", "sent", "read"}, rows: [Alerts -> Shown], hidden: BOOLEAN, touched: SUBSET Alerts]
        /\ load'.phase = "read"
    BY <2>1, <2>2 DEF TypeOK
  <2>7. load'.phase = "read" /\ waiters' = waiters
    BY <1>6, <2>3 DEF LoadReads
  <2>8. WaitersOK'
    BY <2>7, WaitersKept
  <2>. QED
    BY <1>6, <2>3, <2>8 DEF LoadReads, TypeOK, WaitersOK
<1>7. CASE LoadLands
  <2>1. Landed \in [Alerts -> Shown]
    BY DEF TypeOK, Landed, Shown
  <2>2. ringing' \in BOOLEAN
    BY <1>7 DEF LoadLands
  <2>3. waiters' \subseteq waiters /\ Current' = {}
    BY <1>7 DEF LoadLands, Current
  <2>4. seen' \subseteq Alerts /\ rang' \subseteq Alerts /\ restored' \subseteq Alerts /\ loadedOnce'
    BY <1>7 DEF LoadLands, Fresh, TypeOK
  <2>5. list' \in [Alerts -> Shown] /\ hidden' \in BOOLEAN
    BY <1>7, <2>1 DEF LoadLands, TypeOK
  <2>. QED
    BY <1>7, <2>2, <2>3, <2>4, <2>5, Constants DEF LoadLands, TypeOK
<1>8. CASE LoadFails
  <2>1. ringing' \in BOOLEAN
    BY <1>8 DEF LoadFails
  <2>2. waiters' \subseteq waiters /\ Current' = {}
    BY <1>8 DEF LoadFails, Current
  <2>. QED
    BY <1>8, <2>1, <2>2, Constants, FaultFacts DEF LoadFails, TypeOK
<1>9. ASSUME NEW w \in waiters, NEW reloaded \in BOOLEAN, SupersededReturns(w, reloaded) PROVE TypeOK'
  <2>1. ringing' \in BOOLEAN
    BY <1>9 DEF SupersededReturns, RepeatRings
  <2>2. waiters' \subseteq waiters /\ Current' = Current
    BY <1>9 DEF SupersededReturns, Current
  <2>3. faults' \in 0..MaxFaults
    BY <1>9, FaultFacts DEF SupersededReturns, TypeOK
  <2>. QED
    BY <1>9, <2>1, <2>2, <2>3 DEF SupersededReturns, TypeOK
<1>10. CASE Deliver
  <2>. DEFINE msg == Head(pushes)
  <2>1. msg \in Messages /\ pushes' \in Seq(Messages) /\ Len(pushes') <= MaxPushes
    BY <1>10, TailFacts DEF Deliver
  <2>2. msg.ids \in SUBSET Alerts /\ msg.status \in {"open", "acked", "resolved"}
    BY <2>1 DEF Messages
  <2>3. UNCHANGED <<server, socketVars, hidden, requests, faults>>
    BY <1>10 DEF Deliver
  <2>4. CASE ApplyFireAlert(msg.ids)
    <3>1. list' \in [Alerts -> Shown] /\ load'.phase = load.phase
          /\ load' \in [phase: {"none", "sent", "read"}, rows: [Alerts -> Shown], hidden: BOOLEAN, touched: SUBSET Alerts]
      BY <2>2, <2>4, UpsertFacts DEF ApplyFireAlert
    <3>7. load'.phase = load.phase /\ waiters' = waiters
      BY <2>1, <2>2, <2>3, <2>4, <3>1 DEF ApplyFireAlert
    <3>8. WaitersOK'
      BY <3>7, WaitersKept
    <3>. QED
      BY <2>1, <2>2, <2>3, <2>4, <3>1, <3>8 DEF ApplyFireAlert, TypeOK, WaitersOK
  <2>5. CASE ApplyFireAlertUpdated(msg.ids, msg.status)
    <3>1. list' \in [Alerts -> Shown] /\ load'.phase = load.phase
          /\ load' \in [phase: {"none", "sent", "read"}, rows: [Alerts -> Shown], hidden: BOOLEAN, touched: SUBSET Alerts]
      BY <2>2, <2>5, UpsertFacts DEF ApplyFireAlertUpdated
    <3>7. load'.phase = load.phase /\ waiters' = waiters
      BY <2>1, <2>2, <2>3, <2>5, <3>1 DEF ApplyFireAlertUpdated
    <3>8. WaitersOK'
      BY <3>7, WaitersKept
    <3>. QED
      BY <2>1, <2>2, <2>3, <2>5, <3>1, <3>8 DEF ApplyFireAlertUpdated, TypeOK, WaitersOK
  <2>6. CASE ApplyFireAlertRepeat(msg.ids)
    <3>1. CASE \E a \in msg.ids : list[a] = "absent"
      <4>1. load' = NewLoad /\ waiters' = Superseded \cup {[ids |-> msg.ids, current |-> TRUE]} /\ ringing' = FALSE
        BY <2>6, <3>1 DEF ApplyFireAlertRepeat
      <4>2. waiters' \subseteq [ids: SUBSET Alerts, current: BOOLEAN]
        <5>1. [ids |-> msg.ids, current |-> TRUE] \in [ids: SUBSET Alerts, current: BOOLEAN]
          BY <2>2
        <5>. HIDE DEF msg
        <5>. QED
          BY <4>1, <5>1, SupersededFacts
      <4>3. Current' = {[ids |-> msg.ids, current |-> TRUE]}
        <5>. DEFINE new == [ids |-> msg.ids, current |-> TRUE]
        <5>1. new.current = TRUE
          OBVIOUS
        <5>2. waiters' = Superseded \cup {new}
          BY <4>1
        <5>. HIDE DEF new
        <5>3. Current' = {new}
          BY <5>1, <5>2, SupersededFacts DEF Current
        <5>. QED
          BY <5>3 DEF new
      <4>. QED
        BY <2>1, <2>3, <2>6, <4>1, <4>2, <4>3, Constants DEF ApplyFireAlertRepeat, TypeOK
    <3>2. CASE ~\E a \in msg.ids : list[a] = "absent"
      <4>1. UNCHANGED <<load, waiters>> /\ ringing' \in BOOLEAN
        BY <2>6, <3>2 DEF ApplyFireAlertRepeat
      <4>7. load'.phase = load.phase /\ waiters' = waiters
        BY <2>1, <2>3, <2>6, <4>1 DEF ApplyFireAlertRepeat
      <4>8. WaitersOK'
        BY <4>7, WaitersKept
      <4>. QED
        BY <2>1, <2>3, <2>6, <4>1, <4>8 DEF ApplyFireAlertRepeat, TypeOK, WaitersOK
    <3>. QED
      BY <3>1, <3>2
  <2>. QED
    BY <1>10, <2>4, <2>5, <2>6 DEF Deliver
<1>11. ASSUME NEW a \in Alerts, ClickAck(a) PROVE TypeOK'
  <2>1. load'.phase = load.phase /\ waiters' = waiters
    BY <1>11 DEF ClickAck
  <2>2. WaitersOK'
    BY <2>1, WaitersKept
  <2>. QED
    BY <1>11, <2>2 DEF ClickAck, TypeOK, WaitersOK
<1>12. ASSUME NEW a \in Alerts, AckArrives(a) PROVE TypeOK'
  <2>1. [kind |-> "updated", ids |-> {a}, status |-> "acked"] \in Messages
    BY DEF Messages
  <2>2. pushes' \in Seq(Messages) /\ Len(pushes') <= MaxPushes
    BY <1>12, <2>1, PushFacts DEF AckArrives, TypeOK
  <2>3. server' \in [Alerts -> {"none", "open", "acked", "resolved"}]
    BY <1>12 DEF AckArrives, TypeOK
  <2>4. acks' \in [Alerts -> {"none", "sent", "acked", "resolved"}]
    BY <1>12, <2>3 DEF AckArrives, TypeOK
  <2>5. UNCHANGED <<socketVars, list, hidden, load, memory, waiters, ackAll, faults>> /\ ringing' = FALSE
    BY <1>12 DEF AckArrives
  <2>6. WaitersOK'
    BY <2>5, WaitersKept
  <2>. QED
    BY <2>2, <2>3, <2>4, <2>5, <2>6 DEF TypeOK, WaitersOK
<1>13. ASSUME NEW a \in Alerts, AckReturns(a) PROVE TypeOK'
  <2>1. list' \in [Alerts -> Shown] /\ load'.phase = load.phase
        /\ load' \in [phase: {"none", "sent", "read"}, rows: [Alerts -> Shown], hidden: BOOLEAN, touched: SUBSET Alerts]
    BY <1>13, UpsertFacts DEF AckReturns
  <2>2. acks' \in [Alerts -> {"none", "sent", "acked", "resolved"}]
    BY <1>13 DEF AckReturns, TypeOK
  <2>3. UNCHANGED <<server, pushes, socketVars, hidden, memory, waiters, ackAll, faults>> /\ ringing' = FALSE
    BY <1>13 DEF AckReturns
  <2>4. WaitersOK'
    BY <2>1, <2>3, WaitersKept
  <2>. QED
    BY <2>1, <2>2, <2>3, <2>4 DEF TypeOK, WaitersOK
<1>14. ASSUME NEW a \in Alerts, AckFails(a) PROVE TypeOK'
  <2>1. acks' \in [Alerts -> {"none", "sent", "acked", "resolved"}]
    BY <1>14 DEF AckFails, TypeOK
  <2>2. faults' \in 0..MaxFaults
    BY <1>14, FaultFacts DEF AckFails
  <2>3. UNCHANGED <<server, pushes, socketVars, list, hidden, load, memory, waiters, ackAll>> /\ ringing' = FALSE
    BY <1>14 DEF AckFails
  <2>4. WaitersOK'
    BY <2>3, WaitersKept
  <2>. QED
    BY <2>1, <2>2, <2>3, <2>4 DEF TypeOK, WaitersOK
<1>15. CASE ClickAckAll
  <2>1. load'.phase = load.phase /\ waiters' = waiters
    BY <1>15 DEF ClickAckAll
  <2>2. WaitersOK'
    BY <2>1, WaitersKept
  <2>. QED
    BY <1>15, <2>2 DEF ClickAckAll, TypeOK, WaitersOK
<1>16. CASE AckAllArrives
  <2>. DEFINE changed == {a \in ackAll.ids : server[a] = "open"}
  <2>1. [kind |-> "updated", ids |-> changed, status |-> "acked"] \in Messages
    BY DEF TypeOK, Messages
  <2>2. Push("updated", changed, "acked")
    BY <1>16 DEF AckAllArrives
  <2>3. pushes' \in Seq(Messages) /\ Len(pushes') <= MaxPushes
    BY <2>1, <2>2, PushFacts
  <2>4. server' \in [Alerts -> {"none", "open", "acked", "resolved"}]
    BY <1>16 DEF AckAllArrives, TypeOK
  <2>5. ackAll' \in [phase: {"none", "sent", "done"}, ids: SUBSET Alerts]
    BY <1>16 DEF AckAllArrives, TypeOK
  <2>6. UNCHANGED <<socketVars, list, hidden, load, memory, waiters, acks, faults>> /\ ringing' = FALSE
    BY <1>16 DEF AckAllArrives
  <2>7. WaitersOK'
    BY <2>6, WaitersKept
  <2>. QED
    BY <2>3, <2>4, <2>5, <2>6, <2>7 DEF TypeOK, WaitersOK
<1>17. CASE AckAllReturns
  <2>1. load'.phase = load.phase /\ waiters' = waiters
    BY <1>17 DEF AckAllReturns
  <2>2. WaitersOK'
    BY <2>1, WaitersKept
  <2>. QED
    BY <1>17, Constants, <2>2 DEF AckAllReturns, TypeOK, WaitersOK, Shown
<1>18. CASE AckAllFails
  <2>1. load'.phase = load.phase /\ waiters' = waiters
    BY <1>18 DEF AckAllFails
  <2>2. WaitersOK'
    BY <2>1, WaitersKept
  <2>. QED
    BY <1>18, Constants, FaultFacts, <2>2 DEF AckAllFails, TypeOK, WaitersOK
<1>18a. CASE Connect
  <2>1. load'.phase = load.phase /\ waiters' = waiters
    BY <1>18a DEF Connect
  <2>2. WaitersOK'
    BY <2>1, WaitersKept
  <2>. QED
    BY <1>18a, <2>2 DEF Connect, TypeOK, WaitersOK
<1>19. ASSUME NEW catchUp \in BOOLEAN, Opens(catchUp) PROVE TypeOK'
  <2>1. CASE load' = NewLoad /\ waiters' = Superseded
    BY <1>19, <2>1, NobodyCurrent, Constants DEF Opens, TypeOK
  <2>2. CASE UNCHANGED <<load, waiters>>
    <3>1. load'.phase = load.phase /\ waiters' = waiters
      BY <1>19, <2>2 DEF Opens
    <3>2. WaitersOK'
      BY <3>1, WaitersKept
    <3>. QED
      BY <1>19, <2>2, <3>2 DEF Opens, TypeOK, WaitersOK
  <2>. QED
    BY <1>19, <2>1, <2>2 DEF Opens
<1>20. CASE SocketCloses
  <2>1. load'.phase = load.phase /\ waiters' = waiters
    BY <1>20 DEF SocketCloses
  <2>2. WaitersOK'
    BY <2>1, WaitersKept
  <2>. QED
    BY <1>20, EmptyQueue, <2>2 DEF SocketCloses, TypeOK, WaitersOK
<1>21. CASE PushLost
  <2>1. pushes' \in Seq(Messages) /\ Len(pushes') <= MaxPushes
    BY <1>21, TailFacts DEF PushLost
  <2>2. UNCHANGED <<server, socketVars, list, hidden, load, memory, waiters, requests, faults>> /\ ringing' = FALSE
    BY <1>21 DEF PushLost
  <2>3. WaitersOK'
    BY <2>2, WaitersKept
  <2>. QED
    BY <2>1, <2>2, <2>3 DEF TypeOK, WaitersOK
<1>22. CASE Login
  BY <1>22, NobodyCurrent, Constants DEF Login, TypeOK
<1>23. CASE Logout
  BY <1>23, NobodyCurrent, EmptyQueue, Constants DEF Logout, TypeOK
<1>24. CASE OpenMap
  <2>1. load'.phase = load.phase /\ waiters' = waiters
    BY <1>24 DEF OpenMap
  <2>2. WaitersOK'
    BY <2>1, WaitersKept
  <2>. QED
    BY <1>24, <2>2 DEF OpenMap, TypeOK, WaitersOK
<1>25. CASE UNCHANGED vars
  <2>1. load'.phase = load.phase /\ waiters' = waiters
    BY <1>25 DEF vars
  <2>2. WaitersOK'
    BY <2>1, WaitersKept
  <2>. QED
    BY <1>25, <2>2 DEF vars, TypeOK, WaitersOK
<1>. QED
  BY <1>1, <1>2, <1>3, <1>4, <1>5, <1>6, <1>7, <1>8, <1>9, <1>10, <1>11, <1>12, <1>13, <1>14, <1>15, <1>16, <1>17,
     <1>18, <1>18a, <1>19, <1>20, <1>21, <1>22, <1>23, <1>24, <1>25 DEF Next

-----------------------------------------------------------------------------
(* Which actions change which variable.                                    *)

\* An alert only advances at the server.
LEMMA ServerAdvances ==
  TypeOK /\ [Next]_vars => \A a \in Alerts : (Raised(a) => Raised(a)') /\ (Past(a) => Past(a)')
<1>. SUFFICES ASSUME TypeOK, [Next]_vars, NEW b \in Alerts PROVE (Raised(b) => Raised(b)') /\ (Past(b) => Past(b)')
  OBVIOUS
<1>. USE DEF Raised, Past
<1>1. ASSUME NEW a \in Alerts, Raise(a) \/ AckElsewhere(a) \/ Resolve(a) \/ AckArrives(a)
      PROVE  (Raised(b) => Raised(b)') /\ (Past(b) => Past(b)')
  BY <1>1 DEF Raise, AckElsewhere, Resolve, AckArrives, TypeOK
<1>2. CASE AckAllArrives
  BY <1>2 DEF AckAllArrives, TypeOK
<1>3. CASE UNCHANGED server
  BY <1>3
<1>. QED
  BY <1>1, <1>2, <1>3 DEF Next, vars, Repeat, StartLoad, LoadReads, LoadLands, LoadFails, SupersededReturns, Deliver,
     ClickAck, AckReturns, AckFails, ClickAckAll, AckAllReturns, AckAllFails, Connect, Opens, SocketCloses, PushLost, Login, OpenMap, Logout

\* A message under way was under way before, or says what is now so.
LEMMA QueueChanges ==
  TypeOK /\ [Next]_vars =>
    \A i \in DOMAIN pushes' : (\E j \in DOMAIN pushes : pushes'[i] = pushes[j]) \/ Backed(pushes[i])'
<1>. SUFFICES ASSUME TypeOK, [Next]_vars
              PROVE  \A i \in DOMAIN pushes' : (\E j \in DOMAIN pushes : pushes'[i] = pushes[j]) \/ Backed(pushes[i])'
  OBVIOUS
<1>. DEFINE Old(i) == \E j \in DOMAIN pushes : pushes'[i] = pushes[j]
            Goal == \A i \in DOMAIN pushes' : Old(i) \/ Backed(pushes[i])'
<1>0. pushes \in Seq(Messages)
  BY DEF TypeOK
<1>1. ASSUME NEW kind, NEW ids, NEW status, Push(kind, ids, status),
             \A a \in ids : server'[a] # "none" /\ (kind = "updated" => server'[a] \in {"acked", "resolved"})
      PROVE  Goal
  <2>. DEFINE m == [kind |-> kind, ids |-> ids, status |-> status]
  <2>1. pushes' = pushes \/ pushes' = Append(pushes, m)
    BY <1>1 DEF Push
  <2>2. m.kind = kind /\ m.ids = ids
    OBVIOUS
  <2>. HIDE DEF m
  <2>3. \A i \in DOMAIN pushes' : Old(i) \/ pushes'[i] = m
    BY <1>0, <2>1
  <2>. QED
    BY <1>1, <2>2, <2>3 DEF Backed, Raised, Past
<1>2. ASSUME NEW a \in Alerts, Raise(a) PROVE Goal
  <2>1. server'[a] = "open" /\ Push("alert", {a}, "open")
    BY <1>2 DEF Raise, TypeOK
  <2>. QED
    BY <1>1, <2>1
<1>3. ASSUME NEW a \in Alerts, AckElsewhere(a) PROVE Goal
  <2>1. server'[a] = "acked" /\ Push("updated", {a}, "acked")
    BY <1>3 DEF AckElsewhere, TypeOK
  <2>. QED
    BY <1>1, <2>1
<1>4. ASSUME NEW a \in Alerts, Resolve(a) PROVE Goal
  <2>1. server'[a] = "resolved" /\ Push("updated", {a}, "resolved")
    BY <1>4 DEF Resolve, TypeOK
  <2>. QED
    BY <1>1, <2>1
<1>5. ASSUME NEW ids \in SUBSET Alerts, Repeat(ids) PROVE Goal
  <2>1. Push("repeat", ids, "open") /\ \A a \in ids : server'[a] = "open"
    BY <1>5 DEF Repeat
  <2>. QED
    BY <1>1, <2>1
<1>6. ASSUME NEW a \in Alerts, AckArrives(a) PROVE Goal
  <2>1. CASE server[a] = "open"
    <3>1. server'[a] = "acked" /\ Push("updated", {a}, "acked")
      BY <1>6, <2>1 DEF AckArrives, TypeOK
    <3>. QED
      BY <1>1, <3>1
  <2>2. CASE server[a] # "open"
    BY <1>6, <2>2 DEF AckArrives
  <2>. QED
    BY <2>1, <2>2
<1>7. ASSUME AckAllArrives PROVE Goal
  <2>. DEFINE changed == {a \in ackAll.ids : server[a] = "open"}
  <2>1. \A a \in changed : server'[a] = "acked"
    BY <1>7 DEF AckAllArrives, TypeOK
  <2>2. Push("updated", changed, "acked")
    BY <1>7 DEF AckAllArrives
  <2>. HIDE DEF changed
  <2>. QED
    BY <1>1, <2>1, <2>2
<1>8. ASSUME pushes # <<>>, pushes' = Tail(pushes) PROVE Goal
  BY <1>8, TailFacts
<1>9. ASSUME pushes' = <<>> \/ pushes' = pushes PROVE Goal
  BY <1>9
<1>. HIDE DEF Goal
<1>10. Goal
  <2>1. \/ AckAllArrives
        \/ pushes # <<>> /\ pushes' = Tail(pushes)
        \/ pushes' = <<>> \/ pushes' = pushes
        \/ \E a \in Alerts : Raise(a) \/ AckElsewhere(a) \/ Resolve(a) \/ AckArrives(a)
        \/ \E ids \in SUBSET Alerts : Repeat(ids)
    BY DEF Next, vars, StartLoad, LoadReads, LoadLands, LoadFails,
       SupersededReturns, Deliver, ClickAck, AckReturns, AckFails, ClickAckAll, AckAllReturns, AckAllFails, Connect, Opens,
       SocketCloses, PushLost, Login, OpenMap, Logout
  <2>. QED
    BY <1>2, <1>3, <1>4, <1>5, <1>6, <1>7, <1>8, <1>9, <2>1
<1>. QED
  BY <1>10 DEF Goal

\* The list changes where a load lands, a push or an answer arrives, or the session ends.
LEMMA ListChanges ==
  [Next]_vars => \/ UNCHANGED list
                 \/ LoadLands \/ Deliver \/ AckAllReturns \/ Logout
                 \/ \E a \in Alerts : AckReturns(a)
BY DEF Next, vars, ServerStep, Raise, AckElsewhere, Resolve, Repeat, StartLoad, LoadReads, LoadFails, SupersededReturns,
   ClickAck, AckArrives, AckFails, ClickAckAll, AckAllArrives, AckAllFails, Connect, Opens, SocketCloses, PushLost, Login, OpenMap

\* What was announced changes where a load lands or a push arrives, or the session ends.
LEMMA MemoryChanges ==
  [Next]_vars => \/ UNCHANGED <<seen, rang, restored>>
                 \/ LoadLands \/ Deliver \/ Logout
BY DEF memory, Next, vars, ServerStep, Raise, AckElsewhere, Resolve, Repeat, StartLoad, LoadReads, LoadFails,
   SupersededReturns, ClickAck, AckArrives, AckReturns, AckFails, ClickAckAll, AckAllArrives, AckAllReturns, AckAllFails,
   Connect, Opens, SocketCloses, PushLost, Login, OpenMap

\* A load has no rows until the server has read them.
LEMMA RowsChange ==
  TypeOK /\ [Next]_vars => \/ LoadReads
                           \/ load'.rows = load.rows
                           \/ \A a \in Alerts : load'.rows[a] = "absent"
<1>. SUFFICES ASSUME TypeOK, [Next]_vars
              PROVE  LoadReads \/ load'.rows = load.rows \/ \A a \in Alerts : load'.rows[a] = "absent"
  OBVIOUS
<1>1. CASE Deliver
  <2>1. Head(pushes) \in Messages
    BY <1>1, TailFacts DEF Deliver
  <2>2. Head(pushes).ids \in SUBSET Alerts /\ Head(pushes).status \in {"open", "acked", "resolved"}
    BY <2>1 DEF Messages
  <2>. QED
    BY <1>1, <2>2, UpsertFacts, Constants DEF Deliver, ApplyFireAlert, ApplyFireAlertUpdated, ApplyFireAlertRepeat
<1>2. ASSUME NEW a \in Alerts, AckReturns(a) PROVE load'.rows = load.rows
  BY <1>2, UpsertFacts DEF AckReturns
<1>3. CASE load' = load \/ load' = NewLoad \/ load' = NoLoad
  BY <1>3, Constants
<1>. QED
  BY <1>1, <1>2, <1>3 DEF Next, vars, ServerStep, Raise, AckElsewhere, Resolve, Repeat, StartLoad, LoadLands, LoadFails,
     SupersededReturns, ClickAck, AckArrives, AckFails, ClickAckAll, AckAllArrives, AckAllReturns, AckAllFails, Connect, Opens,
     SocketCloses, PushLost, Login, OpenMap, Logout

-----------------------------------------------------------------------------
(* The conjuncts of IInv.                                                  *)

\* What the head of the queue says is well-typed and so.
LEMMA HeadFacts ==
  ASSUME TypeOK, ServerIsAhead, pushes # <<>>
  PROVE  /\ Head(pushes).ids \in SUBSET Alerts /\ Head(pushes).status \in {"open", "acked", "resolved"}
         /\ Head(pushes).kind = "updated" => Head(pushes).status \in {"acked", "resolved"}
         /\ Backed(Head(pushes))
<1>1. Head(pushes) \in Messages /\ 1 \in DOMAIN pushes /\ Head(pushes) = pushes[1]
  <2>1. pushes \in Seq(Messages)
    BY DEF TypeOK
  <2>2. 1 \in DOMAIN pushes
    BY <2>1
  <2>. QED
    BY <2>2, TailFacts
<1>2. \A m \in Messages : /\ m.ids \in SUBSET Alerts /\ m.status \in {"open", "acked", "resolved"}
                          /\ m.kind = "updated" => m.status \in {"acked", "resolved"}
  BY DEF Messages
<1>. QED
  BY <1>1, <1>2 DEF ServerIsAhead

\* A list entry comes from the entry before it, from the rows of the load, from the head of the queue, or from an
\* acknowledgement.
LEMMA Entries ==
  ASSUME IInv, [Next]_vars, NEW b \in Alerts, list'[b] # "absent", list'[b] # list[b]
  PROVE  \/ LoadLands /\ list'[b] = load.rows[b]
         \/ LoadLands /\ list'[b] = "acked" /\ Past(b)
         \/ Deliver /\ ApplyFireAlert(Head(pushes).ids) /\ b \in Head(pushes).ids /\ Raised(b) /\ list'[b] = "open"
         \/ list'[b] = "acked" /\ Past(b)
<1>. USE DEF IInv
<1>1. CASE LoadLands
  <2>1. list'[b] = Landed[b]
    BY <1>1 DEF LoadLands
  <2>2. list'[b] = load.rows[b] \/ list[b] = "acked"
    BY <2>1 DEF Landed
  <2>3. list[b] = "acked" => list'[b] = "acked" \/ list'[b] = load.rows[b]
    BY <2>1 DEF Landed
  <2>. QED
    BY <1>1, <2>2, <2>3 DEF AckedIsAcked, Past
<1>2. CASE Deliver
  <2>. DEFINE m == Head(pushes)
  <2>0. pushes # <<>>
    BY <1>2 DEF Deliver
  <2>1. /\ m.ids \in SUBSET Alerts /\ m.status \in {"open", "acked", "resolved"} /\ Backed(m)
        /\ m.kind = "updated" => m.status \in {"acked", "resolved"}
    BY <2>0, HeadFacts
  <2>2. CASE ApplyFireAlert(m.ids)
    <3>1. b \in m.ids /\ (list'[b] = "open" \/ list'[b] = list[b])
      BY <2>2 DEF ApplyFireAlert, Upsert, TypeOK
    <3>2. Raised(b)
      BY <2>1, <3>1 DEF Backed
    <3>. QED
      BY <1>2, <2>2, <3>1, <3>2
  <2>3. CASE m.kind = "updated" /\ ApplyFireAlertUpdated(m.ids, m.status)
    <3>1. b \in m.ids /\ list'[b] = "acked"
      BY <2>1, <2>3 DEF ApplyFireAlertUpdated, Upsert, TypeOK
    <3>. QED
      BY <2>1, <2>3, <3>1 DEF Backed
  <2>4. CASE ApplyFireAlertRepeat(m.ids)
    BY <2>4 DEF ApplyFireAlertRepeat
  <2>. QED
    BY <1>2, <2>2, <2>3, <2>4 DEF Deliver
<1>3. ASSUME NEW a \in Alerts, AckReturns(a) PROVE list'[b] = "acked" /\ Past(b)
  <2>1. b = a /\ list'[b] = "acked"
    BY <1>3 DEF AckReturns, Upsert, TypeOK
  <2>. QED
    BY <1>3, <2>1 DEF AckReturns, ServerIsAhead
<1>4. CASE AckAllReturns
  BY <1>4 DEF AckAllReturns, ServerIsAhead, TypeOK
<1>5. CASE Logout
  BY <1>5, Constants DEF Logout
<1>. QED
  BY <1>1, <1>2, <1>3, <1>4, <1>5, ListChanges

\* An entry never claims an acknowledgement that the server does not have.
LEMMA AckedStep == IInv /\ [Next]_vars => AckedIsAcked'
<1>. SUFFICES ASSUME IInv, [Next]_vars, NEW b \in Alerts, list'[b] = "acked" PROVE Past(b)'
  BY DEF AckedIsAcked, Past
<1>1. CASE list'[b] = list[b]
  BY <1>1, ServerAdvances DEF IInv, AckedIsAcked, Past
<1>2. CASE list'[b] # list[b]
  <2>1. Past(b)
    BY <1>2, Entries DEF IInv, ServerIsAhead
  <2>. QED
    BY <2>1, ServerAdvances DEF IInv
<1>. QED
  BY <1>1, <1>2

\* The rows of a load are what the server had when it read them.
LEMMA RowsFacts ==
  ASSUME IInv, [Next]_vars, NEW b \in Alerts
  PROVE  load'.rows[b] = "absent" \/ load'.rows[b] = load.rows[b] \/ load'.rows[b] = server[b]
<1>1. CASE LoadReads
  <2>1. PICK rows \in SUBSET OpenAlerts :
           load' = [load EXCEPT !.phase = "read",
                                !.rows = [a \in Alerts |-> IF a \in rows THEN server[a] ELSE "absent"],
                                !.hidden = (rows # OpenAlerts)]
    BY <1>1 DEF LoadReads
  <2>2. load'.rows = [a \in Alerts |-> IF a \in rows THEN server[a] ELSE "absent"]
    BY <2>1 DEF IInv, TypeOK
  <2>. QED
    BY <2>2
<1>. QED
  BY <1>1, RowsChange DEF IInv

\* The rows that a load has just read name raised alerts only.
LEMMA RowsRaised ==
  ASSUME IInv, [Next]_vars, NEW b \in Alerts, load'.rows[b] # "absent"
  PROVE  Raised(b)
<1>1. CASE LoadReads
  <2>1. PICK rows \in SUBSET OpenAlerts :
           load' = [load EXCEPT !.phase = "read",
                                !.rows = [a \in Alerts |-> IF a \in rows THEN server[a] ELSE "absent"],
                                !.hidden = (rows # OpenAlerts)]
    BY <1>1 DEF LoadReads
  <2>2. load'.rows = [a \in Alerts |-> IF a \in rows THEN server[a] ELSE "absent"]
    BY <2>1 DEF IInv, TypeOK
  <2>. QED
    BY <2>2 DEF OpenAlerts, Raised
<1>. QED
  BY <1>1, RowsChange DEF IInv, ServerIsAhead

\* What is listed or under way never runs ahead of the server.
LEMMA AheadStep == IInv /\ [Next]_vars => ServerIsAhead'
<1>. SUFFICES ASSUME IInv, [Next]_vars PROVE ServerIsAhead'
  OBVIOUS
<1>. USE DEF IInv
<1>0. \A a \in Alerts : (Raised(a) => Raised(a)') /\ (Past(a) => Past(a)')
  BY ServerAdvances
<1>1. ASSUME NEW b \in Alerts, list'[b] # "absent" PROVE Raised(b)'
  <2>1. CASE list'[b] = list[b]
    BY <1>0, <1>1, <2>1 DEF ServerIsAhead
  <2>2. CASE list'[b] # list[b]
    <3>1. Past(b) => Raised(b)
      BY DEF Past, Raised
    <3>2. load.rows[b] # "absent" => Raised(b)
      BY DEF ServerIsAhead
    <3>. QED
      BY <1>0, <1>1, <2>2, <3>1, <3>2, Entries
  <2>. QED
    BY <2>1, <2>2
<1>2. ASSUME NEW b \in Alerts, load'.rows[b] # "absent" PROVE Raised(b)'
  BY <1>0, <1>2, RowsRaised
<1>3. ASSUME NEW b \in Alerts, load'.rows[b] = "acked" PROVE Past(b)'
  BY <1>0, <1>3, RowsFacts DEF ServerIsAhead, Past
<1>4. ASSUME NEW i \in DOMAIN pushes' PROVE Backed(pushes[i])'
  <2>1. CASE \E j \in DOMAIN pushes : pushes'[i] = pushes[j]
    <3>1. PICK j \in DOMAIN pushes : pushes'[i] = pushes[j]
      BY <2>1
    <3>2. pushes[j] \in Messages
      BY DEF TypeOK
    <3>3. pushes[j].ids \subseteq Alerts
      BY <3>2 DEF Messages
    <3>4. Backed(pushes[j])
      BY DEF ServerIsAhead
    <3>. QED
      BY <1>0, <3>1, <3>3, <3>4 DEF Backed
  <2>. QED
    BY <1>4, <2>1, QueueChanges
<1>5. ASSUME NEW b \in Alerts, acks'[b] \in {"acked", "resolved"} PROVE Past(b)'
  <2>1. CASE acks[b] \in {"acked", "resolved"}
    BY <1>0, <2>1 DEF ServerIsAhead
  <2>2. ASSUME NEW a \in Alerts, AckArrives(a) PROVE acks[b] \in {"acked", "resolved"} \/ Past(b)'
    BY <1>5, <2>2 DEF AckArrives, Past, TypeOK
  <2>3. ASSUME NEW a \in Alerts, ClickAck(a) \/ AckReturns(a) \/ AckFails(a) PROVE acks[b] \in {"acked", "resolved"}
    BY <1>5, <2>3 DEF ClickAck, AckReturns, AckFails, TypeOK
  <2>4. CASE UNCHANGED acks
    BY <1>5, <2>1, <2>4
  <2>. QED
    BY <2>1, <2>2, <2>3, <2>4 DEF requests, Next, vars, ServerStep, Raise, AckElsewhere, Resolve, Repeat, StartLoad,
       LoadReads, LoadLands, LoadFails, SupersededReturns, Deliver, ClickAckAll, AckAllArrives, AckAllReturns,
       AckAllFails, Connect, Opens, SocketCloses, PushLost, Login, OpenMap, Logout
<1>6. ASSUME NEW b \in ackAll'.ids PROVE Raised(b)' /\ (ackAll'.phase = "done" => Past(b)')
  <2>1. CASE UNCHANGED ackAll
    BY <1>0, <1>6, <2>1 DEF ServerIsAhead, TypeOK
  <2>2. CASE AckAllArrives
    <3>1. b \in ackAll.ids /\ b \in Alerts
      BY <1>6, <2>2 DEF AckAllArrives, TypeOK
    <3>2. server[b] # "none"
      BY <3>1 DEF ServerIsAhead, Raised
    <3>3. Past(b)'
      BY <2>2, <3>1, <3>2 DEF AckAllArrives, Past, TypeOK
    <3>. QED
      BY <3>3 DEF Past, Raised
  <2>3. CASE ClickAckAll
    <3>1. b \in Alerts /\ list[b] = "open" /\ ackAll'.phase = "sent"
      BY <1>6, <2>3 DEF ClickAckAll
    <3>. QED
      BY <1>0, <3>1 DEF ServerIsAhead
  <2>4. CASE ackAll' = NoAckAll
    BY <1>6, <2>4 DEF NoAckAll
  <2>. QED
    BY <2>1, <2>2, <2>3, <2>4 DEF requests, Next, vars, ServerStep, Raise, AckElsewhere, Resolve, Repeat, StartLoad,
       LoadReads, LoadLands, LoadFails, SupersededReturns, Deliver, ClickAck, AckArrives, AckReturns, AckFails,
       AckAllReturns, AckAllFails, Connect, Opens, SocketCloses, PushLost, Login, OpenMap, Logout
<1>. QED
  BY <1>1, <1>2, <1>3, <1>4, <1>5, <1>6 DEF ServerIsAhead

\* Once an alert was announced or restored it stays so within the session.
LEMMA ToldGrows ==
  ASSUME IInv, [Next]_vars, ~Logout
  PROVE  rang \cup restored \subseteq rang' \cup restored' /\ seen \subseteq seen'
<1>1. CASE LoadLands
  BY <1>1 DEF LoadLands
<1>2. CASE Deliver
  BY <1>2 DEF Deliver, memory, ApplyFireAlert, ApplyFireAlertUpdated, ApplyFireAlertRepeat
<1>. QED
  BY <1>1, <1>2, MemoryChanges

\* A load that lands tells the operator about every row that is fresh, at once or as history.
LEMMA LandingTells ==
  ASSUME IInv, LoadLands, NEW b \in Alerts, Landed[b] = "open"
  PROVE  b \in seen \cup rang' \cup restored'
BY DEF LoadLands, Fresh

\* An unacknowledged entry was announced by a tone or restored as history.
LEMMA ToldStep == IInv /\ [Next]_vars => ToldOrRestored'
<1>. SUFFICES ASSUME IInv, [Next]_vars, NEW b \in Alerts, list'[b] = "open" PROVE b \in rang' \cup restored'
  BY DEF ToldOrRestored
<1>0. ~Logout
  BY Constants DEF Logout
<1>1. CASE list'[b] = list[b]
  BY <1>0, <1>1, ToldGrows DEF IInv, ToldOrRestored
<1>2. CASE list'[b] # list[b]
  <2>1. CASE LoadLands /\ list'[b] = load.rows[b]
    <3>1. b \in seen \cup rang' \cup restored'
      BY <2>1, LandingTells DEF LoadLands
    <3>2. b \in seen => b \in rang \cup restored
      BY <2>1 DEF IInv, SeenIsTold
    <3>. QED
      BY <1>0, <3>1, <3>2, ToldGrows
  <2>2. CASE Deliver /\ ApplyFireAlert(Head(pushes).ids) /\ b \in Head(pushes).ids
    BY <2>2 DEF ApplyFireAlert
  <2>. QED
    BY <1>2, <2>1, <2>2, Entries
<1>. QED
  BY <1>1, <1>2

\* An alert that a load listed in silence was acknowledged by then.
LEMMA SeenStep == IInv /\ [Next]_vars => SeenIsTold'
<1>. SUFFICES ASSUME IInv, [Next]_vars, NEW b \in seen', b \notin rang' \cup restored'
              PROVE  Past(b)' /\ load'.rows[b] # "open"
  BY DEF SeenIsTold
<1>0. ~Logout
  BY DEF Logout
<1>1. b \notin rang \cup restored
  BY <1>0, ToldGrows
<1>2. CASE b \in seen
  <2>1. b \in Alerts /\ Past(b) /\ load.rows[b] # "open"
    BY <1>1, <1>2 DEF IInv, TypeOK, SeenIsTold
  <2>. QED
    BY <2>1, RowsFacts, ServerAdvances DEF IInv, Past
<1>3. CASE b \notin seen
  <2>1. LoadLands
    BY <1>0, <1>3, MemoryChanges DEF Deliver, memory, ApplyFireAlert, ApplyFireAlertUpdated, ApplyFireAlertRepeat
  <2>2. b \in Alerts /\ Landed[b] # "absent"
    BY <1>3, <2>1 DEF LoadLands
  <2>3. Landed[b] # "open"
    BY <1>3, <2>1, <2>2, LandingTells
  <2>4. list'[b] = "acked"
    <3>1. Landed[b] \in Shown
      BY <2>2 DEF IInv, TypeOK, Landed
    <3>. QED
      BY <2>1, <2>2, <2>3, <3>1 DEF LoadLands, Shown
  <2>5. Past(b)'
    BY <2>2, <2>4, AckedStep DEF AckedIsAcked, Past
  <2>. QED
    BY <2>1, <2>2, <2>5, Constants DEF LoadLands
<1>. QED
  BY <1>2, <1>3

-----------------------------------------------------------------------------
(* The theorems.                                                           *)

\* The inductive invariant holds in every reachable state.
THEOREM BrowserInvariance == Spec => []IInv
<1>1. Init => IInv
  <2>. SUFFICES ASSUME Init PROVE IInv
    OBVIOUS
  <2>1. TypeOK
    BY TypeInit
  <2>2. AckedIsAcked /\ ToldOrRestored
    BY Constants DEF Init, AckedIsAcked, ToldOrRestored
  <2>3. ServerIsAhead
    BY Constants DEF Init, ServerIsAhead, NoAckAll
  <2>4. SeenIsTold
    BY DEF Init, SeenIsTold
  <2>. QED
    BY <2>1, <2>2, <2>3, <2>4 DEF IInv
<1>2. IInv /\ [Next]_vars => IInv'
  BY TypeStep, AckedStep, ToldStep, AheadStep, SeenStep DEF IInv
<1>. QED
  BY <1>1, <1>2, PTL DEF Spec

\* Types, and that at most one repeat message waits for the newest load, while there is one (alertsSeq, fire.js:295-299).
THEOREM BrowserTypes == Spec => []TypeOK
<1>1. IInv => TypeOK
  BY DEF IInv
<1>. QED
  BY <1>1, BrowserInvariance, PTL

\* fire.js:268, 378-379: in any order of loads, pushes and answers, an alert shown as acknowledged is acknowledged.
THEOREM Acknowledged == Spec => []AckedIsAcked
<1>1. IInv => AckedIsAcked
  BY DEF IInv
<1>. QED
  BY <1>1, BrowserInvariance, PTL

\* fire.js:239-243: an unacknowledged alert on the list was announced by a tone or restored by the first load.
THEOREM Told == Spec => []ToldOrRestored
<1>1. IInv => ToldOrRestored
  BY DEF IInv
<1>. QED
  BY <1>1, BrowserInvariance, PTL

-----------------------------------------------------------------------------
(* The list converges while loads go on.                                   *)

\* Nothing says that an alert is resolved unless it is.
ResolvedSaid ==
    /\ \A i \in DOMAIN pushes : pushes[i].status = "resolved" => \A a \in pushes[i].ids : server[a] = "resolved"
    /\ \A a \in Alerts : acks[a] = "resolved" => server[a] = "resolved"

\* What changed since a load started is on the list, unless it was resolved.
TouchedIsListed == \A a \in load.touched : list[a] # "absent" \/ server[a] = "resolved"

\* A resolved alert stays resolved.
LEMMA ResolvedIsFinal ==
  ASSUME TypeOK, [Next]_vars, NEW b \in Alerts, server[b] = "resolved"
  PROVE  server'[b] = "resolved"
<1>1. ASSUME NEW a \in Alerts, Raise(a) \/ AckElsewhere(a) \/ Resolve(a) \/ AckArrives(a)
      PROVE  server'[b] = "resolved"
  BY <1>1 DEF Raise, AckElsewhere, Resolve, AckArrives, TypeOK
<1>2. CASE AckAllArrives
  BY <1>2 DEF AckAllArrives, TypeOK
<1>3. CASE UNCHANGED server
  BY <1>3
<1>. QED
  BY <1>1, <1>2, <1>3 DEF Next, vars, Repeat, StartLoad, LoadReads, LoadLands, LoadFails, SupersededReturns, Deliver,
     ClickAck, AckReturns, AckFails, ClickAckAll, AckAllReturns, AckAllFails, Connect, Opens, SocketCloses, PushLost, Login, OpenMap, Logout

\* A message under way was under way before, repeats an alert, or says what this step has changed at the server.
LEMMA NewsChanges ==
  ASSUME TypeOK, [Next]_vars
  PROVE  \A i \in DOMAIN pushes' :
           \/ \E j \in DOMAIN pushes : pushes'[i] = pushes[j]
           \/ pushes'[i].kind = "repeat" /\ pushes'[i].status = "open"
           \/ \A a \in pushes'[i].ids : /\ server'[a] # server[a]
                                        /\ pushes'[i].status = "resolved" => server'[a] = "resolved"
<1>. DEFINE Old(i) == \E j \in DOMAIN pushes : pushes'[i] = pushes[j]
            Says(kind, ids, status) ==
                \/ kind = "repeat" /\ status = "open"
                \/ \A a \in ids : server'[a] # server[a] /\ (status = "resolved" => server'[a] = "resolved")
            Goal == \A i \in DOMAIN pushes' : Old(i) \/ Says(pushes'[i].kind, pushes'[i].ids, pushes'[i].status)
<1>0. pushes \in Seq(Messages)
  BY DEF TypeOK
<1>1. ASSUME NEW kind, NEW ids, NEW status, Push(kind, ids, status), Says(kind, ids, status)
      PROVE  Goal
  <2>. DEFINE m == [kind |-> kind, ids |-> ids, status |-> status]
  <2>1. pushes' = pushes \/ pushes' = Append(pushes, m)
    BY <1>1 DEF Push
  <2>2. m.kind = kind /\ m.ids = ids /\ m.status = status
    OBVIOUS
  <2>. HIDE DEF m
  <2>3. \A i \in DOMAIN pushes' : Old(i) \/ pushes'[i] = m
    BY <1>0, <2>1
  <2>. QED
    BY <1>1, <2>2, <2>3
<1>2. ASSUME NEW a \in Alerts, Raise(a) PROVE Goal
  <2>1. server'[a] = "open" /\ server[a] = "none" /\ Push("alert", {a}, "open")
    BY <1>2 DEF Raise, TypeOK
  <2>. QED
    BY <1>1, <2>1
<1>3. ASSUME NEW a \in Alerts, AckElsewhere(a) PROVE Goal
  <2>1. server'[a] = "acked" /\ server[a] = "open" /\ Push("updated", {a}, "acked")
    BY <1>3 DEF AckElsewhere, TypeOK
  <2>. QED
    BY <1>1, <2>1
<1>4. ASSUME NEW a \in Alerts, Resolve(a) PROVE Goal
  <2>1. server'[a] = "resolved" /\ server[a] # "resolved" /\ Push("updated", {a}, "resolved")
    BY <1>4 DEF Resolve, TypeOK
  <2>. QED
    BY <1>1, <2>1
<1>5. ASSUME NEW ids \in SUBSET Alerts, Repeat(ids) PROVE Goal
  <2>1. Push("repeat", ids, "open")
    BY <1>5 DEF Repeat
  <2>. QED
    BY <1>1, <2>1
<1>6. ASSUME NEW a \in Alerts, AckArrives(a) PROVE Goal
  <2>1. CASE server[a] = "open"
    <3>1. server'[a] = "acked" /\ Push("updated", {a}, "acked")
      BY <1>6, <2>1 DEF AckArrives, TypeOK
    <3>. QED
      BY <1>1, <2>1, <3>1
  <2>2. CASE server[a] # "open"
    BY <1>6, <2>2 DEF AckArrives
  <2>. QED
    BY <2>1, <2>2
<1>7. ASSUME AckAllArrives PROVE Goal
  <2>. DEFINE changed == {a \in ackAll.ids : server[a] = "open"}
  <2>1. \A a \in changed : server'[a] = "acked" /\ server[a] = "open"
    BY <1>7 DEF AckAllArrives, TypeOK
  <2>2. Push("updated", changed, "acked")
    BY <1>7 DEF AckAllArrives
  <2>. HIDE DEF changed
  <2>. QED
    BY <1>1, <2>1, <2>2
<1>8. ASSUME pushes # <<>>, pushes' = Tail(pushes) PROVE Goal
  BY <1>8, TailFacts
<1>9. ASSUME pushes' = <<>> \/ pushes' = pushes PROVE Goal
  BY <1>9
<1>. HIDE DEF Goal
<1>10. Goal
  <2>1. \/ AckAllArrives
        \/ pushes # <<>> /\ pushes' = Tail(pushes)
        \/ pushes' = <<>> \/ pushes' = pushes
        \/ \E a \in Alerts : Raise(a) \/ AckElsewhere(a) \/ Resolve(a) \/ AckArrives(a)
        \/ \E ids \in SUBSET Alerts : Repeat(ids)
    BY DEF Next, vars, StartLoad, LoadReads, LoadLands, LoadFails,
       SupersededReturns, Deliver, ClickAck, AckReturns, AckFails, ClickAckAll, AckAllReturns, AckAllFails, Connect, Opens,
       SocketCloses, PushLost, Login, OpenMap, Logout
  <2>. QED
    BY <1>2, <1>3, <1>4, <1>5, <1>6, <1>7, <1>8, <1>9, <2>1
<1>. QED
  BY <1>10 DEF Goal

\* An answer to an acknowledgement is what the server had when the request arrived.
LEMMA AnswerChanges ==
  ASSUME TypeOK, [Next]_vars, NEW b \in Alerts
  PROVE  acks'[b] \in {"none", "sent"} \/ acks'[b] = acks[b] \/ acks'[b] = server'[b]
<1>1. ASSUME NEW a \in Alerts, AckArrives(a) \/ ClickAck(a) \/ AckReturns(a) \/ AckFails(a)
      PROVE  acks'[b] \in {"none", "sent"} \/ acks'[b] = acks[b] \/ acks'[b] = server'[b]
  BY <1>1 DEF AckArrives, ClickAck, AckReturns, AckFails, TypeOK
<1>2. CASE UNCHANGED acks
  BY <1>2
<1>. QED
  BY <1>1, <1>2 DEF requests, Next, vars, ServerStep, Raise, AckElsewhere, Resolve, Repeat, StartLoad, LoadReads, LoadLands,
     LoadFails, SupersededReturns, Deliver, ClickAckAll, AckAllArrives, AckAllReturns, AckAllFails, Connect, Opens, SocketCloses,
     PushLost, Login, OpenMap, Logout

\* What a push or an answer makes of an entry and of the load.
LEMMA UpsertEntry ==
  ASSUME TypeOK, NEW ids \in SUBSET Alerts, NEW status \in {"open", "acked", "resolved"}, Upsert(ids, status),
         NEW b \in Alerts
  PROVE  /\ b \notin ids => list'[b] = list[b]
         /\ b \in ids /\ status = "resolved" => list'[b] = "absent"
         /\ b \in ids /\ status # "resolved" => list'[b] # "absent"
         /\ load'.touched \subseteq load.touched \cup ids
BY DEF TypeOK, Upsert

\* It leaves what the load has read alone.
LEMMA UpsertFields ==
  ASSUME TypeOK, NEW ids \in SUBSET Alerts, NEW status \in {"open", "acked", "resolved"}, Upsert(ids, status)
  PROVE  load'.phase = load.phase /\ load'.rows = load.rows /\ load'.hidden = load.hidden
BY DEF TypeOK, Upsert

\* What this step may have heard about an alert.
Heard(b, resolved) ==
    \/ \E i \in DOMAIN pushes : b \in pushes[i].ids /\ pushes[i].kind # "repeat" /\ (pushes[i].status = "resolved" <=> resolved)
    \/ acks[b] = IF resolved THEN "resolved" ELSE "acked"

\* A listing has a row for every open alert, or says that there are more.
LEMMA ReadFacts ==
  ASSUME TypeOK, LoadReads
  PROVE  /\ load'.phase = "read" /\ load'.touched = load.touched
         /\ \A a \in Alerts : load'.rows[a] # "absent" => server[a] \in {"open", "acked"}
         /\ \A a \in Alerts : server[a] \in {"open", "acked"} => load'.rows[a] # "absent" \/ load'.hidden
<1>1. PICK rows \in SUBSET OpenAlerts :
         load' = [load EXCEPT !.phase = "read",
                              !.rows = [a \in Alerts |-> IF a \in rows THEN server[a] ELSE "absent"],
                              !.hidden = (rows # OpenAlerts)]
  BY DEF LoadReads
<1>2. /\ load'.phase = "read" /\ load'.touched = load.touched
      /\ load'.rows = [a \in Alerts |-> IF a \in rows THEN server[a] ELSE "absent"]
  BY <1>1 DEF TypeOK
<1>3. load'.hidden = (rows # OpenAlerts)
  BY <1>1, Zenon DEF TypeOK
<1>4. rows # OpenAlerts => load'.hidden
  BY <1>3
<1>. QED
  BY <1>2, <1>4 DEF OpenAlerts

\* Where an entry and its mark in the load come from.
LEMMA EntryStep ==
  ASSUME IInv, [Next]_vars, NEW b \in Alerts
  PROVE  \/ LoadLands \/ Logout
         \/ list'[b] = list[b] /\ (b \in load'.touched => b \in load.touched)
         \/ list[b] # "absent" /\ list'[b] # "absent" /\ (b \in load'.touched => b \in load.touched)
         \/ list'[b] = "absent" /\ Heard(b, TRUE)
         \/ list'[b] # "absent" /\ Heard(b, FALSE)
<1>. USE DEF IInv
<1>1. CASE Deliver
  <2>. DEFINE m == Head(pushes)
  <2>0. pushes # <<>> /\ pushes \in Seq(Messages)
    BY <1>1 DEF Deliver, TypeOK
  <2>1. /\ m.ids \in SUBSET Alerts /\ m.status \in {"open", "acked", "resolved"}
        /\ m.kind = "updated" => m.status \in {"acked", "resolved"}
    BY <2>0, HeadFacts
  <2>2. 1 \in DOMAIN pushes /\ m = pushes[1] /\ m \in Messages
    <3>1. 1 \in DOMAIN pushes
      BY <2>0
    <3>. QED
      BY <2>0, <3>1, TailFacts
  <2>3. m.kind = "alert" => m.status = "open"
    BY <2>2 DEF Messages
  <2>4. CASE m.kind = "alert" /\ ApplyFireAlert(m.ids)
    <3>1. Upsert(m.ids, "open")
      BY <2>4 DEF ApplyFireAlert
    <3>2. /\ b \notin m.ids => list'[b] = list[b]
          /\ b \in m.ids => list'[b] # "absent"
          /\ load'.touched \subseteq load.touched \cup m.ids
      BY <2>1, <3>1, UpsertEntry
    <3>3. b \in m.ids => Heard(b, FALSE)
      BY <2>2, <2>3, <2>4 DEF Heard
    <3>. QED
      BY <3>2, <3>3
  <2>5. CASE m.kind = "updated" /\ ApplyFireAlertUpdated(m.ids, m.status)
    <3>1. Upsert(m.ids, m.status)
      BY <2>5 DEF ApplyFireAlertUpdated
    <3>. HIDE DEF m
    <3>2. /\ b \notin m.ids => list'[b] = list[b]
          /\ b \in m.ids /\ m.status = "resolved" => list'[b] = "absent"
          /\ b \in m.ids /\ m.status # "resolved" => list'[b] # "absent"
          /\ load'.touched \subseteq load.touched \cup m.ids
      BY <2>1, <3>1, UpsertEntry
    <3>3. b \in m.ids /\ m.status = "resolved" => Heard(b, TRUE)
      BY <2>2, <2>5 DEF Heard
    <3>4. b \in m.ids /\ m.status # "resolved" => Heard(b, FALSE)
      BY <2>2, <2>5 DEF Heard
    <3>. QED
      BY <3>2, <3>3, <3>4
  <2>6. CASE ApplyFireAlertRepeat(m.ids)
    <3>1. list' = list /\ (load' = load \/ load' = NewLoad)
      BY <2>6 DEF ApplyFireAlertRepeat
    <3>. QED
      BY <3>1 DEF NewLoad, NoLoad
  <2>. QED
    BY <1>1, <2>4, <2>5, <2>6 DEF Deliver
<1>2. ASSUME NEW a \in Alerts, AckReturns(a)
      PROVE  \/ list'[b] = list[b] /\ (b \in load'.touched => b \in load.touched)
             \/ list'[b] = "absent" /\ Heard(b, TRUE)
             \/ list'[b] # "absent" /\ Heard(b, FALSE)
  <2>1. Upsert({a}, acks[a]) /\ acks[a] \in {"acked", "resolved"}
    BY <1>2 DEF AckReturns
  <2>2. /\ b # a => list'[b] = list[b]
        /\ b = a /\ acks[a] = "resolved" => list'[b] = "absent"
        /\ b = a /\ acks[a] # "resolved" => list'[b] # "absent"
        /\ load'.touched \subseteq load.touched \cup {a}
    BY <2>1, UpsertEntry
  <2>. QED
    BY <2>1, <2>2 DEF Heard
<1>3. CASE AckAllReturns
  BY <1>3 DEF AckAllReturns, TypeOK
<1>4. CASE UNCHANGED list /\ (load' = NewLoad \/ load' = NoLoad \/ load' = load \/ LoadReads)
  <2>1. load'.touched \subseteq load.touched
    BY <1>4, ReadFacts DEF NewLoad, NoLoad
  <2>. QED
    BY <1>4, <2>1
<1>. QED
  BY <1>1, <1>2, <1>3, <1>4 DEF Next, vars, ServerStep, Raise, AckElsewhere, Resolve, Repeat, StartLoad, LoadReads, LoadFails,
     SupersededReturns, ClickAck, AckArrives, AckFails, ClickAckAll, AckAllArrives, AckAllFails, Connect, Opens, SocketCloses,
     PushLost, Login, OpenMap

\* What the newest load has read changes where the server reads or another load takes its place.
LEMMA LoadStep ==
  ASSUME IInv, [Next]_vars
  PROVE  \/ LoadReads \/ load' = NewLoad \/ load' = NoLoad
         \/ load'.phase = load.phase /\ load'.rows = load.rows /\ load'.hidden = load.hidden
<1>. USE DEF IInv
<1>1. CASE Deliver
  <2>1. /\ Head(pushes).ids \in SUBSET Alerts /\ Head(pushes).status \in {"open", "acked", "resolved"}
    BY <1>1, HeadFacts DEF Deliver
  <2>. QED
    BY <1>1, <2>1, UpsertFields DEF Deliver, ApplyFireAlert, ApplyFireAlertUpdated, ApplyFireAlertRepeat
<1>2. ASSUME NEW a \in Alerts, AckReturns(a)
      PROVE  load'.phase = load.phase /\ load'.rows = load.rows /\ load'.hidden = load.hidden
  BY <1>2, UpsertFields DEF AckReturns
<1>. QED
  BY <1>1, <1>2 DEF Next, vars, ServerStep, Raise, AckElsewhere, Resolve, Repeat, StartLoad, LoadLands, LoadFails,
     SupersededReturns, ClickAck, AckArrives, AckFails, ClickAckAll, AckAllArrives, AckAllReturns, AckAllFails, Connect, Opens,
     SocketCloses, PushLost, Login, OpenMap, Logout

\* ResolvedSaid and TouchedIsListed are inductive, given IInv.
LEMMA SaidStep == IInv /\ ResolvedSaid /\ [Next]_vars => ResolvedSaid'
<1>. SUFFICES ASSUME IInv, ResolvedSaid, [Next]_vars PROVE ResolvedSaid'
  OBVIOUS
<1>. USE DEF IInv
<1>1. ASSUME NEW i \in DOMAIN pushes', pushes'[i].status = "resolved", NEW a \in pushes'[i].ids
      PROVE  server'[a] = "resolved"
  <2>1. CASE \E j \in DOMAIN pushes : pushes'[i] = pushes[j]
    <3>1. PICK j \in DOMAIN pushes : pushes'[i] = pushes[j]
      BY <2>1
    <3>2. pushes[j] \in Messages
      BY DEF TypeOK
    <3>3. a \in Alerts /\ server[a] = "resolved"
      BY <1>1, <3>1, <3>2 DEF ResolvedSaid, Messages
    <3>. QED
      BY <3>3, ResolvedIsFinal
  <2>. QED
    BY <1>1, <2>1, NewsChanges
<1>2. ASSUME NEW a \in Alerts, acks'[a] = "resolved"
      PROVE  server'[a] = "resolved"
  BY <1>2, AnswerChanges, ResolvedIsFinal DEF ResolvedSaid
<1>. QED
  BY <1>1, <1>2 DEF ResolvedSaid

LEMMA ListedStep == IInv /\ ResolvedSaid /\ TouchedIsListed /\ [Next]_vars => TouchedIsListed'
<1>. SUFFICES ASSUME IInv, ResolvedSaid, TouchedIsListed, [Next]_vars, NEW b \in load'.touched, server'[b] # "resolved"
              PROVE  list'[b] # "absent"
  BY DEF TouchedIsListed
<1>0. b \in Alerts
  <2>1. TypeOK'
    BY TypeStep DEF IInv
  <2>. QED
    BY <2>1 DEF TypeOK
<1>1. server[b] # "resolved"
  BY <1>0, ResolvedIsFinal DEF IInv
<1>2. ~LoadLands /\ ~Logout
  <2>1. load' # NoLoad
    BY DEF NoLoad
  <2>. QED
    BY <2>1 DEF LoadLands, Logout
<1>3. ~Heard(b, TRUE)
  BY <1>0, <1>1 DEF Heard, ResolvedSaid
<1>4. b \in load.touched => list[b] # "absent"
  BY <1>1 DEF TouchedIsListed
<1>. QED
  BY <1>0, <1>2, <1>3, <1>4, EntryStep

\* In every reachable state: nothing but the resolution of an alert says that it is resolved, and a load leaves out no open
\* alert that changed while it ran (alertsLog, fire.js).
THEOREM SaidInvariance == Spec => [](ResolvedSaid /\ TouchedIsListed)
<1>1. Init => ResolvedSaid /\ TouchedIsListed
  BY DEF Init, ResolvedSaid, TouchedIsListed, NoLoad
<1>. QED
  BY <1>1, SaidStep, ListedStep, BrowserInvariance, PTL DEF Spec

Settled == IInv /\ ResolvedSaid /\ TouchedIsListed

\* A step that ends no session.
LEMMA Stays ==
  ASSUME [Next]_vars, mapOpen'
  PROVE  ~Logout
BY DEF Logout

\* The newest load, once it has read, has a row for the alert or says that there are more.
HasRow(a) == load.phase = "read" => load.rows[a] # "absent" \/ load.hidden

LEMMA RowStays ==
  ASSUME Settled, [Next]_vars, NEW a \in Alerts, StaysOpen(a), HasRow(a)
  PROVE  HasRow(a)'
<1>1. LoadReads => HasRow(a)'
  BY ReadFacts DEF Settled, IInv, HasRow, StaysOpen
<1>2. load' = NewLoad \/ load' = NoLoad => HasRow(a)'
  BY DEF NewLoad, NoLoad, HasRow
<1>. QED
  BY <1>1, <1>2, LoadStep DEF Settled, HasRow

LEMMA LoadLists ==
  ASSUME Settled, LoadLands, NEW a \in Alerts, StaysOpen(a), HasRow(a)
  PROVE  Listed(a)'
<1>1. list'[a] = Landed[a] /\ hidden' = load.hidden /\ load.phase = "read"
  BY DEF LoadLands
<1>2. a \in load.touched => list[a] # "absent"
  BY DEF Settled, TouchedIsListed, StaysOpen
<1>. QED
  BY <1>1, <1>2 DEF Landed, Listed, HasRow

LEMMA ListedStays ==
  ASSUME Settled, [Next]_vars, NEW a \in Alerts, StaysOpen(a), StaysOpen(a)', HasRow(a), Listed(a)
  PROVE  Listed(a)'
<1>1. ~Logout
  BY Stays DEF StaysOpen
<1>2. ~Heard(a, TRUE)
  BY DEF Heard, Settled, ResolvedSaid, StaysOpen
<1>3. ~LoadLands => hidden' = hidden
  BY <1>1 DEF Next, vars, ServerStep, Raise, AckElsewhere, Resolve, Repeat, StartLoad, LoadReads, LoadFails,
     SupersededReturns, Deliver, ClickAck, AckArrives, AckReturns, AckFails, ClickAckAll, AckAllArrives, AckAllReturns,
     AckAllFails, Connect, Opens, SocketCloses, PushLost, Login, OpenMap
<1>4. LoadLands => Listed(a)'
  BY LoadLists
<1>. QED
  BY <1>1, <1>2, <1>3, <1>4, EntryStep DEF Settled, Listed

\* BP-01 (stores/fire.js): with the map open and loads landing, an alert that stays open comes to be listed, or the list
\* to say that it is not complete, for good: no push, answer or late load takes it away again.  Only a socket that never
\* opens again and keeps restarting the resync timer (useWebSocket.js:96-97) stands in the way.
THEOREM OpenComesToShow == Spec /\ LoadsGoOn => OpenIsShown
<1>. SUFFICES ASSUME NEW a \in Alerts
              PROVE  Spec /\ LoadsGoOn => (<>[]StaysOpen(a) => <>[]Listed(a) \/ KeepsFailing)
  BY DEF OpenIsShown
<1>1. <<LoadLands>>_vars => HasRow(a)'
  BY DEF LoadLands, NoLoad, HasRow
<1>2. Settled /\ [Next]_vars /\ StaysOpen(a) /\ HasRow(a) => HasRow(a)'
  BY RowStays
<1>3. Settled /\ <<LoadLands>>_vars /\ StaysOpen(a) /\ HasRow(a) => Listed(a)'
  BY LoadLists
<1>4. Settled /\ [Next]_vars /\ StaysOpen(a) /\ StaysOpen(a)' /\ HasRow(a) /\ Listed(a) => Listed(a)'
  BY ListedStays
<1>5. StaysOpen(a) => mapOpen
  BY DEF StaysOpen
<1>6. Spec => [][Next]_vars
  BY PTL DEF Spec
<1>7. Spec => []Settled
  BY BrowserInvariance, SaidInvariance, PTL DEF Settled
<1>8. LoadsGoOn => (<>[]mapOpen => []<><<LoadLands>>_vars \/ KeepsFailing)
  BY DEF LoadsGoOn
<1>. QED
  BY <1>1, <1>2, <1>3, <1>4, <1>5, <1>6, <1>7, <1>8, PTL

\* All that is still to come about a resolved alert is that it is resolved.
NoOldNews(a) ==
    /\ \A i \in DOMAIN pushes : a \in pushes[i].ids => pushes[i].kind = "repeat"
    /\ acks[a] # "acked"

\* Neither the newest load nor the list's entry that it would keep brings the alert back.
Dropped(a) == load.rows[a] = "absent" /\ (a \in load.touched => Unlisted(a))

LEMMA NoOldNewsStays ==
  ASSUME Settled, [Next]_vars, NEW a \in Alerts, StaysResolved(a), NoOldNews(a)
  PROVE  NoOldNews(a)'
<1>1. TypeOK /\ server[a] = "resolved" /\ server'[a] = "resolved"
  BY ResolvedIsFinal DEF Settled, IInv, StaysResolved
<1>2. \A i \in DOMAIN pushes' : a \in pushes'[i].ids => pushes'[i].kind = "repeat"
  BY <1>1, NewsChanges DEF NoOldNews
<1>3. acks'[a] # "acked"
  BY <1>1, AnswerChanges DEF NoOldNews
<1>. QED
  BY <1>2, <1>3 DEF NoOldNews

LEMMA UnheardOpen ==
  ASSUME Settled, [Next]_vars, NEW a \in Alerts, NoOldNews(a)
  PROVE  ~Heard(a, FALSE)
BY DEF Heard, NoOldNews

LEMMA DroppedStays ==
  ASSUME Settled, [Next]_vars, NEW a \in Alerts, StaysResolved(a), StaysResolved(a)', NoOldNews(a), Dropped(a)
  PROVE  Dropped(a)'
<1>1. ~Logout
  BY Stays DEF StaysResolved
<1>2. load' = NewLoad \/ load' = NoLoad => Dropped(a)'
  BY DEF NewLoad, NoLoad, Nothing, Dropped
<1>3. LoadLands => load' = NoLoad
  BY DEF LoadLands
<1>4. load'.rows[a] = "absent"
  <2>1. LoadReads => load'.rows[a] = "absent"
    BY ReadFacts DEF Settled, IInv, StaysResolved
  <2>. QED
    BY <1>2, <2>1, LoadStep DEF Settled, Dropped
<1>. QED
  BY <1>1, <1>2, <1>3, <1>4, EntryStep, UnheardOpen DEF Settled, Dropped, Unlisted

LEMMA UnlistedStays ==
  ASSUME Settled, [Next]_vars, NEW a \in Alerts, StaysResolved(a), StaysResolved(a)', NoOldNews(a), Dropped(a),
         Unlisted(a) \/ LoadLands
  PROVE  Unlisted(a)'
<1>1. LoadLands => Unlisted(a)'
  <2>1. LoadLands => list'[a] = Landed[a]
    BY DEF LoadLands
  <2>. QED
    BY <2>1 DEF Landed, Dropped, Unlisted
<1>2. ~Logout
  BY Stays DEF StaysResolved
<1>. QED
  BY <1>1, <1>2, EntryStep, UnheardOpen DEF Settled, Unlisted

\* useWebSocket.js:6-9: with the map open, loads landing and no news under way for ever, an alert that is resolved leaves
\* the list for good, also one that a late push, answer or load had brought back; with the same exception.
THEOREM ResolvedComesToLeave == Spec /\ LoadsGoOn => ResolvedLeaves
<1>. SUFFICES ASSUME NEW a \in Alerts
              PROVE  Spec /\ LoadsGoOn => (<>[]StaysResolved(a) => <>[]Unlisted(a) \/ KeepsFailing)
  BY DEF ResolvedLeaves
<1>1. ~NewsUnderWay(a) => NoOldNews(a)
  BY DEF NewsUnderWay, NoOldNews
<1>2. Settled /\ [Next]_vars /\ StaysResolved(a) /\ NoOldNews(a) => NoOldNews(a)'
  BY NoOldNewsStays
<1>3. <<LoadLands>>_vars => Dropped(a)'
  BY DEF LoadLands, NoLoad, Nothing, Dropped
<1>4. Settled /\ [Next]_vars /\ StaysResolved(a) /\ StaysResolved(a)' /\ NoOldNews(a) /\ Dropped(a) => Dropped(a)'
  BY DroppedStays
<1>5. Settled /\ [Next]_vars /\ StaysResolved(a) /\ StaysResolved(a)' /\ NoOldNews(a) /\ Dropped(a)
      /\ (Unlisted(a) \/ <<LoadLands>>_vars) => Unlisted(a)'
  BY UnlistedStays
<1>6. StaysResolved(a) => mapOpen
  BY DEF StaysResolved
<1>7. Spec => [][Next]_vars
  BY PTL DEF Spec
<1>8. Spec => []Settled
  BY BrowserInvariance, SaidInvariance, PTL DEF Settled
<1>9. LoadsGoOn => (<>[]mapOpen => []<><<LoadLands>>_vars \/ KeepsFailing) /\ []<>~NewsUnderWay(a)
  BY DEF LoadsGoOn
<1>. QED
  BY <1>1, <1>2, <1>3, <1>4, <1>5, <1>6, <1>7, <1>8, <1>9, PTL
=============================================================================
