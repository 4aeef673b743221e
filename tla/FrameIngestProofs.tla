-------------------------- MODULE FrameIngestProofs --------------------------
(***************************************************************************)
(* Safety of the frame reader for any set of devices, any number of events *)
(* and any number of failures: IInv (FrameIngest) is inductive, and the    *)
(* invariants the runs check are among its conjuncts.                      *)
(***************************************************************************)
EXTENDS FrameIngest, TLAPS

\* The reader can tell a frame from no frame: a frame has an event.
LEMMA FrameFields == \A f \in Frames : f # NoFrame
BY DEF Frames, NoFrame

\* What a device sends.
Sending == [event: 0..MaxEvents, sos: BOOLEAN, fix: BOOLEAN,
            outcome: {"pending", "stored", "dropped"}, confirmed: BOOLEAN]

\* Recording the outcome of an event leaves what the device sends well-formed.
LEMMA OutcomeEffect ==
    ASSUME sending \in [Devices -> Sending], frame \in Frames, NEW what \in {"stored", "dropped"}
    PROVE  /\ Outcome(what) \in [Devices -> Sending]
           /\ \A d \in Devices : /\ Outcome(what)[d].confirmed = sending[d].confirmed
                                /\ Outcome(what)[d].event = sending[d].event
<1>. DEFINE d == frame.dev
            s == [sending[d] EXCEPT !.outcome = what]
<1>1. d \in Devices
  BY DEF Frames
<1>2. s \in Sending /\ s.confirmed = sending[d].confirmed /\ s.event = sending[d].event
  BY <1>1 DEF Sending
<1>3. Outcome(what) = sending \/ Outcome(what) = [sending EXCEPT ![d] = s]
  BY DEF Outcome
<1>. HIDE DEF d, s
<1>4. [sending EXCEPT ![d] = s] \in [Devices -> Sending]
  BY <1>2
<1>5. \A e \in Devices : [sending EXCEPT ![d] = s][e] = IF e = d THEN s ELSE sending[e]
  BY <1>1
<1>. QED
  BY <1>2, <1>3, <1>4, <1>5

\* Every step keeps the types.
LEMMA TypeStep == TypeOK /\ [Next]_vars => TypeOK'
<1>. SUFFICES ASSUME TypeOK, [Next]_vars PROVE TypeOK'
  OBVIOUS
<1>. USE DEF TypeOK, device, reader, database
<1>1. ASSUME NEW d \in Devices, NEW sos \in BOOLEAN, NEW fix \in BOOLEAN, NewEvent(d, sos, fix)
      PROVE  TypeOK'
  <2>1. sending[d].event + 1 \in 1..MaxEvents
    BY <1>1, IngestAssumption DEF NewEvent
  <2>. QED
    BY <1>1, <2>1, IngestAssumption DEF NewEvent, NoEvent
<1>2. ASSUME NEW d \in Devices, ResolveSos(d)
      PROVE  TypeOK'
  BY <1>2 DEF ResolveSos
<1>3. ASSUME NEW d \in Devices, SetActive(d)
      PROVE  TypeOK'
  BY <1>3 DEF SetActive
<1>4. ASSUME NEW d \in Devices, ProcessFrame(d)
      PROVE  TypeOK'
  <2>1. sending[d].event \in 1..MaxEvents
    BY <1>4, IngestAssumption DEF ProcessFrame, NoEvent
  <2>2. frame' \in Frames
    BY <1>4, <2>1 DEF ProcessFrame, Frames
  <2>3. stage' \in {"confirm", "handle"}
    BY <1>4 DEF ProcessFrame, AfterFilter
  <2>4. lastEvent' \in [Devices -> [event: 0..MaxEvents, recent: BOOLEAN]]
    BY <1>4, <2>1, IngestAssumption DEF ProcessFrame
  <2>. QED
    BY <1>4, <2>2, <2>3, <2>4 DEF ProcessFrame, Stages
<1>5. ASSUME NEW d \in Devices, TimeoutPasses(d)
      PROVE  TypeOK'
  BY <1>5 DEF TimeoutPasses
<1>6. CASE OpenDevice
  BY <1>6 DEF OpenDevice, Stages
<1>7. CASE LookUp
  <2>1. frame \in Frames
    BY <1>7 DEF LookUp
  <2>2. sending' = sending \/ sending' = Outcome("dropped")
    BY <1>7 DEF LookUp
  <2>3. sending' \in [Devices -> Sending]
        /\ \A d \in Devices : sending'[d].confirmed = sending[d].confirmed /\ sending'[d].event = sending[d].event
    BY <2>1, <2>2, OutcomeEffect DEF Sending
  <2>4. stage' \in {"insert", "confirm"} /\ prevSos' \in BOOLEAN
    BY <1>7, <2>1 DEF LookUp, Frames
  <2>. QED
    BY <1>7, <2>1, <2>3, <2>4 DEF LookUp, Stages, Sending
<1>8. CASE InsertLocation
  BY <1>8 DEF InsertLocation, Stages, Outcome, Frames
<1>9. CASE EnsureSosAlert
  BY <1>9 DEF EnsureSosAlert, Stages
<1>10. CASE OpenSosAlert
  BY <1>10 DEF OpenSosAlert, Stages, Frames
<1>11. CASE NotifySos
  BY <1>11 DEF NotifySos, Stages
<1>12. CASE ReadSosOpen
  BY <1>12 DEF ReadSosOpen, Stages
<1>13. ASSUME NEW c \in BOOLEAN, PushLocation(c)
      PROVE  TypeOK'
  BY <1>13 DEF PushLocation, Stages, Frames
<1>14. CASE Confirm
  <2>1. frame \in Frames
    BY <1>14 DEF Confirm
  <2>2. sending' \in [Devices -> [event: 0..MaxEvents, sos: BOOLEAN, fix: BOOLEAN,
                                  outcome: {"pending", "stored", "dropped"}, confirmed: BOOLEAN]]
    <3>1. CASE sending[frame.dev].event = frame.event
      <4>. DEFINE S == [event: 0..MaxEvents, sos: BOOLEAN, fix: BOOLEAN,
                        outcome: {"pending", "stored", "dropped"}, confirmed: BOOLEAN]
                  e == sending[frame.dev]
      <4>1. frame.dev \in Devices
        BY <2>1 DEF Frames
      <4>2. e \in S
        BY <4>1
      <4>3. [e EXCEPT !.confirmed = TRUE] \in S
        BY <4>2
      <4>4. sending' = [sending EXCEPT ![frame.dev] = [e EXCEPT !.confirmed = TRUE]]
        BY <1>14, <3>1 DEF Confirm
      <4>. HIDE DEF S
      <4>5. sending \in [Devices -> S]
        BY DEF S
      <4>6. sending' \in [Devices -> S]
        BY <4>1, <4>3, <4>4, <4>5
      <4>. QED
        BY <4>6 DEF S
    <3>2. CASE sending[frame.dev].event # frame.event
      BY <1>14, <3>2 DEF Confirm
    <3>. QED
      BY <3>1, <3>2
  <2>3. \A d \in Devices : sending'[d].confirmed \/ sending'[d].event # NoEvent
    BY <1>14, <2>1 DEF Confirm, Frames
  <2>. QED
    BY <1>14, <2>2, <2>3 DEF Confirm, Stages
<1>15. CASE ConfirmLost
  BY <1>15, IngestAssumption DEF ConfirmLost, Stages, Fault
<1>16. CASE ReaderFails
  BY <1>16, IngestAssumption DEF ReaderFails, Stages, Fault
<1>17. CASE Restart
  BY <1>17, IngestAssumption DEF Restart, Stages, Fault, NoEvent
<1>18. CASE UNCHANGED vars
  BY <1>18 DEF vars
<1>. QED
  BY <1>1, <1>2, <1>3, <1>4, <1>5, <1>6, <1>7, <1>8, <1>9, <1>10, <1>11, <1>12, <1>13, <1>14,
     <1>15, <1>16, <1>17, <1>18
  DEF Next, Handle

-----------------------------------------------------------------------------
(* SOS alerts.                                                             *)

\* What the SOS properties rest on.
SosInv == PrevIsLatest /\ RaisedAsserts /\ OpeningIsNew /\ OneOpenSos /\ SosOwedOnlyAfterFault

\* One frame at a time, and prev_sos read before the insert: an alert opens for a new SOS only, beside no other.
LEMMA SosStep == TypeOK /\ SosInv /\ [Next]_vars => SosInv'
<1>. SUFFICES ASSUME TypeOK /\ SosInv, [Next]_vars PROVE SosInv'
  OBVIOUS
<1>. USE DEF SosInv, PrevIsLatest, RaisedAsserts, OpeningIsNew, OneOpenSos, SosOwedOnlyAfterFault, reader,
             device, database
<1>0. stage \notin {"down", "idle"} => frame \in Frames /\ frame.dev \in Devices
  BY DEF TypeOK, Frames
<1>1. ASSUME NEW d \in Devices, NEW sos \in BOOLEAN, NEW fix \in BOOLEAN, NewEvent(d, sos, fix)
      PROVE  SosInv'
  BY <1>1, <1>0 DEF NewEvent
<1>2. ASSUME NEW d \in Devices, ResolveSos(d)
      PROVE  SosInv'
  BY <1>2, <1>0 DEF ResolveSos, TypeOK
<1>3. ASSUME NEW d \in Devices, SetActive(d)
      PROVE  SosInv'
  BY <1>3, <1>0 DEF SetActive
<1>4. ASSUME NEW d \in Devices, ProcessFrame(d)
      PROVE  SosInv'
  BY <1>4, <1>0 DEF ProcessFrame, AfterFilter
<1>5. ASSUME NEW d \in Devices, TimeoutPasses(d)
      PROVE  SosInv'
  BY <1>5, <1>0 DEF TimeoutPasses
<1>6. CASE OpenDevice
  BY <1>6, <1>0 DEF OpenDevice
<1>7. CASE LookUp
  BY <1>7, <1>0 DEF LookUp
<1>8. CASE InsertLocation
  BY <1>8, <1>0 DEF InsertLocation, Onset, TypeOK
<1>9. CASE EnsureSosAlert
  BY <1>9, <1>0 DEF EnsureSosAlert, TypeOK
<1>10. CASE OpenSosAlert
  BY <1>10, <1>0 DEF OpenSosAlert, TypeOK
<1>11. CASE NotifySos
  BY <1>11, <1>0 DEF NotifySos
<1>12. CASE ReadSosOpen
  BY <1>12, <1>0 DEF ReadSosOpen
<1>13. ASSUME NEW c \in BOOLEAN, PushLocation(c)
      PROVE  SosInv'
  BY <1>13, <1>0 DEF PushLocation
<1>14. CASE Confirm
  BY <1>14, <1>0 DEF Confirm
<1>15. CASE ConfirmLost
  BY <1>15, <1>0 DEF ConfirmLost, Fault, TypeOK
<1>16. CASE ReaderFails
  BY <1>16, <1>0 DEF ReaderFails, Fault, TypeOK
<1>17. CASE Restart
  BY <1>17, <1>0 DEF Restart, Fault, TypeOK
<1>18. CASE UNCHANGED vars
  BY <1>18 DEF vars
<1>. QED
  BY <1>1, <1>2, <1>3, <1>4, <1>5, <1>6, <1>7, <1>8, <1>9, <1>10, <1>11, <1>12, <1>13, <1>14,
     <1>15, <1>16, <1>17, <1>18
  DEF Next, Handle

-----------------------------------------------------------------------------
(* Confirmations.                                                          *)

\* What the confirmation property rests on.
ConfirmInv == FrameSeen /\ SeenIsDone /\ ConfirmedLossOnlyAfterFault

\* While nothing fails, an event that the duplicate filter knows has been stored or dropped on purpose.
LEMMA ConfirmStep == TypeOK /\ ConfirmInv /\ [Next]_vars => ConfirmInv'
<1>. SUFFICES ASSUME TypeOK /\ ConfirmInv, [Next]_vars PROVE ConfirmInv'
  OBVIOUS
<1>. USE DEF ConfirmInv, FrameSeen, SeenIsDone, ConfirmedLossOnlyAfterFault, reader, device, database
<1>0. stage \notin {"down", "idle"} => frame \in Frames /\ frame.dev \in Devices
  BY DEF TypeOK, Frames
<1>1. ASSUME NEW d \in Devices, NEW sos \in BOOLEAN, NEW fix \in BOOLEAN, NewEvent(d, sos, fix)
      PROVE  ConfirmInv'
  BY <1>1, <1>0, FrameFields DEF NewEvent, TypeOK
<1>2. ASSUME NEW d \in Devices, ResolveSos(d)
      PROVE  ConfirmInv'
  BY <1>2, <1>0, FrameFields DEF ResolveSos
<1>3. ASSUME NEW d \in Devices, SetActive(d)
      PROVE  ConfirmInv'
  BY <1>3, <1>0, FrameFields DEF SetActive
<1>4. ASSUME NEW d \in Devices, ProcessFrame(d)
      PROVE  ConfirmInv'
  BY <1>4, <1>0, FrameFields DEF ProcessFrame, AfterFilter, Repeated, TypeOK
<1>5. ASSUME NEW d \in Devices, TimeoutPasses(d)
      PROVE  ConfirmInv'
  BY <1>5, <1>0, FrameFields DEF TimeoutPasses, TypeOK
<1>6. CASE OpenDevice
  BY <1>6, <1>0, FrameFields DEF OpenDevice
<1>7. CASE LookUp
  <2>1. CASE Usable
    BY <1>7, <1>0, <2>1, FrameFields DEF LookUp, TypeOK
  <2>2. CASE ~Usable
    <3>1. frame \in Frames /\ frame.dev \in Devices
      BY <1>7, <1>0 DEF LookUp
    <3>2. \A d \in Devices :
             /\ sending'[d].event = sending[d].event
             /\ sending'[d].confirmed = sending[d].confirmed
             /\ d = frame.dev /\ frame.event = sending[d].event => sending'[d].outcome = "dropped"
             /\ d # frame.dev \/ frame.event # sending[d].event => sending'[d].outcome = sending[d].outcome
      BY <1>7, <2>2, <3>1 DEF LookUp, Outcome, TypeOK
    <3>3. stage = "handle" /\ UNCHANGED <<lastEvent, frame, faults>>
      BY <1>7 DEF LookUp
    <3>. QED
      BY <3>1, <3>2, <3>3 DEF TypeOK
  <2>. QED
    BY <2>1, <2>2
<1>8. CASE InsertLocation
  BY <1>8, <1>0, FrameFields DEF InsertLocation, Outcome, TypeOK
<1>9. CASE EnsureSosAlert
  BY <1>9, <1>0, FrameFields DEF EnsureSosAlert
<1>10. CASE OpenSosAlert
  BY <1>10, <1>0, FrameFields DEF OpenSosAlert
<1>11. CASE NotifySos
  BY <1>11, <1>0, FrameFields DEF NotifySos
<1>12. CASE ReadSosOpen
  BY <1>12, <1>0, FrameFields DEF ReadSosOpen
<1>13. ASSUME NEW c \in BOOLEAN, PushLocation(c)
      PROVE  ConfirmInv'
  BY <1>13, <1>0, FrameFields DEF PushLocation
<1>14. CASE Confirm
  BY <1>14, <1>0, FrameFields DEF Confirm, TypeOK
<1>15. CASE ConfirmLost
  BY <1>15, <1>0, FrameFields DEF ConfirmLost, Fault, TypeOK
<1>16. CASE ReaderFails
  BY <1>16, <1>0, FrameFields DEF ReaderFails, Fault, TypeOK
<1>17. CASE Restart
  BY <1>17, <1>0, FrameFields DEF Restart, Fault, TypeOK, NoEvent
<1>18. CASE UNCHANGED vars
  BY <1>18 DEF vars
<1>. QED
  BY <1>1, <1>2, <1>3, <1>4, <1>5, <1>6, <1>7, <1>8, <1>9, <1>10, <1>11, <1>12, <1>13, <1>14,
     <1>15, <1>16, <1>17, <1>18
  DEF Next, Handle

-----------------------------------------------------------------------------
(* The invariants.                                                         *)

\* The initial state satisfies the inductive invariant.
LEMMA InvInit == Init => IInv
<1>. SUFFICES ASSUME Init PROVE IInv
  OBVIOUS
<1>1. TypeOK
  <2>1. 0 \in 0..MaxEvents /\ 0 \in 0..MaxFaults
    BY IngestAssumption
  <2>2. [event |-> NoEvent, sos |-> FALSE, fix |-> FALSE, outcome |-> "dropped", confirmed |-> TRUE]
          \in [event: 0..MaxEvents, sos: BOOLEAN, fix: BOOLEAN,
               outcome: {"pending", "stored", "dropped"}, confirmed: BOOLEAN]
    BY <2>1 DEF NoEvent
  <2>3. [event |-> NoEvent, recent |-> FALSE] \in [event: 0..MaxEvents, recent: BOOLEAN]
    BY <2>1 DEF NoEvent
  <2>. QED
    BY <2>1, <2>2, <2>3 DEF Init, TypeOK, Stages
<1>2. PrevIsLatest /\ RaisedAsserts /\ OpeningIsNew /\ OneOpenSos /\ SosOwedOnlyAfterFault
  BY DEF Init, PrevIsLatest, RaisedAsserts, OpeningIsNew, OneOpenSos, SosOwedOnlyAfterFault
<1>3. FrameSeen /\ SeenIsDone /\ ConfirmedLossOnlyAfterFault
  BY DEF Init, FrameSeen, SeenIsDone, ConfirmedLossOnlyAfterFault, NoEvent
<1>. QED
  BY <1>1, <1>2, <1>3 DEF IInv

\* The inductive invariant holds throughout.
THEOREM IngestInvariance == Spec => []IInv
<1>1. IInv /\ [Next]_vars => IInv'
  <2>. SUFFICES ASSUME IInv, [Next]_vars PROVE IInv'
    OBVIOUS
  <2>1. TypeOK'
    BY TypeStep DEF IInv
  <2>2. SosInv'
    BY SosStep DEF IInv, SosInv
  <2>3. ConfirmInv'
    BY ConfirmStep DEF IInv, ConfirmInv
  <2>. QED
    BY <2>1, <2>2, <2>3 DEF IInv, SosInv, ConfirmInv
<1>. QED
  BY <1>1, InvInit, PTL DEF Spec

\* Types of what the reader has in memory, on the device and in the database.
THEOREM IngestTypes == Spec => []TypeOK
<1>1. IInv => TypeOK
  BY DEF IInv
<1>. QED
  BY <1>1, IngestInvariance, PTL

\* No device ever has two open SOS alerts, whatever fails and whenever the operator resolves one.
THEOREM OneSos == Spec => []OneOpenSos
<1>1. IInv => OneOpenSos
  BY DEF IInv
<1>. QED
  BY <1>1, IngestInvariance, PTL

\* While nothing fails, every stored SOS onset has its alert, or gets it next.
THEOREM SosOwed == Spec => []SosOwedOnlyAfterFault
<1>1. IInv => SosOwedOnlyAfterFault
  BY DEF IInv
<1>. QED
  BY <1>1, IngestInvariance, PTL

\* While nothing fails, no event is confirmed that was neither stored nor dropped on purpose.
THEOREM ConfirmedLoss == Spec => []ConfirmedLossOnlyAfterFault
<1>1. IInv => ConfirmedLossOnlyAfterFault
  BY DEF IInv
<1>. QED
  BY <1>1, IngestInvariance, PTL

\* The edge trigger: an alert that was resolved is not opened again by the same SOS, whatever fails.
THEOREM ResolvedStays == Spec => ResolvedSosStaysResolved
<1>1. ASSUME IInv, [Next]_vars, NEW d \in Devices, openSos'[d] > openSos[d]
      PROVE  d \notin raised
  <2>1. openSos \in [Devices -> Nat]
    BY <1>1 DEF IInv, TypeOK
  <2>2. UNCHANGED openSos \/ (\E e \in Devices : ResolveSos(e)) \/ OpenSosAlert
    BY <1>1 DEF Next, Handle, NewEvent, SetActive, ProcessFrame, TimeoutPasses, OpenDevice, LookUp, InsertLocation,
           EnsureSosAlert, NotifySos, ReadSosOpen, PushLocation, Confirm, ConfirmLost, ReaderFails, Restart, vars,
           database
  <2>3. OpenSosAlert /\ d = frame.dev
    BY <1>1, <2>1, <2>2 DEF ResolveSos, OpenSosAlert
  <2>. QED
    BY <1>1, <2>3 DEF OpenSosAlert, IInv, OpeningIsNew
<1>2. IInv /\ [Next]_vars => [\A d \in Devices : openSos'[d] > openSos[d] => d \notin raised]_vars
  BY <1>1
<1>. QED
  BY <1>2, IngestInvariance, PTL DEF Spec, ResolvedSosStaysResolved

-----------------------------------------------------------------------------
(* The abstract specification of SOS alerts.                               *)

\* The steps that touch an SOS: a frame is stored, an alert opens, the operator resolves one.
LEMMA SosSteps ==
    [Next]_vars => \/ InsertLocation \/ OpenSosAlert
                   \/ \E d \in Devices : ResolveSos(d)
                   \/ UNCHANGED <<latestSos, raised, openSos>>
BY DEF Next, Handle, NewEvent, SetActive, ProcessFrame, TimeoutPasses, OpenDevice, LookUp, EnsureSosAlert, NotifySos,
       ReadSosOpen, PushLocation, Confirm, ConfirmLost, ReaderFails, Restart, vars, database

\* Each of them is a step of SosBook, or none.
LEMMA BookStep == IInv /\ [Next]_vars => [Book!Next]_(Book!vars)
<1>. SUFFICES ASSUME IInv, [Next]_vars PROVE [Book!Next]_(Book!vars)
  OBVIOUS
<1>0. /\ latestSos \in [Devices -> BOOLEAN] /\ openSos \in [Devices -> Nat]
      /\ stage \notin {"down", "idle"} => frame.dev \in Devices
  BY DEF IInv, TypeOK, Frames
<1>. DEFINE d == frame.dev
<1>1. CASE InsertLocation
  <2>1. /\ d \in Devices /\ openSos' = openSos /\ latestSos' = [latestSos EXCEPT ![d] = frame.sos]
        /\ raised' = IF frame.sos THEN raised ELSE raised \ {d}
    BY <1>0, <1>1 DEF InsertLocation
  <2>2. CASE ~frame.sos
    <3>1. Episode' = [Episode EXCEPT ![d] = "calm"]
      BY <1>0, <2>1, <2>2 DEF Episode
    <3>. QED
      BY <2>1, <3>1 DEF Book!Next, Book!Calm
  <2>3. CASE frame.sos /\ latestSos[d]
    <3>1. Episode' = Episode
      BY <1>0, <2>1, <2>3 DEF Episode
    <3>. QED
      BY <2>1, <3>1 DEF Book!vars
  <2>4. CASE frame.sos /\ ~latestSos[d]
    <3>1. d \notin raised
      BY <2>4 DEF IInv, RaisedAsserts
    <3>2. Episode[d] = "calm" /\ Episode' = [Episode EXCEPT ![d] = "asserting"]
      BY <1>0, <2>1, <2>4, <3>1 DEF Episode
    <3>. QED
      BY <2>1, <3>2 DEF Book!Next, Book!Assert
  <2>. QED
    BY <2>2, <2>3, <2>4
<1>2. CASE OpenSosAlert
  <2>1. stage = "open"
    BY <1>2 DEF OpenSosAlert
  <2>2. d \in Devices /\ latestSos[d] /\ d \notin raised /\ openSos[d] = 0
    BY <1>0, <2>1 DEF IInv, OpeningIsNew
  <2>3. latestSos' = latestSos /\ raised' = raised \cup {d} /\ openSos' = [openSos EXCEPT ![d] = 1]
    BY <1>2, <2>2 DEF OpenSosAlert
  <2>4. Episode[d] = "asserting" /\ Episode' = [Episode EXCEPT ![d] = "raised"]
    BY <1>0, <2>2, <2>3 DEF Episode
  <2>. QED
    BY <2>2, <2>3, <2>4 DEF Book!Next, Book!Raise
<1>3. ASSUME NEW e \in Devices, ResolveSos(e)
      PROVE  [Book!Next]_(Book!vars)
  <2>1. openSos[e] \in Nat /\ openSos[e] > 0 /\ openSos[e] <= 1
    BY <1>0, <1>3 DEF ResolveSos, IInv, OneOpenSos
  <2>2. openSos[e] = 1
    BY <2>1
  <2>3. openSos' = [openSos EXCEPT ![e] = 0]
    BY <1>3, <2>2 DEF ResolveSos
  <2>4. Episode' = Episode
    BY <1>3 DEF ResolveSos, Episode
  <2>. QED
    BY <2>2, <2>3, <2>4 DEF Book!Next, Book!Resolve
<1>4. CASE UNCHANGED <<latestSos, raised, openSos>>
  BY <1>4 DEF Episode, Book!vars
<1>. QED
  BY <1>1, <1>2, <1>3, <1>4, SosSteps

\* Over retransmissions, reconnects, restarts and failures, SOS alerts come and go as SosBook says.
THEOREM SosRefinement == Spec => KeepsSosBook
<1>1. Init => Book!Init
  BY DEF Init, Book!Init, Episode
<1>. QED
  BY <1>1, BookStep, IngestInvariance, PTL DEF Spec, KeepsSosBook, Book!Spec

-----------------------------------------------------------------------------
(* Every event is confirmed.                                               *)

\* A frame of d in hand is of the event e.
InHand(d, e) == stage \notin {"down", "idle"} /\ frame.dev = d => frame.event = e

\* The reader works on the event e of d.
WorksOn(d, e) == stage \notin {"down", "idle"} /\ frame.dev = d /\ frame.event = e

Failure == ConfirmLost \/ ReaderFails \/ Restart

\* A device never goes back to an earlier event.
LEMMA EventsGrow ==
    ASSUME TypeOK, [Next]_vars, NEW d \in Devices
    PROVE  sending'[d].event >= sending[d].event
<1>1. TypeOK' /\ sending[d].event \in Nat
  BY TypeStep, IngestAssumption DEF TypeOK
<1>2. ASSUME NEW e \in Devices, NEW sos \in BOOLEAN, NEW fix \in BOOLEAN, NewEvent(e, sos, fix)
      PROVE  sending'[d].event = sending[d].event \/ sending'[d].event = sending[d].event + 1
  BY <1>2 DEF NewEvent, TypeOK
<1>3. ASSUME NEW what \in {"stored", "dropped"}, sending' = Outcome(what), frame \in Frames
      PROVE  sending'[d].event = sending[d].event
  BY <1>3, OutcomeEffect DEF TypeOK, Sending
<1>4. CASE LookUp \/ InsertLocation
  <2>1. frame \in Frames
    BY <1>4 DEF LookUp, InsertLocation, TypeOK
  <2>2. sending' = sending \/ \E what \in {"stored", "dropped"} : sending' = Outcome(what)
    BY <1>4 DEF LookUp, InsertLocation
  <2>. QED
    BY <1>1, <1>3, <2>1, <2>2
<1>5. CASE Confirm
  BY <1>1, <1>5 DEF Confirm, TypeOK
<1>6. \/ \E e \in Devices : \E sos, fix \in BOOLEAN : NewEvent(e, sos, fix)
      \/ LookUp \/ InsertLocation \/ Confirm
      \/ UNCHANGED sending
  BY DEF Next, Handle, ResolveSos, SetActive, ProcessFrame, TimeoutPasses, OpenDevice, EnsureSosAlert, OpenSosAlert,
         NotifySos, ReadSosOpen, PushLocation, ConfirmLost, ReaderFails, Restart, vars, device
<1>. QED
  BY <1>1, <1>2, <1>4, <1>5, <1>6

\* A step of the reader goes on with the frame in hand, gets done with it, or takes the event its device sends now.
LEMMA FrameSteps ==
    ASSUME TypeOK, [Next]_vars, ~Failure
    PROVE  \/ UNCHANGED frame /\ (stage \in {"down", "idle"} <=> stage' \in {"down", "idle"})
           \/ Confirm
           \/ \E d \in Devices : /\ stage = "idle" /\ stage' \notin {"down", "idle"}
                                 /\ frame'.dev = d /\ frame'.event = sending[d].event
<1>1. ASSUME NEW d \in Devices, ProcessFrame(d)
      PROVE  stage = "idle" /\ stage' \notin {"down", "idle"} /\ frame'.dev = d /\ frame'.event = sending[d].event
  BY <1>1 DEF ProcessFrame, AfterFilter
<1>2. CASE \E d \in Devices : ProcessFrame(d)
  BY <1>1, <1>2
<1>3. CASE Handle /\ ~Confirm
  BY <1>3 DEF Handle, LookUp, InsertLocation, EnsureSosAlert, OpenSosAlert, NotifySos, ReadSosOpen, PushLocation
<1>4. CASE ~Handle /\ ~(\E d \in Devices : ProcessFrame(d))
  BY <1>4 DEF Next, NewEvent, ResolveSos, SetActive, TimeoutPasses, OpenDevice, vars, reader, Failure
<1>. QED
  BY <1>2, <1>3, <1>4

\* While a device sends the event e, the reader takes no other of its frames in hand.
LEMMA InHandStep ==
    ASSUME TypeOK, [Next]_vars, ~Failure, NEW d \in Devices, NEW e, sending[d].event = e, InHand(d, e)
    PROVE  InHand(d, e)'
<1>1. Confirm => stage' = "idle"
  BY DEF Confirm
<1>. QED
  BY <1>1, FrameSteps DEF InHand

\* Once in hand, the event is worked on until it is confirmed.
LEMMA WorksOnStep ==
    ASSUME TypeOK, [Next]_vars, ~Failure, NEW d \in Devices, NEW e, sending[d].event = e, WorksOn(d, e)
    PROVE  WorksOn(d, e)' \/ sending'[d].confirmed
<1>1. Confirm => sending'[d].confirmed
  BY DEF Confirm, WorksOn, TypeOK
<1>. QED
  BY <1>1, FrameSteps DEF WorksOn

\* The retransmission protocol does its work: when frames get through and failures end, every event is confirmed, unless
\* the device gives it up for a newer one, for any number of devices that compete for the reader.
THEOREM EventsAreConfirmed == Spec /\ FramesGetThrough => EventIsConfirmed
<1>. SUFFICES ASSUME NEW d \in Devices, NEW e \in 1..MaxEvents
              PROVE  Spec /\ FramesGetThrough
                       => ((sending[d].event = e) ~> (sending[d].event > e \/ sending[d].confirmed))
  BY DEF EventIsConfirmed
<1>. DEFINE E == sending[d].event = e
            Q == sending[d].event > e \/ sending[d].confirmed
            C == sending[d].confirmed
            W == WorksOn(d, e)
            H == InHand(d, e)
            B == stage \notin {"down", "idle"} /\ frame.dev = d
            I == stage = "idle"
            F == Failure
<1>1. IInv => TypeOK
  BY DEF IInv
<1>2. C => Q
  OBVIOUS
<1>3. TypeOK /\ TypeOK' /\ E /\ [Next]_vars => E' \/ Q'
  <2>. SUFFICES ASSUME TypeOK, TypeOK', E, [Next]_vars PROVE E' \/ Q'
    OBVIOUS
  <2>1. sending'[d].event >= e
    BY EventsGrow
  <2>2. sending'[d].event \in Nat /\ e \in Nat
    BY IngestAssumption DEF TypeOK
  <2>. QED
    BY <2>1, <2>2
<1>4. I => H
  BY DEF InHand
<1>5. TypeOK /\ E /\ H /\ [Next]_vars /\ [~F]_vars => H'
  <2>1. ASSUME UNCHANGED vars, H PROVE H'
    BY <2>1 DEF InHand, vars, reader
  <2>. QED
    BY <2>1, InHandStep
<1>6. B /\ H => W
  BY DEF InHand, WorksOn
<1>7. TypeOK /\ E /\ W /\ [Next]_vars /\ [~F]_vars => W' \/ C'
  <2>1. ASSUME UNCHANGED vars, W PROVE W'
    BY <2>1 DEF WorksOn, vars, reader
  <2>. QED
    BY <2>1, WorksOnStep
<1>8. W => ~I
  BY DEF WorksOn
<1>9. Spec /\ FramesGetThrough => [][Next]_vars /\ []<>I /\ <>[][~F]_vars
  BY PTL DEF Spec, FramesGetThrough, Failure
<1>10. FramesGetThrough => []<>(C \/ B)
  BY DEF FramesGetThrough
<1>. HIDE DEF E, Q, C, W, H, B, I, F
<1>11. Spec /\ FramesGetThrough => (E ~> Q)
  BY <1>1, <1>2, <1>3, <1>4, <1>5, <1>6, <1>7, <1>8, <1>9, <1>10, IngestInvariance, PTL
<1>. QED
  BY <1>11 DEF E, Q

=============================================================================
