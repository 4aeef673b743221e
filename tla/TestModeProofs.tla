--------------------------- MODULE TestModeProofs ---------------------------
(***************************************************************************)
(* A reset of the test mode leaves an empty map, for any number of starts, *)
(* admins and trackers: IInv (TestMode) is inductive.                      *)
(***************************************************************************)
EXTENDS TestMode, TLAPS

Call == [at : Phases, uses : SUBSET Trackers, left : SUBSET Trackers, alarm : SUBSET Trackers]
Sound(c) == c \in Call /\ c.left \cup c.alarm \subseteq c.uses

Ender == [at : {"idle", "stopping", "deleting"}, what : {"stop", "reset"}, awaits : Starts \cup {None}, alone : BOOLEAN]

\* The part of TypeOK that most steps leave alone.
OtherTypes ==
    /\ ender \in [Enders -> Ender]
    /\ task \in Starts \cup {None} /\ cancelled \subseteq Starts
    /\ roles \in Scenarios \cup {<< >>}
    /\ positions \subseteq Trackers /\ alerts \subseteq Trackers
    /\ overlapped \in BOOLEAN /\ emptied \in BOOLEAN

LEMMA TypeParts == TypeOK <=> /\ call \in [Starts -> Call] /\ (\A s \in Starts : Sound(call[s])) /\ OtherTypes
BY DEF TypeOK, Call, Sound, Ender, OtherTypes

LEMMA TypePartsNext == TypeOK' <=> /\ call' \in [Starts -> Call] /\ (\A s \in Starts : Sound(call'[s])) /\ OtherTypes'
BY DEF TypeOK, Call, Sound, Ender, OtherTypes

-----------------------------------------------------------------------------
LEMMA GoesEffect ==
    ASSUME TypeOK, NEW s \in Starts, NEW c, Sound(c), Goes(s, c)
    PROVE  /\ call' \in [Starts -> Call] /\ (\A r \in Starts : Sound(call'[r]))
           /\ call'[s] = c
           /\ \A r \in Starts \ {s} : call'[r] = call[r]
BY TypeParts DEF Goes, Sound

LEMMA NoCallSound == Sound(NoCall) /\ NoCall.at = "idle"
BY DEF NoCall, Sound, Call, Phases

\* The phases decide the rest of the invariant.
LEMMA Phased ==
    ASSUME IInv, NEW s \in Starts, NEW c, Sound(c), Goes(s, c), c.at = call[s].at \/ c.at = "idle",
           call[s].at # "idle", OtherTypes', UNCHANGED <<ender, task, overlapped, emptied>>
    PROVE  IInv'
<1>1. TypeOK' /\ call'[s] = c /\ \A r \in Starts \ {s} : call'[r] = call[r]
  BY GoesEffect, TypePartsNext DEF IInv
<1>2. ~emptied
  BY DEF IInv, DeletesInPeace, Quiet
<1>3. \A r \in Starts : call'[r].at = call[r].at \/ call'[r].at = "idle"
  BY <1>1
<1>4. UnderWay' \subseteq UnderWay
  BY <1>3 DEF UnderWay
<1>5. OneWriter'
  BY <1>3, <1>4 DEF IInv, OneWriter
<1>6. DeletesInPeace'
  BY <1>2, <1>3, <1>4 DEF IInv, DeletesInPeace, Quiet
<1>. QED
  BY <1>1, <1>2, <1>5, <1>6 DEF IInv, ResetLeavesEmptyMap

LEMMA InitIInv == Init => IInv
<1>. SUFFICES ASSUME Init PROVE IInv
  OBVIOUS
<1>1. \A s \in Starts : call[s] = NoCall
  BY DEF Init
<1>2. call \in [Starts -> Call] /\ \A s \in Starts : Sound(call[s])
  BY NoCallSound, <1>1 DEF Init, Sound
<1>3. OtherTypes
  <2>1. NoEnder \in Ender
    BY DEF NoEnder, Ender
  <2>. QED
    BY <2>1 DEF Init, OtherTypes
<1>4. UnderWay = {}
  BY <1>1, NoCallSound DEF UnderWay
<1>5. OneWriter
  BY <1>1, <1>4, NoCallSound DEF OneWriter
<1>6. DeletesInPeace
  BY <1>4 DEF Init, DeletesInPeace, NoEnder
<1>. QED
  BY <1>2, <1>3, <1>5, <1>6, TypeParts DEF Init, IInv, ResetLeavesEmptyMap

-----------------------------------------------------------------------------
\* One step per action of a start and its loop.
LEMMA CallKeeps ==
    ASSUME IInv, NEW s \in Starts,
           \/ Start(s) \/ Seeded(s) \/ CreateTask(s) \/ StartFails(s)
           \/ NextRound(s) \/ Alarm(s) \/ RoundFails(s) \/ LoopEnds(s)
           \/ \E t \in Trackers : Place(s, t) \/ Report(s, t)
    PROVE  IInv'
<1>. USE TypeParts, TypePartsNext, NoCallSound
<1>0. TypeOK /\ Sound(call[s]) /\ OtherTypes
  BY DEF IInv
<1>1. CASE Start(s)
  <2>. DEFINE c == [NoCall EXCEPT !.at = "seeding"]
  <2>1. Sound(c) /\ c.at = "seeding"
    BY DEF NoCall, Sound, Call, Phases
  <2>. HIDE DEF c
  <2>2. Goes(s, c)
    BY <1>1 DEF Start, c
  <2>3. /\ call' \in [Starts -> Call] /\ (\A r \in Starts : Sound(call'[r])) /\ call'[s] = c
        /\ \A r \in Starts \ {s} : call'[r] = call[r]
    BY <1>0, <2>1, <2>2, GoesEffect
  <2>4. ender' \in [Enders -> Ender] /\ \A e \in Enders : ender'[e].alone = FALSE
    <3>1. ender' = [e \in Enders |-> [ender[e] EXCEPT !.alone = FALSE]]
      BY <1>1 DEF Start
    <3>2. ASSUME NEW e \in Enders PROVE [ender[e] EXCEPT !.alone = FALSE] \in Ender /\ ender'[e].alone = FALSE
      BY <1>0, <3>1 DEF OtherTypes, Ender
    <3>. QED
      BY <3>1, <3>2
  <2>5. task' = task /\ task = None /\ emptied' = FALSE /\ overlapped' = (overlapped \/ UnderWay # {})
    BY <1>1 DEF Start
  <2>6. OtherTypes'
    BY <1>0, <1>1, <2>4, <2>5 DEF OtherTypes, Start
  <2>7. ASSUME ~overlapped' PROVE (\A r \in Starts : call'[r].at # "looping") /\ UnderWay' = {s}
    <3>1. ~overlapped /\ UnderWay = {}
      BY <1>0, <2>5, <2>7 DEF OtherTypes
    <3>2. \A r \in Starts : call[r].at # "looping"
      BY <2>5, <3>1, TestModeAssumption DEF IInv, OneWriter
    <3>. QED
      BY <2>1, <2>3, <3>1, <3>2 DEF UnderWay
  <2>8. OneWriter'
    BY <2>5, <2>7 DEF OneWriter
  <2>9. DeletesInPeace' /\ ResetLeavesEmptyMap'
    BY <2>4, <2>5 DEF DeletesInPeace, ResetLeavesEmptyMap
  <2>. QED
    BY <2>3, <2>6, <2>8, <2>9 DEF IInv
<1>2. CASE Seeded(s)
  <2>1. PICK scenario \in Scenarios :
            /\ roles' = scenario
            /\ Goes(s, [NoCall EXCEPT !.at = "placing", !.uses = DOMAIN scenario,
                                      !.left = {t \in DOMAIN scenario : scenario[t] = "silent"}])
    BY <1>2 DEF Seeded
  <2>. DEFINE c == [NoCall EXCEPT !.at = "placing", !.uses = DOMAIN scenario,
                                  !.left = {t \in DOMAIN scenario : scenario[t] = "silent"}]
  <2>2. Sound(c) /\ c.at = "placing"
    BY TestModeAssumption DEF NoCall, Sound, Call, Phases
  <2>3. Goes(s, c)
    BY <2>1
  <2>. HIDE DEF c
  <2>4. /\ call' \in [Starts -> Call] /\ (\A r \in Starts : Sound(call'[r])) /\ call'[s] = c
        /\ \A r \in Starts \ {s} : call'[r] = call[r]
    BY <1>0, <2>2, <2>3, GoesEffect
  <2>5. UNCHANGED <<ender, task, cancelled, positions, alerts, overlapped, emptied>> /\ call[s].at = "seeding"
    BY <1>2 DEF Seeded
  <2>6. OtherTypes'
    BY <1>0, <2>1, <2>5 DEF OtherTypes
  <2>7. UnderWay' = UnderWay /\ (Quiet' <=> Quiet) /\ \A r \in Starts : call'[r].at = "looping" <=> call[r].at = "looping"
    BY <2>2, <2>4, <2>5 DEF UnderWay, Quiet
  <2>8. OneWriter' /\ DeletesInPeace' /\ ResetLeavesEmptyMap'
    BY <2>5, <2>7 DEF IInv, OneWriter, DeletesInPeace, ResetLeavesEmptyMap
  <2>. QED
    BY <2>4, <2>6, <2>8 DEF IInv
<1>3. CASE CreateTask(s)
  <2>. DEFINE c == [call[s] EXCEPT !.at = "looping"]
  <2>1. Sound(c) /\ c.at = "looping"
    BY <1>0 DEF Sound, Call, Phases
  <2>2. Goes(s, c)
    BY <1>3 DEF CreateTask
  <2>. HIDE DEF c
  <2>3. /\ call' \in [Starts -> Call] /\ (\A r \in Starts : Sound(call'[r])) /\ call'[s] = c
        /\ \A r \in Starts \ {s} : call'[r] = call[r]
    BY <1>0, <2>1, <2>2, GoesEffect
  <2>4. /\ UNCHANGED <<ender, roles, cancelled, positions, alerts, overlapped, emptied>>
        /\ task' = s /\ call[s].at = "placing"
    BY <1>3 DEF CreateTask
  <2>5. OtherTypes'
    BY <1>0, <2>4 DEF OtherTypes
  <2>6. s \in UnderWay /\ UnderWay # {} /\ ~Quiet
    BY <2>4 DEF UnderWay, Quiet
  <2>7. ASSUME ~overlapped PROVE (\A r \in Starts : call'[r].at = "looping" => r = s) /\ UnderWay' = {}
    <3>1. task = None /\ \A r \in UnderWay : r = s
      BY <2>6, <2>7 DEF IInv, OneWriter
    <3>2. \A r \in Starts : call[r].at # "looping"
      BY <2>7, <3>1, TestModeAssumption DEF IInv, OneWriter
    <3>. QED
      BY <2>1, <2>3, <3>1, <3>2 DEF UnderWay
  <2>8. OneWriter'
    BY <2>4, <2>7 DEF OneWriter
  <2>9. DeletesInPeace' /\ ResetLeavesEmptyMap'
    BY <2>4, <2>6 DEF IInv, DeletesInPeace, ResetLeavesEmptyMap
  <2>. QED
    BY <2>3, <2>5, <2>8, <2>9 DEF IInv
<1>4. CASE StartFails(s)
  <2>1. OtherTypes' /\ Goes(s, NoCall) /\ call[s].at # "idle" /\ UNCHANGED <<ender, task, overlapped, emptied>>
    BY <1>0, <1>4 DEF StartFails, OtherTypes, UnderWay
  <2>. QED
    BY <2>1, Phased
<1>5. CASE NextRound(s)
  <2>. DEFINE c == [call[s] EXCEPT !.left = call[s].uses]
  <2>1. OtherTypes' /\ Goes(s, c) /\ call[s].at # "idle" /\ UNCHANGED <<ender, task, overlapped, emptied>>
    BY <1>0, <1>5 DEF NextRound, OtherTypes
  <2>2. Sound(c) /\ c.at = call[s].at
    BY <1>0 DEF Sound, Call
  <2>. QED
    BY <2>1, <2>2, Phased
<1>6. CASE Alarm(s)
  <2>. DEFINE c == [call[s] EXCEPT !.alarm = {}]
  <2>1. OtherTypes' /\ Goes(s, c) /\ call[s].at # "idle" /\ UNCHANGED <<ender, task, overlapped, emptied>>
    BY <1>0, <1>6 DEF Alarm, OtherTypes, Sound, Call
  <2>2. Sound(c) /\ c.at = call[s].at
    BY <1>0 DEF Sound, Call
  <2>. QED
    BY <2>1, <2>2, Phased
<1>7. CASE RoundFails(s)
  <2>. DEFINE c == [call[s] EXCEPT !.left = {}, !.alarm = {}]
  <2>1. OtherTypes' /\ Goes(s, c) /\ call[s].at # "idle" /\ UNCHANGED <<ender, task, overlapped, emptied>>
    BY <1>0, <1>7 DEF RoundFails, OtherTypes
  <2>2. Sound(c) /\ c.at = call[s].at
    BY <1>0 DEF Sound, Call
  <2>. QED
    BY <2>1, <2>2, Phased
<1>8. CASE LoopEnds(s)
  <2>. DEFINE resumed == {e \in Enders : ender[e].at = "stopping" /\ ender[e].awaits = s}
              gone(e) == [ender[e] EXCEPT !.at = Stopped(ender[e].what), !.awaits = None]
  <2>1. /\ Goes(s, NoCall) /\ call[s].at = "looping"
        /\ ender' = [e \in Enders |-> IF e \in resumed THEN gone(e) ELSE ender[e]]
        /\ task' = IF resumed = {} THEN task ELSE None
        /\ cancelled' = cancelled \ {s}
        /\ UNCHANGED <<roles, positions, alerts, overlapped, emptied>>
    BY <1>8 DEF LoopEnds
  <2>2. /\ call' \in [Starts -> Call] /\ (\A r \in Starts : Sound(call'[r])) /\ call'[s] = NoCall
        /\ \A r \in Starts \ {s} : call'[r] = call[r]
    BY <1>0, <2>1, GoesEffect
  <2>3. ASSUME NEW e \in Enders PROVE gone(e) \in Ender /\ gone(e).alone = ender[e].alone /\ gone(e).at # "stopping"
    BY <1>0 DEF OtherTypes, Ender, Stopped
  <2>4. \A e \in Enders : ender'[e] = IF e \in resumed THEN gone(e) ELSE ender[e]
    BY <2>1
  <2>. HIDE DEF gone
  <2>5. OtherTypes'
    BY <1>0, <2>1, <2>3 DEF OtherTypes
  <2>6. UnderWay' = UnderWay /\ ~Quiet
    BY <2>1, <2>2 DEF UnderWay, Quiet
  <2>7. ASSUME ~overlapped PROVE task = s /\ UnderWay = {} /\ Quiet'
    <3>1. task = s /\ \A r \in Starts : call[r].at = "looping" => r = s
      BY <2>1, <2>7 DEF IInv, OneWriter
    <3>2. UnderWay = {}
      BY <2>7, <3>1, TestModeAssumption DEF IInv, OneWriter
    <3>3. \A r \in Starts \ {s} : call[r].at = "idle"
      BY <1>0, <3>1, <3>2 DEF UnderWay, Sound, Call, Phases
    <3>. QED
      BY <2>2, <3>1, <3>2, <3>3 DEF Quiet
  <2>8. OneWriter'
    BY <2>1, <2>6, <2>7 DEF OneWriter, Quiet
  <2>9. ASSUME NEW e \in Enders, ender'[e].alone
        PROVE  (ender'[e].at = "stopping" => UnderWay' = {} /\ ~overlapped') /\ (ender'[e].at = "deleting" => Quiet')
    <3>1. CASE e \in resumed
      BY <2>1, <2>3, <2>4, <2>7, <2>9, <3>1 DEF IInv, DeletesInPeace
    <3>2. CASE e \notin resumed
      BY <2>1, <2>4, <2>6, <2>9, <3>2 DEF IInv, DeletesInPeace
    <3>. QED
      BY <3>1, <3>2
  <2>10. DeletesInPeace' /\ ResetLeavesEmptyMap'
    BY <2>1, <2>6, <2>9 DEF IInv, DeletesInPeace, ResetLeavesEmptyMap
  <2>. QED
    BY <2>2, <2>5, <2>8, <2>10 DEF IInv
<1>9. ASSUME NEW t \in Trackers, Place(s, t) PROVE IInv'
  <2>. DEFINE c == [call[s] EXCEPT !.left = @ \ {t}]
  <2>1. OtherTypes' /\ Goes(s, c) /\ call[s].at # "idle" /\ UNCHANGED <<ender, task, overlapped, emptied>>
    BY <1>0, <1>9 DEF Place, OtherTypes
  <2>2. Sound(c) /\ c.at = call[s].at
    BY <1>0 DEF Sound, Call
  <2>. QED
    BY <2>1, <2>2, Phased
<1>10. ASSUME NEW t \in Trackers, Report(s, t) PROVE IInv'
  <2>. DEFINE due == IF roles[t] = "sos" THEN {t} ELSE {}
              c == [call[s] EXCEPT !.left = @ \ {t}, !.alarm = due]
  <2>1. OtherTypes' /\ Goes(s, c) /\ call[s].at # "idle" /\ UNCHANGED <<ender, task, overlapped, emptied>>
    BY <1>0, <1>10 DEF Report, OtherTypes
  <2>2. due \subseteq call[s].uses
    BY <1>0, <1>10 DEF Report, Sound
  <2>. HIDE DEF due
  <2>3. Sound(c) /\ c.at = call[s].at
    BY <1>0, <2>2 DEF Sound, Call
  <2>. QED
    BY <2>1, <2>3, Phased
<1>. QED
  BY <1>1, <1>2, <1>3, <1>4, <1>5, <1>6, <1>7, <1>8, <1>9, <1>10

\* One step per action of an admin who ends the test mode.
LEMMA EnderKeeps ==
    ASSUME IInv, NEW e \in Enders,
           (\E what \in {"stop", "reset"} : Stop(e, what)) \/ Delete(e) \/ DeleteFails(e)
    PROVE  IInv'
<1>. USE TypeParts, TypePartsNext
<1>0. TypeOK /\ OtherTypes
  BY DEF IInv
<1>1. ASSUME NEW what \in {"stop", "reset"}, Stop(e, what) PROVE IInv'
  <2>. DEFINE at == IF task = None THEN Stopped(what) ELSE "stopping"
              alone == UnderWay = {} /\ ~overlapped
              new == [at |-> at, what |-> what, awaits |-> task, alone |-> alone]
  <2>1. /\ ender' = [ender EXCEPT ![e] = new]
        /\ cancelled' = IF task = None THEN cancelled ELSE cancelled \cup {task}
        /\ UNCHANGED <<task, call, roles, positions, alerts, overlapped, emptied>>
    BY <1>1 DEF Stop, Cancels
  <2>2. at \in {"idle", "stopping", "deleting"} /\ alone \in BOOLEAN
    BY DEF Stopped
  <2>3. ASSUME alone PROVE UnderWay = {} /\ ~overlapped /\ (at = "deleting" => Quiet)
    <3>1. UnderWay = {} /\ ~overlapped
      BY <2>3
    <3>2. ASSUME at = "deleting" PROVE \A s \in Starts : call[s].at = "idle"
      <4>1. task = None
        BY <3>2
      <4>2. \A s \in Starts : call[s].at # "looping"
        BY <3>1, <4>1, TestModeAssumption DEF IInv, OneWriter
      <4>. QED
        BY <1>0, <3>1, <4>2 DEF UnderWay, Sound, Call, Phases
    <3>. QED
      BY <3>1, <3>2 DEF Quiet
  <2>. HIDE DEF at, alone
  <2>4. new \in Ender /\ new.at = at /\ new.alone = alone
    BY <1>0, <2>2 DEF Ender, OtherTypes
  <2>. HIDE DEF new
  <2>5. ender' \in [Enders -> Ender] /\ ender'[e] = new /\ \A d \in Enders \ {e} : ender'[d] = ender[d]
    BY <1>0, <2>1, <2>4 DEF OtherTypes
  <2>6. OtherTypes'
    BY <1>0, <2>1, <2>5 DEF OtherTypes
  <2>7. UnderWay' = UnderWay /\ Quiet' = Quiet
    BY <2>1 DEF UnderWay, Quiet
  <2>8. OneWriter' /\ ResetLeavesEmptyMap'
    BY <2>1, <2>7 DEF IInv, OneWriter, ResetLeavesEmptyMap
  <2>9. DeletesInPeace'
    BY <2>1, <2>3, <2>4, <2>5, <2>7 DEF IInv, DeletesInPeace
  <2>. QED
    BY <1>0, <2>1, <2>6, <2>8, <2>9 DEF IInv
<1>2. ASSUME Delete(e) \/ DeleteFails(e) PROVE IInv'
  <2>1. NoEnder \in Ender /\ NoEnder.at = "idle"
    BY DEF NoEnder, Ender
  <2>2. /\ ender' = [ender EXCEPT ![e] = NoEnder] /\ ender[e].at = "deleting"
        /\ UNCHANGED <<call, task, roles, cancelled, overlapped>>
    BY <1>2 DEF Delete, DeleteFails
  <2>3. \/ positions' = {} /\ alerts' = {} /\ emptied' = (emptied \/ ender[e].alone)
        \/ UNCHANGED <<positions, alerts, emptied>>
    BY <1>2 DEF Delete, DeleteFails
  <2>4. ender[e].alone \in BOOLEAN
    BY <1>0 DEF OtherTypes, Ender
  <2>5. ender' \in [Enders -> Ender] /\ ender'[e].at = "idle" /\ \A d \in Enders \ {e} : ender'[d] = ender[d]
    BY <1>0, <2>1, <2>2 DEF OtherTypes
  <2>6. OtherTypes'
    BY <1>0, <2>2, <2>3, <2>4, <2>5 DEF OtherTypes
  <2>7. UnderWay' = UnderWay /\ Quiet' = Quiet
    BY <2>2 DEF UnderWay, Quiet
  <2>8. OneWriter' /\ ResetLeavesEmptyMap'
    BY <2>2, <2>3, <2>7 DEF IInv, OneWriter, ResetLeavesEmptyMap
  <2>9. emptied' => Quiet
    BY <2>2, <2>3 DEF IInv, DeletesInPeace
  <2>10. DeletesInPeace'
    BY <2>2, <2>5, <2>7, <2>9 DEF IInv, DeletesInPeace
  <2>. QED
    BY <1>0, <2>2, <2>6, <2>8, <2>10 DEF IInv
<1>. QED
  BY <1>1, <1>2

LEMMA RestartKeeps == IInv /\ Restart => IInv'
<1>. SUFFICES ASSUME IInv, Restart PROVE IInv'
  OBVIOUS
<1>. USE TypeParts, TypePartsNext, NoCallSound
<1>1. \A s \in Starts : call'[s] = NoCall
  BY DEF Restart
<1>2. call' \in [Starts -> Call] /\ \A s \in Starts : Sound(call'[s])
  BY <1>1 DEF Restart, Sound
<1>3. NoEnder \in Ender /\ \A e \in Enders : ender'[e] = NoEnder
  BY DEF NoEnder, Ender, Restart
<1>4. OtherTypes'
  BY <1>3 DEF IInv, OtherTypes, Restart
<1>5. UnderWay' = {} /\ Quiet'
  BY <1>1 DEF UnderWay, Quiet
<1>6. OneWriter'
  BY <1>1, <1>5 DEF OneWriter
<1>7. DeletesInPeace' /\ ResetLeavesEmptyMap'
  BY <1>3, <1>5 DEF IInv, DeletesInPeace, NoEnder, ResetLeavesEmptyMap, Restart
<1>. QED
  BY <1>2, <1>4, <1>6, <1>7 DEF IInv

-----------------------------------------------------------------------------
(* Theorems.                                                               *)

\* Starts that do not overlap leave one writer, and an undisturbed reset deletes when nothing writes.
THEOREM TestModeInvariance == Spec => []IInv
<1>1. IInv /\ [Next]_vars => IInv'
  <2>. SUFFICES ASSUME IInv, [Next]_vars PROVE IInv'
    OBVIOUS
  <2>1. CASE UNCHANGED vars
    BY <2>1 DEF vars, IInv, TypeOK, ResetLeavesEmptyMap, OneWriter, DeletesInPeace, Quiet, UnderWay
  <2>. QED
    BY <2>1, CallKeeps, EnderKeeps, RestartKeeps DEF Next
<1>. QED
  BY InitIInv, <1>1, PTL DEF Spec

\* Types; a loop and a start only touch the trackers of their own scenario.
THEOREM TestModeTypes == Spec => []TypeOK
<1>1. IInv => TypeOK
  BY DEF IInv
<1>. QED
  BY TestModeInvariance, <1>1, PTL

\* After an undisturbed POST /simulation/reset the demo trackers have no position and no SOS alert until the next start.
THEOREM ResetEmpties == Spec => []ResetLeavesEmptyMap
<1>1. IInv => ResetLeavesEmptyMap
  BY DEF IInv
<1>. QED
  BY TestModeInvariance, <1>1, PTL

=============================================================================
