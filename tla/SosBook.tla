------------------------------- MODULE SosBook -------------------------------
(***************************************************************************)
(* What a rescuer's SOS comes to, whatever frames repeat it and whatever   *)
(* fails: a device that asserts SOS raises at most one alert, beside no    *)
(* other of that device; the operator may resolve it; and a new one needs  *)
(* a frame without SOS first.  FrameIngest implements it with sos[d] from  *)
(* the newest location row of d and alert[d] its open sos_alerts rows.     *)
(***************************************************************************)
EXTENDS Naturals

CONSTANT Devices

VARIABLES
    sos,      \* "calm", "asserting" SOS, or "raised": it has had its alert
    alert     \* open alerts

vars == <<sos, alert>>

Init == sos = [d \in Devices |-> "calm"] /\ alert = [d \in Devices |-> 0]

Assert(d) ==
    /\ sos[d] = "calm"
    /\ sos' = [sos EXCEPT ![d] = "asserting"]
    /\ UNCHANGED alert

Raise(d) ==
    /\ sos[d] = "asserting" /\ alert[d] = 0
    /\ sos' = [sos EXCEPT ![d] = "raised"]
    /\ alert' = [alert EXCEPT ![d] = 1]

Resolve(d) ==
    /\ alert[d] = 1
    /\ alert' = [alert EXCEPT ![d] = 0]
    /\ UNCHANGED sos

Calm(d) ==
    /\ sos' = [sos EXCEPT ![d] = "calm"]
    /\ UNCHANGED alert

Next == \E d \in Devices : Assert(d) \/ Raise(d) \/ Resolve(d) \/ Calm(d)

Spec == Init /\ [][Next]_vars
=============================================================================
