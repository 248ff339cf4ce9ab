---------------------------- MODULE MCPaymentModes ----------------------------
(***************************************************************************)
(* PaymentExecution in either of the modes the service is deployed in, for *)
(* TLC: live with the guard, as the constants have it, or the demo without *)
(* a guard and without a chain that keeps anybody waiting.  A behaviour is *)
(* in one mode; the properties it is checked for mention none.             *)
(***************************************************************************)
EXTENDS MCPaymentExecution

VARIABLE mode     \* PAYMENT_MODE and X402_GUARD_ENABLED of the process

Demo == INSTANCE PaymentExecution WITH GuardEnabled <- FALSE, Live <- FALSE

\* The bounds: live, all calls are for one intent; in the demo all but one of
\* them are made, for any.
OneIntent == \A q \in Requests : req[q].intent \in {None, 1}
OneCallLess == \E q \in Requests : req[q].pc = "idle"

ModesInit == Init /\ mode \in {"live", "demo"}

ModesNext ==
    \/ mode = "demo" /\ Demo!Next /\ OneCallLess' /\ UNCHANGED mode
    \/ mode = "live" /\ Next /\ OneIntent' /\ UNCHANGED mode

ModesSpec == ModesInit /\ [][ModesNext]_<<mode, vars>>
=============================================================================
