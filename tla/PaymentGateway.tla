--------------------------- MODULE PaymentGateway ---------------------------
(***************************************************************************)
(* The payment gateway as the saga sees it: the PaymentGateway protocol of *)
(* payments/base.py with the tables of FakePaymentGateway (payments/fake.py).*)
(* A provider reference is drawn once per authorization, so it is named    *)
(* here by the authorization's idempotency key.                            *)
(*                                                                         *)
(* FakePaymentGateway itself raises PaymentTimeout only for its demo card  *)
(* and never from capture or void.  Faults names the operations that may   *)
(* also raise as the protocol's docstrings allow: a timeout says nothing   *)
(* about whether the gateway acted, a RefundFailed says it did not.        *)
(***************************************************************************)
EXTENDS SkyLockDomain

CONSTANTS
    Keys,       \* gateway idempotency keys
    Faults      \* gateway operations that may raise: subset of GatewayOps

GatewayOps == {"authorize", "capture", "void"}

ASSUME FaultsAssumption == Faults \subseteq GatewayOps

VARIABLE gw

AuthResult == {"approved", "declined"}

GwTypeOK ==
    gw \in [authorizations : [Keys -> AuthResult \cup {"none"}],
            timed_out_once : SUBSET Keys,
            captured       : SUBSET Keys,
            voided         : SUBSET Keys]

GwInit ==
    gw = [authorizations |-> [k \in Keys |-> "none"],
          timed_out_once |-> {}, captured |-> {}, voided |-> {}]

\* What the gateway answers a new key: DECLINE_CODES, or approval.
Verdict(trigger) == IF trigger = "decline" THEN "declined" ELSE "approved"

Authorized(k, trigger) == [gw EXCEPT !.authorizations[k] = Verdict(trigger)]

\* authorize, answered: a replay of the first answer, or a new authorization.
Authorize(k, trigger, answer) ==
    \/ /\ gw.authorizations[k] # "none"
       /\ answer = gw.authorizations[k]
       /\ UNCHANGED gw
    \/ /\ gw.authorizations[k] = "none"
       /\ trigger = "gateway_timeout_then_ok" => k \in gw.timed_out_once
       /\ answer = Verdict(trigger)
       /\ gw' = Authorized(k, trigger)

\* authorize, PaymentTimeout: the demo card's first call, which does nothing.
AuthorizeTimesOut(k, trigger) ==
    /\ gw.authorizations[k] = "none"
    /\ trigger = "gateway_timeout_then_ok"
    /\ k \notin gw.timed_out_once
    /\ gw' = [gw EXCEPT !.timed_out_once = @ \cup {k}]

\* authorize, PaymentTimeout of a remote gateway: it may have authorized or not.
AuthorizeGoesSilent(k, trigger) ==
    /\ "authorize" \in Faults
    /\ \/ UNCHANGED gw
       \/ gw.authorizations[k] = "none" /\ gw' = Authorized(k, trigger)

CaptureCharge(k) == gw' = [gw EXCEPT !.captured = @ \cup {k}]

\* capture raising: the charge may have been captured or not.
CaptureRaises(k) ==
    /\ "capture" \in Faults
    /\ UNCHANGED gw \/ CaptureCharge(k)

VoidCharge(k) == gw' = [gw EXCEPT !.voided = @ \cup {k}]

\* void raising: RefundFailed, or a timeout after which it may have happened.
VoidRaises(k) ==
    /\ "void" \in Faults
    /\ UNCHANGED gw \/ VoidCharge(k)

\* The customer's money is with the provider: authorized and not voided.
MoneyHeld(k) == gw.authorizations[k] = "approved" /\ k \notin gw.voided
============================================================================
